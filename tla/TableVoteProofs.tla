--------------------------- MODULE TableVoteProofs ---------------------------
(***************************************************************************)
(* For any players, callers and worker pools: the consensus overrides of a *)
(* match are ballots that more than half decide, each with its own timer,  *)
(* whose outcome reaches those who stayed; and a worker pool that replaced *)
(* a broken one is never given up for its predecessor's failure.           *)
(***************************************************************************)
EXTENDS TableVote, FiniteSetTheorems, TLAPS

\* Pools are numbered as they are made, only the last one is cached, and every
\* other one has cost a fault.
PoolFits ==
    /\ PoolTypeOK
    /\ pool \in {NoPool, made} /\ broken \subseteq 1 .. made
    /\ made <= faults + (IF pool = NoPool \/ pool \in broken THEN 0 ELSE 1)

\* The open proposal has the last number given.
Numbered ==
    /\ IsOpen => proposal.id = decided.id
    /\ \A id \in Ids : id > decided.id => expiry[id] = "none"

\* Who holds the locks, and what for.
LocksFit ==
    /\ holder = Nobody <=> step = "none"
    /\ step # "none" => ~ IsOpen
    /\ holder = Timer => step = "send" /\ decided.outcome = "expired"

MoreThanHalf(p) == 2 * Cardinality(p.yes) > Cardinality(p.voters)

\* A rewind is computed for a proposal that was approved.
RewindIsApproved == Deciding => MoreThanHalf(decided)

\* Everybody who waits for the outcome is among those it is sent to.
OutboxFits == step = "send" => waiting \subseteq outbox

\* Each proposal is carried out at most once, an unresolved one not yet.
CarriedFits == carried <= decided.id - (IF IsOpen \/ Deciding THEN 1 ELSE 0)

TableFits == /\ Numbered /\ TimerPerProposal /\ LocksFit /\ RewindIsApproved
             /\ OutboxFits /\ ToldUnlessLost /\ CarriedFits

IInv == TypeOK /\ PoolFits /\ TableFits

-----------------------------------------------------------------------------
(* Counting votes. *)

LEMMA PlayersAreFew == \A S \in SUBSET Players : IsFiniteSet(S) /\ Cardinality(S) \in Nat
BY TableAssumption, FS_Subset, FS_CardinalityType

\* Reaching the threshold is having more than half.
LEMMA ThresholdIsHalf ==
    ASSUME NEW p \in Proposal
    PROVE  /\ Cardinality(p.yes) >= Threshold(p) <=> MoreThanHalf(p)
           /\ Outcome(p) \in {"none", "applied", "rejected"}
           /\ Outcome(p) = "applied" => MoreThanHalf(p)
<1>1. Cardinality(p.yes) \in Nat /\ Cardinality(p.voters) \in Nat
  BY PlayersAreFew DEF Proposal
<1>2. \A n, m \in Nat : m >= n \div 2 + 1 <=> 2 * m > n
  OBVIOUS
<1>3. Cardinality(p.yes) >= Threshold(p) <=> MoreThanHalf(p)
  BY <1>1, <1>2 DEF Threshold, MoreThanHalf
<1>. QED BY <1>3 DEF Outcome

\* A vote leaves a proposal whose votes are its voters'.
LEMMA VotedKeeps ==
    ASSUME NEW p \in Proposal, NEW h \in p.voters, NEW b \in BOOLEAN,
           p.yes \cap p.no = {}, p.yes \cup p.no \subseteq p.voters
    PROVE  LET q == Voted(p, h, b)
           IN  /\ q \in Proposal /\ q.id = p.id /\ q.voters = p.voters
               /\ q.outcome = p.outcome
               /\ q.yes \cap q.no = {} /\ q.yes \cup q.no \subseteq q.voters
               /\ \/ q.yes = p.yes \cup {h} /\ q.no = p.no \ {h}
                  \/ q.yes = p.yes \ {h} /\ q.no = p.no \cup {h}
<1>. DEFINE q == Voted(p, h, b)
<1>1. /\ q.id = p.id /\ q.voters = p.voters /\ q.outcome = p.outcome
      /\ q.yes = (IF b THEN p.yes \cup {h} ELSE p.yes \ {h})
      /\ q.no = (IF b THEN p.no \ {h} ELSE p.no \cup {h}) /\ q \in Proposal
  BY DEF Voted, Proposal
<1>. QED BY <1>1

-----------------------------------------------------------------------------
(* The worker pool. *)

\* A job handed to a pool, and the replacement of a pool given up by its job.
LEMMA HandedKeeps ==
    ASSUME NEW x \in Call, NEW q \in PoolIds
    PROVE  /\ Handed(x, q) \in Call
           /\ q \notin broken => Handed(x, q).retry = x.retry
BY DEF Handed, Ended, NoCall, Call

LEMMA PoolStepKeeps ==
    ASSUME PoolFits, PoolNext
    PROVE  /\ PoolFits'
           /\ pool # NoPool /\ pool' # pool =>
                pool \in broken \/ \E c \in Callers : call[c].on = pool /\ call'[c].retry
<1>. USE DEF PoolFits, PoolTypeOK, PoolIds, NoPool
<1>. DEFINE Replaced == pool # NoPool /\ pool' # pool =>
                pool \in broken \/ \E c \in Callers : call[c].on = pool /\ call'[c].retry
<1>0. MaxFaults \in Nat
  BY PoolAssumption
<1>1. ASSUME NEW c \in Callers, Submit(c) PROVE PoolFits' /\ Replaced
  <2>. DEFINE q == Fetched(pool)
  <2>1. /\ call' = [call EXCEPT ![c] = Handed(call[c], q)]
        /\ pool' = (IF q \in broken THEN Forgotten(q) ELSE q)
        /\ made' = (IF q > made THEN q ELSE made) /\ UNCHANGED <<broken, faults>>
    BY <1>1 DEF Submit
  <2>2. q \in PoolIds /\ (pool = NoPool => q = made + 1) /\ (pool # NoPool => q = pool)
    <3>1. (pool = NoPool => q = made + 1) /\ (pool # NoPool => q = pool)
      BY DEF Fetched
    <3>2. pool = NoPool => made + 1 \in 1 .. MaxFaults + 1
      BY <1>0
    <3>. QED BY <3>1, <3>2
  <2>3. call' \in [Callers -> Call]
    BY <2>1, <2>2, HandedKeeps
  <2>4. made' = (IF pool = NoPool THEN made + 1 ELSE made)
        /\ pool' = (IF q \in broken THEN NoPool ELSE q)
    BY <2>1, <2>2, <1>0 DEF Forgotten
  <2>. QED BY <1>0, <2>1, <2>2, <2>3, <2>4
<1>2. ASSUME NEW c \in Callers, Broke(c) PROVE PoolFits' /\ Replaced
  <2>1. /\ call[c].on \in broken /\ call' = [call EXCEPT ![c] = Ended("broken")]
        /\ pool' = pool \/ (pool' = NoPool /\ pool \in broken)
        /\ UNCHANGED <<made, broken, faults>>
    BY <1>2 DEF Broke, Forgotten
  <2>2. call' \in [Callers -> Call]
    BY <2>1 DEF Ended, NoCall, Call
  <2>. QED BY <1>0, <2>1, <2>2
<1>3. ASSUME NEW c \in Callers, Start(c) \/ Finish(c) PROVE PoolFits' /\ Replaced
  <2>1. UNCHANGED <<pool, made, broken, faults>>
    BY <1>3 DEF Start, Finish
  <2>2. CASE Start(c)
    <3>1. [call[c] EXCEPT !.pc = "running"] \in Call
      BY DEF Call
    <3>2. call' = [call EXCEPT ![c] = [call[c] EXCEPT !.pc = "running"]]
      BY <2>2 DEF Start
    <3>. QED BY <2>1, <3>1, <3>2
  <2>3. CASE Finish(c)
    <3>1. \A r \in {"ok", "invalid"} : Ended(r) \in Call
      BY DEF Ended, NoCall, Call
    <3>. QED BY <2>1, <2>3, <3>1 DEF Finish
  <2>. QED BY <1>3, <2>2, <2>3
<1>4. ASSUME NEW c \in Callers, JobFails(c) PROVE PoolFits' /\ Replaced
  <2>1. /\ call[c].pc = "running" /\ call[c].on \notin broken /\ call[c] \in Call
        /\ faults < MaxFaults /\ faults' = faults + 1 /\ broken' = broken
    BY <1>4 DEF JobFails
  <2>2. CASE call[c].retry
    <3>1. call' = [call EXCEPT ![c] = Ended("runtime")] /\ UNCHANGED <<pool, made>>
      BY <1>4, <2>2 DEF JobFails
    <3>2. call' \in [Callers -> Call]
      BY <3>1 DEF Ended, NoCall, Call
    <3>. QED BY <1>0, <2>1, <3>1, <3>2
  <2>3. CASE ~ call[c].retry
    <3>. DEFINE p == call[c].on
                q == Fetched(Forgotten(p))
                x == [call[c] EXCEPT !.retry = TRUE]
    <3>1. /\ call' = [call EXCEPT ![c] = Handed(x, q)]
          /\ pool' = q /\ made' = (IF q > made THEN q ELSE made)
      BY <1>4, <2>3 DEF JobFails
    <3>2. CASE pool # p /\ pool # NoPool
      <4>1. q = pool
        BY <3>2 DEF Fetched, Forgotten
      <4>2. x \in Call
        BY <2>1 DEF Call
      <4>3. call' \in [Callers -> Call]
        BY <3>1, <3>2, <4>1, <4>2, HandedKeeps
      <4>. QED BY <1>0, <2>1, <3>1, <3>2, <4>1, <4>3
    <3>3. CASE pool = p \/ pool = NoPool
      <4>1. q = made + 1
        BY <3>3 DEF Fetched, Forgotten
      <4>2. x \in Call /\ x.retry = TRUE
        BY <2>1 DEF Call
      <4>3. q \in PoolIds /\ q \notin broken
        BY <1>0, <2>1, <3>3, <4>1
      <4>4. call' \in [Callers -> Call] /\ call'[c].retry
        BY <3>1, <4>2, <4>3, HandedKeeps
      <4>5. Replaced
        BY <3>3, <4>4
      <4>6. pool' = made + 1 /\ made' = made + 1
        BY <3>1, <4>1
      <4>7. made' <= faults' + 1 /\ pool' \notin broken'
        BY <2>1, <3>3, <4>1, <4>3, <4>6
      <4>8. made' \in 0 .. MaxFaults + 1 /\ pool' \in PoolIds \cup {NoPool}
            /\ faults' \in 0 .. MaxFaults /\ broken' \subseteq 1 .. made'
        BY <1>0, <2>1, <4>1, <4>3, <4>6
      <4>. HIDE DEF q
      <4>. QED BY <2>1, <4>4, <4>5, <4>6, <4>7, <4>8
    <3>. QED BY <3>2, <3>3
  <2>. QED BY <2>2, <2>3
<1>5. ASSUME NEW p \in PoolIds, Die(p) PROVE PoolFits' /\ Replaced
  BY <1>0, <1>5 DEF Die
<1>. QED BY <1>1, <1>2, <1>3, <1>4, <1>5 DEF PoolNext, PoolStep

\* A call that begins, or whose result is taken, leaves the pools as they are.
LEMMA PoolLeft ==
    ASSUME PoolFits, UNCHANGED <<pool, made, broken, faults>>, call' \in [Callers -> Call]
    PROVE  PoolFits'
BY DEF PoolFits, PoolTypeOK

-----------------------------------------------------------------------------
(* Resolving a proposal. *)

\* What is left of a proposal that was resolved: its ballot.
LEMMA ClosedKeeps ==
    ASSUME NEW p \in Proposal,
           NEW o \in {"none", "applied", "rejected", "expired", "cancelled", "dropped"}
    PROVE  LET q == Closed(p, o)
           IN  /\ q \in Proposal /\ q.id = p.id /\ q.voters = p.voters
               /\ q.yes = p.yes /\ q.no = p.no /\ q.outcome = o
<1>1. p.id \in Ids \cup {0} /\ p.voters \in SUBSET Players /\ p.yes \in SUBSET Players
      /\ p.no \in SUBSET Players
  BY DEF Proposal
<1>. QED BY <1>1 DEF Closed, Proposal

SameBallot(q, p) == q.id = p.id /\ q.voters = p.voters /\ q.yes = p.yes /\ q.no = p.no

\* The outcome is announced to everybody, or an error of an approved proposal drops
\* it, or its rewind is computed first.
Resolved(who, p, outcome) ==
    /\ SameBallot(decided', p) /\ decided' \in Proposal
    /\ \/ /\ step' = "send" /\ holder' = who /\ outbox' = online
          /\ outcome # "applied" => decided'.outcome = outcome
          /\ outcome = "applied" => decided'.outcome \in {"applied", "rejected"}
          /\ carried' = carried + (IF decided'.outcome = "applied" THEN 1 ELSE 0)
       \/ /\ step' = "none" /\ holder' = Nobody /\ outbox' = {} /\ outcome = "applied"
          /\ decided'.outcome = "dropped" /\ carried' = carried
       \/ /\ step' = "rewind" /\ holder' = who /\ outbox' = outbox /\ outcome = "applied"
          /\ decided'.outcome = "none" /\ carried' = carried
    /\ clock' \in {"RUNNING", "PAUSED", "SUSPENDED"}
    /\ PoolFits'

LEMMA ResolveGives ==
    ASSUME TypeOK, PoolFits, NEW who, NEW p \in Proposal,
           NEW outcome \in {"applied", "rejected", "expired", "cancelled"},
           Resolve(who, p, outcome)
    PROVE  Resolved(who, p, outcome)
<1>1. clock \in {"RUNNING", "PAUSED", "SUSPENDED"} /\ carried \in Nat
  BY TableAssumption DEF TypeOK
<1>2. UNCHANGED poolVars => PoolFits'
  BY PoolLeft DEF poolVars, PoolFits, PoolTypeOK
<1>3. ASSUME NEW o \in {"applied", "rejected", "expired", "cancelled"}, Announce(who, p, o)
      PROVE  /\ SameBallot(decided', p) /\ decided' \in Proposal /\ decided'.outcome = o
             /\ step' = "send" /\ holder' = who /\ outbox' = online
  BY <1>3, ClosedKeeps DEF Announce, SameBallot
<1>4. CASE outcome # "applied"
  <2>1. Announce(who, p, outcome) /\ UNCHANGED <<clock, carried, poolVars>>
    BY <1>4 DEF Resolve
  <2>. QED BY <1>1, <1>2, <1>3, <1>4, <2>1 DEF Resolved
<1>5. CASE outcome = "applied"
  <2>0. CarryOut(who, p)
    BY <1>5 DEF Resolve
  <2>1. CASE /\ Announce(who, p, "applied") /\ carried' = carried + 1
             /\ clock' \in {clock, "PAUSED"} /\ UNCHANGED poolVars
    BY <1>1, <1>2, <1>3, <1>5, <2>1 DEF Resolved
  <2>2. CASE Raise(p) /\ UNCHANGED <<clock, carried, poolVars>>
    <3>1. SameBallot(decided', p) /\ decided' \in Proposal /\ decided'.outcome = "dropped"
      BY <2>2, ClosedKeeps DEF Raise, SameBallot
    <3>. QED BY <1>1, <1>2, <1>5, <2>2, <3>1 DEF Resolved, Raise
  <2>3. CASE Announce(who, p, "rejected") /\ UNCHANGED <<clock, carried, poolVars>>
    BY <1>1, <1>2, <1>3, <1>5, <2>3 DEF Resolved
  <2>4. CASE /\ decided' = Closed(p, "none")
             /\ holder' = who /\ step' = "rewind" /\ Call_(Rewind)
             /\ UNCHANGED <<clock, carried, outbox, pool, made, broken, faults>>
    <3>1. SameBallot(decided', p) /\ decided' \in Proposal /\ decided'.outcome = "none"
      BY <2>4, ClosedKeeps DEF SameBallot
    <3>2. call' \in [Callers -> Call]
      BY <2>4 DEF Call_, NoCall, Call, PoolFits, PoolTypeOK
    <3>. QED BY <1>1, <1>5, <2>4, <3>1, <3>2, PoolLeft DEF Resolved
  <2>. QED BY <2>0, <2>1, <2>2, <2>3, <2>4 DEF CarryOut
<1>. QED BY <1>4, <1>5

-----------------------------------------------------------------------------
(* The initial state, and what steps have in common. *)

LEMMA Initially == Init => IInv
<1>. SUFFICES ASSUME Init PROVE IInv
  OBVIOUS
<1>1. NoProposal \in Proposal /\ NoProposal.id = 0 /\ NoProposal.yes = {}
      /\ NoProposal.no = {} /\ NoProposal.outcome = "none"
  BY DEF NoProposal, Proposal
<1>2. PoolFits
  BY PoolAssumption DEF Init, PoolInit, PoolFits, PoolTypeOK, PoolIds, NoPool, NoCall, Call
<1>3. TypeOK
  BY <1>1, <1>2, TableAssumption DEF Init, TypeOK, PoolFits
<1>4. Numbered /\ TimerPerProposal /\ LocksFit
  BY <1>1, TableAssumption DEF Init, Numbered, TimerPerProposal, LocksFit, IsOpen, Ids,
                               Nobody, Timer
<1>5. RewindIsApproved /\ OutboxFits /\ ToldUnlessLost /\ CarriedFits
  BY <1>1 DEF Init, RewindIsApproved, OutboxFits, ToldUnlessLost, CarriedFits, Deciding,
              IsOpen
<1>. QED BY <1>2, <1>3, <1>4, <1>5 DEF IInv, TableFits

\* A proposal that was open, or was just made, is resolved: its number is the last
\* one given, its timer does not sleep, and nobody waits who is not at the table.
LEMMA ResolvingKeeps ==
    ASSUME IInv, Free, NEW who \in Players \cup {Timer}, NEW p \in Proposal, p.id \in Ids,
           NEW outcome \in {"applied", "rejected", "expired", "cancelled"},
           Resolved(who, p, outcome), outcome = "applied" => MoreThanHalf(p),
           who = Timer <=> outcome = "expired",
           \/ IsOpen /\ p.id = proposal.id /\ proposal' = NoProposal
           \/ ~ IsOpen /\ p.id = decided.id + 1 /\ UNCHANGED proposal,
           NEW t \in {"over", "cancelled"}, expiry' = [expiry EXCEPT ![p.id] = t],
           online' = online, waiting' \in {waiting, online}
    PROVE  IInv'
<1>1. NoProposal \in Proposal /\ NoProposal.id = 0 /\ NoProposal.yes = {}
      /\ NoProposal.no = {}
  BY DEF NoProposal, Proposal
<1>2. /\ ~ IsOpen' /\ proposal'.id = 0 /\ decided'.id = p.id /\ decided' \in Proposal
      /\ p.id \in 1 .. MaxProposals /\ decided.id \in 0 .. MaxProposals
      /\ expiry \in [Ids -> {"none", "asleep", "over", "cancelled"}]
      /\ {Nobody, Timer} \cap Players = {} /\ Nobody # Timer /\ MaxProposals \in Nat
  BY <1>1, TableAssumption DEF IInv, TypeOK, IsOpen, Resolved, SameBallot, Ids, Proposal,
                               Nobody, Timer
<1>3. proposal' \in Proposal /\ proposal'.yes \cap proposal'.no = {}
      /\ proposal'.yes \cup proposal'.no \subseteq proposal'.voters
  BY <1>1 DEF IInv, TypeOK
<1>4. carried \in Nat /\ carried < p.id /\ step = "none"
  <2>1. carried \in Nat /\ step = "none"
    BY <1>2 DEF IInv, TypeOK, TableFits, LocksFit, Free
  <2>2. CASE IsOpen
    BY <1>2, <2>1, <2>2 DEF IInv, TableFits, Numbered, CarriedFits, IsOpen
  <2>3. CASE ~ IsOpen
    BY <1>2, <2>1, <2>3 DEF IInv, TableFits, CarriedFits, Deciding, IsOpen
  <2>. QED BY <2>2, <2>3
<1>5. carried' \in {carried, carried + 1} /\ (step' = "rewind" => carried' = carried)
  BY <1>4 DEF Resolved
<1>6. TypeOK'
  <2>1. waiting' \subseteq online' /\ online' \subseteq Players
    BY DEF IInv, TypeOK
  <2>2. outbox' \subseteq Players /\ holder' \in Players \cup {Nobody, Timer}
        /\ step' \in {"none", "rewind", "send"}
    BY DEF IInv, TypeOK, Resolved
  <2>3. expiry' \in [Ids -> {"none", "asleep", "over", "cancelled"}]
    BY <1>2
  <2>4. carried' \in 0 .. MaxProposals
    BY <1>2, <1>4, <1>5
  <2>5. PoolTypeOK' /\ clock' \in {"RUNNING", "PAUSED", "SUSPENDED"}
    BY DEF Resolved, PoolFits
  <2>. QED BY <1>2, <1>3, <2>1, <2>2, <2>3, <2>4, <2>5 DEF TypeOK
<1>7. Numbered' /\ TimerPerProposal'
  <2>1. \A id \in Ids : expiry'[id] = (IF id = p.id THEN t ELSE expiry[id])
    BY <1>2
  <2>2. Numbered'
    <3>. SUFFICES ASSUME NEW id \in Ids, id > p.id PROVE expiry[id] = "none"
      BY <1>2, <2>1 DEF Numbered, IsOpen
    <3>1. id > decided.id
      BY <1>2 DEF IInv, TableFits, Numbered, IsOpen, Ids
    <3>. QED BY <3>1 DEF IInv, TableFits, Numbered
  <2>3. TimerPerProposal'
    <3>. SUFFICES ASSUME NEW id \in Ids, id # p.id PROVE expiry[id] # "asleep"
      BY <1>2, <2>1 DEF TimerPerProposal, Ids
    <3>. QED BY <1>2 DEF IInv, TableFits, TimerPerProposal, IsOpen, Ids
  <2>. QED BY <2>2, <2>3
<1>8. LocksFit'
  BY <1>2 DEF LocksFit, Resolved
<1>9. RewindIsApproved'
  <2>1. SameBallot(decided', p) /\ (step' = "rewind" => MoreThanHalf(p))
    BY DEF Resolved
  <2>2. MoreThanHalf(p) => MoreThanHalf(decided)'
    BY <2>1, Zenon DEF SameBallot, MoreThanHalf
  <2>. QED BY <2>1, <2>2 DEF RewindIsApproved, Deciding
<1>10. OutboxFits' /\ ToldUnlessLost'
  <2>1. waiting' \subseteq online /\ who # Nobody
    BY <1>2 DEF IInv, TypeOK
  <2>2. step' = "send" => outbox' = online /\ holder' = who
    BY DEF Resolved
  <2>3. holder' = Nobody => decided'.outcome = "dropped"
    BY <2>1 DEF Resolved
  <2>. QED BY <2>1, <2>2, <2>3 DEF OutboxFits, ToldUnlessLost, Free
<1>11. CarriedFits'
  BY <1>2, <1>4, <1>5 DEF CarriedFits, Deciding
<1>. QED BY <1>6, <1>7, <1>8, <1>9, <1>10, <1>11 DEF IInv, TableFits, Resolved

-----------------------------------------------------------------------------
(* Messages and timers. *)

Proposed(h, family) ==
    [NoProposal EXCEPT !.id = decided.id + 1, !.family = family, !.by = h,
                       !.voters = online, !.yes = {h}]

LEMMA ProposedFits ==
    ASSUME IInv, NEW h \in online, NEW family \in Families, decided.id < MaxProposals
    PROVE  LET p == Proposed(h, family)
           IN  /\ p \in Proposal /\ p.id \in Ids /\ p.id = decided.id + 1
               /\ p.voters = online /\ p.yes = {h} /\ p.no = {}
<1>1. decided.id + 1 \in Ids /\ online \subseteq Players
  BY TableAssumption DEF IInv, TypeOK, Proposal, Ids
<1>. QED BY <1>1 DEF Proposed, NoProposal, Proposal

\* A proposal that is not decided by its own vote opens, with its timer.
LEMMA OpeningKeeps ==
    ASSUME IInv, Free, ~ IsOpen, NEW p \in Proposal, p.id \in Ids, p.id = decided.id + 1,
           p.yes \cap p.no = {}, p.yes \cup p.no \subseteq p.voters,
           proposal' = p, expiry' = [expiry EXCEPT ![p.id] = "asleep"],
           decided' = [NoProposal EXCEPT !.id = p.id], waiting' = online,
           UNCHANGED <<online, clock, holder, step, outbox, carried, poolVars>>
    PROVE  IInv'
<1>1. /\ decided' \in Proposal /\ decided'.id = p.id /\ p.id \in 1 .. MaxProposals
      /\ decided.id \in 0 .. MaxProposals /\ proposal.id = 0 /\ IsOpen' /\ step = "none"
      /\ expiry \in [Ids -> {"none", "asleep", "over", "cancelled"}]
  <2>1. decided' \in Proposal /\ decided'.id = p.id
    BY DEF NoProposal, Proposal
  <2>2. /\ p.id \in 1 .. MaxProposals /\ decided.id \in 0 .. MaxProposals
        /\ expiry \in [Ids -> {"none", "asleep", "over", "cancelled"}]
    BY TableAssumption DEF Ids, IInv, TypeOK, Proposal
  <2>3. proposal.id = 0 /\ IsOpen' /\ step = "none"
    BY <2>2 DEF IsOpen, IInv, TableFits, LocksFit, Free
  <2>. QED BY <2>1, <2>2, <2>3
<1>2. PoolFits'
  BY PoolLeft DEF IInv, poolVars, PoolFits, PoolTypeOK
<1>3. TypeOK'
  BY <1>1, <1>2 DEF IInv, TypeOK, PoolFits
<1>4. \A id \in Ids : expiry'[id] = (IF id = p.id THEN "asleep" ELSE expiry[id])
  BY <1>1
<1>5. Numbered'
  BY <1>1, <1>4 DEF IInv, TableFits, Numbered, IsOpen, Ids
<1>6. TimerPerProposal'
  BY <1>1, <1>4 DEF IInv, TableFits, TimerPerProposal, Ids
<1>7. LocksFit' /\ RewindIsApproved' /\ OutboxFits' /\ ToldUnlessLost'
  BY <1>1 DEF IInv, TableFits, LocksFit, Free, RewindIsApproved, Deciding, OutboxFits,
              ToldUnlessLost, Nobody, Timer
<1>8. CarriedFits'
  BY <1>1 DEF IInv, TypeOK, TableFits, CarriedFits, Deciding, IsOpen
<1>. QED BY <1>2, <1>3, <1>5, <1>6, <1>7, <1>8 DEF IInv, TableFits

LEMMA ProposeKeeps ==
    ASSUME IInv, NEW h \in Players, NEW family \in Families, Propose(h, family)
    PROVE  IInv'
<1>. DEFINE p == Proposed(h, family)
<1>1. /\ Free /\ h \in online /\ ~ IsOpen /\ decided.id < MaxProposals
      /\ waiting' = online /\ online' = online
  BY DEF Propose
<1>2. /\ p \in Proposal /\ p.id \in Ids /\ p.id = decided.id + 1
      /\ p.voters = online /\ p.yes = {h} /\ p.no = {}
  BY <1>1, ProposedFits
<1>3. CASE Outcome(p) = "applied"
  <2>1. Resolve(h, p, "applied") /\ UNCHANGED proposal
        /\ expiry' = [expiry EXCEPT ![p.id] = "cancelled"]
    BY <1>3 DEF Propose, Proposed
  <2>2. Resolved(h, p, "applied") /\ MoreThanHalf(p)
    BY <1>2, <1>3, <2>1, ResolveGives, ThresholdIsHalf DEF IInv
  <2>3. h # Timer
    BY TableAssumption
  <2>. HIDE DEF p
  <2>. QED BY <1>1, <1>2, <2>1, <2>2, <2>3, ResolvingKeeps
<1>4. CASE Outcome(p) # "applied"
  <2>1. /\ proposal' = p /\ expiry' = [expiry EXCEPT ![p.id] = "asleep"]
        /\ decided' = [NoProposal EXCEPT !.id = p.id]
        /\ UNCHANGED <<clock, holder, step, outbox, carried, poolVars>>
    BY <1>4 DEF Propose, Proposed
  <2>2. p.yes \cap p.no = {} /\ p.yes \cup p.no \subseteq p.voters
    BY <1>1, <1>2
  <2>. HIDE DEF p
  <2>. QED BY <1>1, <1>2, <2>1, <2>2, OpeningKeeps
<1>. QED BY <1>3, <1>4

\* The timer of an open proposal sleeps, so it is cancelled with it.
LEMMA CancelledTimer ==
    ASSUME IInv, IsOpen
    PROVE  /\ proposal.id \in Ids /\ proposal \in Proposal
           /\ Cancelled(expiry, proposal.id) = [expiry EXCEPT ![proposal.id] = "cancelled"]
<1>1. proposal.id \in Ids /\ proposal \in Proposal /\ expiry[proposal.id] = "asleep"
  BY DEF IInv, TypeOK, IsOpen, Proposal, TableFits, TimerPerProposal
<1>. QED BY <1>1 DEF Cancelled

LEMMA VoteKeeps ==
    ASSUME IInv, NEW h \in Players, NEW b \in BOOLEAN, Vote(h, b)
    PROVE  IInv'
<1>. DEFINE p == Voted(proposal, h, b)
<1>1. /\ Free /\ h \in online /\ IsOpen /\ h \in proposal.voters
      /\ online' = online /\ waiting' = waiting
  BY DEF Vote
<1>2. proposal.id \in Ids /\ proposal \in Proposal
      /\ Cancelled(expiry, proposal.id) = [expiry EXCEPT ![proposal.id] = "cancelled"]
  BY <1>1, CancelledTimer
<1>3. /\ p \in Proposal /\ p.id = proposal.id /\ p.yes \cap p.no = {}
      /\ p.yes \cup p.no \subseteq p.voters
  BY <1>1, <1>2, VotedKeeps DEF IInv, TypeOK
<1>4. CASE Outcome(p) = "none"
  <2>1. /\ proposal' = p
        /\ UNCHANGED <<clock, expiry, holder, step, decided, outbox, carried, poolVars>>
    BY <1>4 DEF Vote
  <2>2. PoolFits'
    BY <2>1, PoolLeft DEF IInv, poolVars, PoolFits, PoolTypeOK
  <2>. HIDE DEF p
  <2>3. TypeOK'
    BY <1>1, <1>3, <2>1, <2>2 DEF IInv, TypeOK, PoolFits
  <2>4. TableFits'
    BY <1>1, <1>3, <2>1 DEF IInv, TableFits, Numbered, TimerPerProposal, LocksFit,
       RewindIsApproved, OutboxFits, ToldUnlessLost, CarriedFits, Deciding, MoreThanHalf,
       IsOpen, Free
  <2>. QED BY <2>2, <2>3, <2>4 DEF IInv
<1>5. CASE Outcome(p) # "none"
  <2>1. /\ proposal' = NoProposal /\ Resolve(h, p, Outcome(p))
        /\ expiry' = [expiry EXCEPT ![p.id] = "cancelled"]
    BY <1>2, <1>3, <1>5 DEF Vote
  <2>2. Outcome(p) \in {"applied", "rejected"} /\ (Outcome(p) = "applied" => MoreThanHalf(p))
    BY <1>3, <1>5, ThresholdIsHalf
  <2>3. Resolved(h, p, Outcome(p))
    BY <1>3, <2>1, <2>2, ResolveGives DEF IInv
  <2>4. h # Timer
    BY TableAssumption
  <2>. HIDE DEF p
  <2>. QED BY <1>1, <1>2, <1>3, <2>1, <2>2, <2>3, <2>4, ResolvingKeeps
<1>. QED BY <1>4, <1>5

LEMMA CancelKeeps ==
    ASSUME IInv, NEW h \in Players, Cancel(h)
    PROVE  IInv'
<1>1. /\ Free /\ IsOpen /\ proposal' = NoProposal /\ Resolve(h, proposal, "cancelled")
      /\ expiry' = Cancelled(expiry, proposal.id) /\ UNCHANGED <<online, waiting>>
  BY DEF Cancel
<1>2. proposal.id \in Ids /\ proposal \in Proposal
      /\ Cancelled(expiry, proposal.id) = [expiry EXCEPT ![proposal.id] = "cancelled"]
  BY <1>1, CancelledTimer
<1>3. Resolved(h, proposal, "cancelled")
  BY <1>1, <1>2, ResolveGives DEF IInv
<1>4. h # Timer
  BY TableAssumption
<1>. QED BY <1>1, <1>2, <1>3, <1>4, ResolvingKeeps

LEMMA ExpireKeeps ==
    ASSUME IInv, NEW id \in Ids, Expire(id)
    PROVE  IInv'
<1>1. /\ Free /\ proposal.id = id /\ IsOpen
      /\ proposal' = NoProposal /\ Resolve(Timer, proposal, "expired")
      /\ expiry' = [expiry EXCEPT ![proposal.id] = "over"] /\ UNCHANGED <<online, waiting>>
  <2>1. Free /\ expiry[id] = "asleep" /\ UNCHANGED <<online, waiting>>
        /\ expiry' = [expiry EXCEPT ![id] = "over"]
    BY DEF Expire
  <2>2. proposal.id = id /\ IsOpen
    BY <2>1, TableAssumption DEF IInv, TableFits, TimerPerProposal, IsOpen, Ids
  <2>. QED BY <2>1, <2>2 DEF Expire
<1>2. proposal.id \in Ids /\ proposal \in Proposal
  BY <1>1, CancelledTimer
<1>3. Resolved(Timer, proposal, "expired")
  BY <1>1, <1>2, ResolveGives DEF IInv
<1>. QED BY <1>1, <1>2, <1>3, ResolvingKeeps

-----------------------------------------------------------------------------
(* The holder of the locks, and the rest of the server. *)

LEMMA RewoundKeeps == IInv /\ Rewound => IInv'
<1>. SUFFICES ASSUME IInv, Rewound PROVE IInv'
  OBVIOUS
<1>1. /\ step = "rewind" /\ Deciding /\ ~ IsOpen /\ call' = [call EXCEPT ![Rewind] = NoCall]
      /\ holder \in Players /\ decided \in Proposal
      /\ UNCHANGED <<online, clock, proposal, expiry, waiting, pool, made, broken, faults>>
  BY DEF Rewound, Deciding, IInv, TypeOK, TableFits, LocksFit
<1>2. /\ SameBallot(decided', decided) /\ decided' \in Proposal
      /\ \/ /\ step' = "send" /\ holder' = holder /\ outbox' = online
            /\ decided'.outcome \in {"applied", "rejected"}
            /\ carried' \in {carried, carried + 1}
         \/ /\ step' = "none" /\ holder' = Nobody /\ outbox' = {} /\ carried' = carried
            /\ decided'.outcome = "dropped"
  BY <1>1, ClosedKeeps DEF Rewound, Raise, Announce, SameBallot
<1>3. PoolFits'
  <2>1. call' \in [Callers -> Call]
    BY <1>1 DEF IInv, PoolFits, PoolTypeOK, NoCall, Call
  <2>. QED BY <1>1, <2>1, PoolLeft DEF IInv
<1>4. carried \in Nat /\ carried + 1 <= decided.id /\ decided.id \in 0 .. MaxProposals
  BY <1>1, TableAssumption DEF IInv, TypeOK, TableFits, CarriedFits, Proposal, Ids
<1>5. carried' \in 0 .. MaxProposals /\ carried' <= decided.id
  BY <1>2, <1>4, TableAssumption
<1>6. TypeOK'
  BY <1>1, <1>2, <1>3, <1>5 DEF IInv, TypeOK, PoolFits
<1>7. Numbered' /\ TimerPerProposal' /\ LocksFit' /\ RewindIsApproved'
  BY <1>1, <1>2, TableAssumption
     DEF SameBallot, IInv, TableFits, Numbered, TimerPerProposal, LocksFit,
         RewindIsApproved, Deciding, IsOpen, Nobody, Timer
<1>8. OutboxFits' /\ ToldUnlessLost'
  BY <1>1, <1>2, TableAssumption
     DEF IInv, TypeOK, OutboxFits, ToldUnlessLost, Free
<1>9. CarriedFits'
  BY <1>1, <1>2, <1>4, <1>5 DEF CarriedFits, SameBallot, IsOpen, Deciding
<1>. QED BY <1>3, <1>6, <1>7, <1>8, <1>9 DEF IInv, TableFits

LEMMA SentKeeps == IInv /\ (Send \/ Cut) => IInv'
<1>. SUFFICES ASSUME IInv, Send \/ Cut PROVE IInv'
  OBVIOUS
<1>1. /\ step = "send" /\ step' = "none" /\ holder' = Nobody /\ outbox' = {}
      /\ UNCHANGED <<online, clock, proposal, expiry, decided, carried, poolVars>>
      /\ waiting' \subseteq waiting
      /\ waiting' = {} \/ decided.outcome = "expired"
  BY DEF Send, Cut, Released, IInv, TableFits, OutboxFits, LocksFit
<1>2. PoolFits'
  BY <1>1, PoolLeft DEF IInv, poolVars, PoolFits, PoolTypeOK
<1>3. TypeOK'
  BY <1>1, <1>2 DEF IInv, TypeOK, PoolFits
<1>4. TableFits'
  BY <1>1 DEF IInv, TableFits, Numbered, TimerPerProposal, LocksFit,
       RewindIsApproved, OutboxFits, ToldUnlessLost, CarriedFits, Deciding,
       IsOpen, Free, Nobody, Timer
<1>. QED BY <1>2, <1>3, <1>4 DEF IInv

\* Sockets come and go, the clock moves, other work uses the pool.
LEMMA RestKeeps ==
    ASSUME IInv, \/ Suspend \/ AllReady \/ Others
                 \/ PoolNext /\ UNCHANGED tableVars
                 \/ \E h \in Players : Connect(h) \/ Disconnect(h)
    PROVE  IInv'
<1>1. /\ UNCHANGED <<proposal, expiry, holder, step, decided, outbox, carried>>
      /\ clock' \in {"RUNNING", "PAUSED", "SUSPENDED"}
      /\ online' \subseteq Players /\ waiting' \subseteq online' /\ waiting' \subseteq waiting
  BY DEF Suspend, AllReady, Others, Connect, Disconnect, tableVars, IInv, TypeOK
<1>2. PoolFits'
  <2>1. CASE UNCHANGED poolVars
    BY <2>1, PoolLeft DEF IInv, poolVars, PoolFits, PoolTypeOK
  <2>2. CASE Others
    <3>1. call \in [Callers -> Call]
      BY DEF IInv, PoolFits, PoolTypeOK
    <3>2. [NoCall EXCEPT !.pc = "calling"] \in Call
      BY DEF NoCall, Call
    <3>3. \E c \in Callers : call' = [call EXCEPT ![c] = [NoCall EXCEPT !.pc = "calling"]]
      BY <2>2 DEF Others, Call_
    <3>4. call' \in [Callers -> Call]
      BY <3>1, <3>2, <3>3
    <3>. QED BY <2>2, <3>4, PoolLeft DEF IInv, Others
  <2>3. CASE PoolNext
    BY <2>3, PoolStepKeeps DEF IInv
  <2>. QED BY <2>1, <2>2, <2>3 DEF Suspend, AllReady, Connect, Disconnect
<1>3. TypeOK'
  BY <1>1, <1>2 DEF IInv, TypeOK, PoolFits
<1>4. TableFits'
  BY <1>1 DEF IInv, TableFits, Numbered, TimerPerProposal, LocksFit, MoreThanHalf,
       RewindIsApproved, OutboxFits, ToldUnlessLost, CarriedFits, Deciding, IsOpen, Free
<1>. QED BY <1>2, <1>3, <1>4 DEF IInv

LEMMA Inductive == IInv /\ [Next]_vars => IInv'
<1>1. IInv /\ UNCHANGED vars => IInv'
  BY DEF vars, poolVars, tableVars, IInv, TypeOK, PoolFits, PoolTypeOK, TableFits, Numbered,
         TimerPerProposal, LocksFit, MoreThanHalf, RewindIsApproved, OutboxFits,
         ToldUnlessLost, CarriedFits, Deciding, IsOpen, Free
<1>2. IInv /\ Next => IInv'
  <2>. SUFFICES ASSUME IInv, Next PROVE IInv'
    OBVIOUS
  <2>1. CASE Messages
    BY <2>1, ProposeKeeps, VoteKeeps, CancelKeeps DEF Messages
  <2>2. CASE Awaited \/ Cut
    BY <2>2, RewoundKeeps, SentKeeps DEF Awaited
  <2>3. CASE Suspend \/ AllReady \/ Others
    BY <2>3, RestKeeps
  <2>4. CASE PoolNext /\ UNCHANGED tableVars
    BY <2>4, RestKeeps
  <2>5. CASE \E h \in Players : Connect(h) \/ Disconnect(h)
    BY <2>5, RestKeeps
  <2>6. CASE \E id \in Ids : Expire(id)
    BY <2>6, ExpireKeeps
  <2>. QED BY <2>1, <2>2, <2>3, <2>4, <2>5, <2>6 DEF Next
<1>. QED BY <1>1, <1>2

-----------------------------------------------------------------------------
(* The overrides of a table are a ballot. *)

\* The ballot counts as the table does.
LEMMA SameCount == \A S : B!Cardinality(S) = Cardinality(S)
BY DEF B!Cardinality, Cardinality

State == IF IsOpen \/ Deciding THEN "open" ELSE decided.outcome

\* The state that the ballot shows when a proposal has just been resolved.
LEMMA ResolvedShows ==
    ASSUME IInv, NEW who, NEW p \in Proposal, NEW outcome, Resolved(who, p, outcome),
           outcome \in {"applied", "rejected", "expired", "cancelled"},
           outcome = "applied" => MoreThanHalf(p), ~ IsOpen'
    PROVE  /\ Shown'.voters = p.voters /\ Shown'.yes = p.yes /\ Shown'.no = p.no
           /\ State' \in {"open", "applied"} \cup B!Failures
           /\ State' \in {"applied", "dropped"} => MoreThanHalf(Shown)'
           /\ carried' = (IF State' = "applied" THEN carried + 1 ELSE carried)
           /\ outcome \in {"expired", "cancelled"} => State' = outcome
<1>1. Shown' = decided' /\ SameBallot(decided', p)
  BY DEF Shown, Resolved
<1>2. State' = (IF step' = "rewind" THEN "open" ELSE decided'.outcome)
  BY DEF State, Deciding
<1>3. State' \in {"applied", "dropped"} => outcome = "applied"
  BY <1>2 DEF Resolved
<1>4. MoreThanHalf(p) => MoreThanHalf(Shown)'
  BY <1>1, Zenon DEF SameBallot, MoreThanHalf
<1>5. /\ State' \in {"open", "applied", "rejected", "expired", "cancelled", "dropped"}
      /\ carried' = (IF State' = "applied" THEN carried + 1 ELSE carried)
      /\ outcome \in {"expired", "cancelled"} => State' = outcome
  BY <1>2, TableAssumption DEF Resolved, IInv, TypeOK
<1>. QED BY <1>1, <1>3, <1>4, <1>5 DEF SameBallot, B!Failures

\* Between two messages nobody computes a rewind.
LEMMA FreeState ==
    ASSUME IInv, Free
    PROVE  /\ IsOpen => State = "open" /\ Shown = proposal
           /\ ~ IsOpen => State # "open"
<1>1. step = "none"
  BY DEF IInv, TableFits, LocksFit, Free
<1>2. decided.outcome # "open"
  BY DEF IInv, TypeOK, Proposal
<1>. QED BY <1>1, <1>2 DEF State, Shown, Deciding

LEMMA ProposeIsOpen ==
    ASSUME IInv, NEW h \in Players, NEW family \in Families, Propose(h, family)
    PROVE  B!Open
<1>. DEFINE p == Proposed(h, family)
<1>1. /\ Free /\ h \in online /\ ~ IsOpen /\ decided.id < MaxProposals
  BY DEF Propose
<1>2. /\ p \in Proposal /\ p.id \in Ids /\ p.voters = online /\ p.yes = {h} /\ p.no = {}
  BY <1>1, ProposedFits
<1>3. State # "open" /\ online \in SUBSET Players
  BY <1>1, FreeState DEF IInv, TypeOK
<1>4. /\ Shown'.voters = online /\ Shown'.yes = {h} /\ Shown'.no = {}
      /\ State' \in {"open", "applied"} \cup B!Failures
      /\ State' \in {"applied", "dropped"} => MoreThanHalf(Shown)'
      /\ carried' = (IF State' = "applied" THEN carried + 1 ELSE carried)
  <2>1. CASE Outcome(p) = "applied"
    <3>1. Resolve(h, p, "applied") /\ UNCHANGED proposal
      BY <2>1 DEF Propose, Proposed
    <3>2. Resolved(h, p, "applied") /\ MoreThanHalf(p) /\ ~ IsOpen'
      BY <1>1, <1>2, <2>1, <3>1, ResolveGives, ThresholdIsHalf DEF IInv, IsOpen
    <3>. HIDE DEF p
    <3>. QED BY <1>2, <3>2, ResolvedShows
  <2>2. CASE Outcome(p) # "applied"
    <3>1. proposal' = p /\ UNCHANGED carried
      BY <2>2 DEF Propose, Proposed
    <3>2. IsOpen'
      BY <1>2, <3>1, TableAssumption DEF IsOpen, Ids
    <3>3. Shown' = p /\ State' = "open"
      BY <3>1, <3>2 DEF Shown, State
    <3>. HIDE DEF p
    <3>. QED BY <1>2, <3>1, <3>3
  <2>. QED BY <2>1, <2>2
<1>. HIDE DEF p
<1>. QED BY <1>1, <1>3, <1>4, SameCount DEF B!Open, State, MoreThanHalf

LEMMA VoteIsVote ==
    ASSUME IInv, NEW h \in Players, NEW b \in BOOLEAN, Vote(h, b)
    PROVE  B!Vote
<1>. DEFINE p == Voted(proposal, h, b)
<1>1. /\ Free /\ IsOpen /\ h \in proposal.voters
  BY DEF Vote
<1>2. proposal.id \in Ids /\ proposal \in Proposal /\ State = "open" /\ Shown = proposal
  BY <1>1, CancelledTimer, FreeState
<1>3. /\ p \in Proposal /\ p.id = proposal.id /\ p.voters = proposal.voters
      /\ \/ p.yes = proposal.yes \cup {h} /\ p.no = proposal.no \ {h}
         \/ p.yes = proposal.yes \ {h} /\ p.no = proposal.no \cup {h}
  BY <1>1, <1>2, VotedKeeps DEF IInv, TypeOK
<1>4. /\ Shown'.voters = p.voters /\ Shown'.yes = p.yes /\ Shown'.no = p.no
      /\ State' \in {"open", "applied"} \cup B!Failures
      /\ State' \in {"applied", "dropped"} => MoreThanHalf(Shown)'
      /\ carried' = (IF State' = "applied" THEN carried + 1 ELSE carried)
  <2>1. CASE Outcome(p) = "none"
    <3>1. proposal' = p /\ carried' = carried
      BY <2>1 DEF Vote
    <3>2. IsOpen' /\ Shown' = p /\ State' = "open"
      BY <1>1, <1>3, <3>1 DEF IsOpen, Shown, State
    <3>. QED BY <3>1, <3>2
  <2>2. CASE Outcome(p) # "none"
    <3>1. proposal' = NoProposal /\ Resolve(h, p, Outcome(p))
      BY <2>2 DEF Vote
    <3>2. Outcome(p) \in {"applied", "rejected"} /\ (Outcome(p) = "applied" => MoreThanHalf(p))
      BY <1>3, <2>2, ThresholdIsHalf
    <3>3. Resolved(h, p, Outcome(p)) /\ ~ IsOpen'
      BY <1>3, <3>1, <3>2, ResolveGives DEF IInv, IsOpen, NoProposal
    <3>. HIDE DEF p
    <3>. QED BY <1>3, <3>2, <3>3, ResolvedShows
  <2>. QED BY <2>1, <2>2
<1>5. MoreThanHalf(Shown)' => 2 * Cardinality(Shown'.yes) > Cardinality(Shown.voters)
  BY <1>2, <1>3, <1>4, Zenon DEF MoreThanHalf
<1>. HIDE DEF p
<1>. QED BY <1>1, <1>2, <1>3, <1>4, <1>5, SameCount DEF B!Vote, State

\* A proposal that is cancelled or expires closes the ballot without a majority.
LEMMA FailureIsClose ==
    ASSUME IInv, Free, IsOpen, NEW who, NEW outcome \in {"expired", "cancelled"},
           Resolve(who, proposal, outcome), proposal' = NoProposal
    PROVE  B!Close
<1>1. proposal \in Proposal /\ State = "open" /\ Shown = proposal
  BY CancelledTimer, FreeState
<1>2. Resolved(who, proposal, outcome) /\ ~ IsOpen'
  BY <1>1, ResolveGives DEF IInv, IsOpen, NoProposal
<1>3. /\ Shown'.voters = proposal.voters /\ Shown'.yes = proposal.yes
      /\ Shown'.no = proposal.no /\ State' = outcome /\ carried' = carried
  BY <1>1, <1>2, ResolvedShows
<1>. QED BY <1>1, <1>3 DEF B!Close, B!Failures, State

\* A computed rewind closes the ballot that approved it.
LEMMA RewoundIsClose ==
    ASSUME IInv, Rewound
    PROVE  B!Close
<1>1. /\ step = "rewind" /\ ~ IsOpen /\ ~ IsOpen' /\ MoreThanHalf(decided) /\ decided \in Proposal
  BY DEF Rewound, IInv, TypeOK, TableFits, LocksFit, RewindIsApproved, Deciding, IsOpen
<1>2. State = "open" /\ Shown = decided /\ Shown' = decided'
  BY <1>1 DEF State, Shown, Deciding
<1>3. /\ SameBallot(decided', decided) /\ step' # "rewind"
      /\ \/ decided'.outcome = "applied" /\ carried' = carried + 1
         \/ decided'.outcome \in B!Failures /\ carried' = carried
  BY <1>1, ClosedKeeps DEF Rewound, Raise, Announce, SameBallot, B!Failures
<1>4. State' = decided'.outcome
  BY <1>1, <1>3 DEF State, Deciding
<1>. QED BY <1>1, <1>2, <1>3, <1>4, SameCount DEF B!Close, B!Majority, State, SameBallot, MoreThanHalf

\* What neither opens, votes nor resolves is not seen by the ballot.
LEMMA RestStutters ==
    ASSUME IInv, \/ UNCHANGED tableVars
                 \/ Suspend \/ AllReady \/ Others \/ Send \/ Cut
                 \/ \E h \in Players : Connect(h) \/ Disconnect(h)
    PROVE  UNCHANGED B!ballotVars
<1>1. /\ UNCHANGED <<proposal, decided, carried>>
      /\ step' = step \/ (step = "send" /\ step' = "none")
  BY DEF Suspend, AllReady, Others, Send, Cut, Released, Connect, Disconnect, tableVars
<1>. QED BY <1>1 DEF B!ballotVars, Shown, IsOpen, Deciding

LEMMA StepIsBallot ==
    IInv /\ [Next]_vars => [B!Open \/ B!Vote \/ B!Close]_(B!ballotVars)
<1>. SUFFICES ASSUME IInv, [Next]_vars
              PROVE  B!Open \/ B!Vote \/ B!Close \/ UNCHANGED B!ballotVars
  OBVIOUS
<1>1. CASE UNCHANGED vars
  BY <1>1, RestStutters DEF vars
<1>2. CASE Messages
  <2>1. ASSUME NEW h \in Players, Cancel(h) PROVE B!Close
    BY <2>1, FailureIsClose DEF Cancel
  <2>. QED BY <1>2, <2>1, ProposeIsOpen, VoteIsVote DEF Messages
<1>3. CASE Rewound
  BY <1>3, RewoundIsClose
<1>4. CASE \/ Suspend \/ AllReady \/ Others \/ Send \/ Cut
           \/ \E h \in Players : Connect(h) \/ Disconnect(h)
  BY <1>4, RestStutters
<1>5. CASE PoolNext /\ UNCHANGED tableVars
  BY <1>5, RestStutters
<1>6. ASSUME NEW id \in Ids, Expire(id) PROVE B!Close
  <2>1. Free /\ expiry[id] = "asleep"
    BY <1>6 DEF Expire
  <2>2. proposal.id = id /\ IsOpen
    BY <2>1, TableAssumption DEF IInv, TableFits, TimerPerProposal, IsOpen, Ids
  <2>3. proposal' = NoProposal /\ Resolve(Timer, proposal, "expired")
    BY <1>6, <2>2 DEF Expire
  <2>. QED BY <2>1, <2>2, <2>3, FailureIsClose
<1>. QED BY <1>1, <1>2, <1>3, <1>4, <1>5, <1>6 DEF Next, Awaited

-----------------------------------------------------------------------------
(* The theorems. *)

\* The inductive invariant holds throughout.
THEOREM Invariance == Spec => []IInv
BY Initially, Inductive, PTL DEF Spec

\* The variables of the table and of the pool keep to their types.
THEOREM TypeCorrect == Spec => []TypeOK
<1>1. IInv => TypeOK
  BY DEF IInv
<1>. QED BY <1>1, Invariance, PTL

\* An expiry timer sleeps exactly as long as its proposal is open, so that
\* _expire_override never meets a later proposal.
THEOREM TimersFollowProposals == Spec => []TimerPerProposal
<1>1. IInv => TimerPerProposal
  BY DEF IInv, TableFits
<1>. QED BY <1>1, Invariance, PTL

\* Whoever stayed since a proposal was made has been told how it ended when the
\* locks are free again, unless the handler raised or the timer resolved it.
THEOREM OutcomeIsTold == Spec => []ToldUnlessLost
<1>1. IInv => ToldUnlessLost
  BY DEF IInv, TableFits
<1>. QED BY <1>1, Invariance, PTL

\* The handlers, timers and workers of a match implement the ballot: decided once,
\* by more than half of the voters of the snapshot, and carried out exactly then.
THEOREM ImplementsBallot == Spec => IsBallot
<1>1. Init => B!BallotInit
  BY DEF Init, B!BallotInit, IsOpen, Deciding, Shown, NoProposal
<1>. QED BY <1>1, StepIsBallot, Invariance, PTL DEF Spec, IsBallot, B!BallotSpec

\* A worker pool that replaced a broken one is not given up for what failed in its
\* predecessor: it goes only after one of its own workers died or its own job raised.
THEOREM ReplacementIsKept == Spec => ReplacementKept
<1>. DEFINE Kept == pool # NoPool /\ pool' # pool =>
               pool \in broken \/ \E c \in Callers : call[c].on = pool /\ call'[c].retry
<1>1. IInv /\ [Next]_vars => [Kept]_poolVars
  <2>. SUFFICES ASSUME IInv, [Next]_vars, pool' # pool PROVE Kept
    BY DEF poolVars
  <2>1. CASE PoolNext
    BY <2>1, PoolStepKeeps DEF IInv
  <2>2. pool' = pool \/ PoolNext
    <3>1. ASSUME NEW who, NEW p, NEW o, Resolve(who, p, o) PROVE pool' = pool
      BY <3>1 DEF Resolve, CarryOut, Announce, Raise, poolVars
    <3>2. Messages => pool' = pool
      BY <3>1 DEF Messages, Propose, Vote, Cancel, poolVars
    <3>3. (\E id \in Ids : Expire(id)) => pool' = pool
      BY <3>1 DEF Expire, poolVars
    <3>4. Awaited \/ Cut \/ Others \/ Suspend \/ AllReady => pool' = pool
      BY DEF Awaited, Rewound, Send, Cut, Released, Others, Suspend, AllReady, poolVars
    <3>5. (\E h \in Players : Connect(h) \/ Disconnect(h)) \/ UNCHANGED vars => pool' = pool
      BY DEF Connect, Disconnect, poolVars, vars
    <3>. QED BY <3>2, <3>3, <3>4, <3>5 DEF Next
  <2>. QED BY <2>1, <2>2
<1>. QED BY <1>1, Invariance, PTL DEF Spec, ReplacementKept
=============================================================================
