----------------------------- MODULE TableVote ------------------------------
(***************************************************************************)
(* The consensus overrides of one match (src/src/goa2/server/overrides.py, *)
(* ws.py): players propose, vote and cancel, a timer expires what stays    *)
(* open, and the outcome is carried out and announced.  A rewind is        *)
(* computed in the worker pool while the handler keeps the match's locks.  *)
(***************************************************************************)
EXTENDS HeavyPool

CONSTANTS
    Players,      \* heroes of the match
    Flaky,        \* bound: those whose players come late and lose their sockets
    Rewind,       \* the caller that computes this match's rewinds
    Families,     \* families of proposals
    MaxProposals  \* bound: proposals in the life of the match

Nobody == "nobody"
Timer  == "timer"

ASSUME TableAssumption ==
    /\ IsFiniteSet(Players) /\ Flaky \subseteq Players /\ {Nobody, Timer} \cap Players = {}
    /\ Rewind \in Callers /\ MaxProposals \in Nat
    /\ Families \subseteq {"patch", "pause", "rewind", "reveal_player"}

VARIABLES
    online,    \* heroes with a live socket (ws_connections)
    clock,     \* status of the match clock
    proposal,  \* pending_override
    expiry,    \* per proposal: its expiry task
    holder,    \* who holds outbound_lock: a player's handler, a timer, nobody
    step,      \* what the holder awaits: "rewind", "send", or nothing
    decided,   \* the proposal that is being, or was last, resolved; its number
    outbox,    \* who is still to be sent its outcome
    waiting,   \* history: who stayed since it was proposed and was not told
    carried    \* history: overrides carried out

tableVars == <<online, clock, proposal, expiry, holder, step, decided, outbox, waiting, carried>>
vars == <<poolVars, tableVars>>

Ids == 1 .. MaxProposals

Proposal == [id : Ids \cup {0}, family : Families \cup {"none"}, by : Players \cup {Nobody},
             voters : SUBSET Players, yes : SUBSET Players, no : SUBSET Players,
             outcome : {"none", "applied", "rejected", "expired", "cancelled", "dropped"}]

NoProposal == [id |-> 0, family |-> "none", by |-> Nobody, voters |-> {}, yes |-> {},
               no |-> {}, outcome |-> "none"]

IsOpen == proposal.id # 0
Free   == holder = Nobody

-----------------------------------------------------------------------------
(* The proposal record (overrides.py). *)

\* threshold: strictly more than half of the snapshotted voters.
\* Mutant: half of them.
MutThreshold(p) == (Cardinality(p.voters) + 1) \div 2
Threshold(p) == Cardinality(p.voters) \div 2 + 1

Outcome(p) ==
    IF Cardinality(p.yes) >= Threshold(p) THEN "applied"
    ELSE IF Cardinality(p.voters) - Cardinality(p.no) < Threshold(p) THEN "rejected"
    ELSE "none"

Voted(p, h, approve) ==
    [p EXCEPT !.yes = IF approve THEN @ \cup {h} ELSE @ \ {h},
              !.no  = IF approve THEN @ \ {h} ELSE @ \cup {h}]

-----------------------------------------------------------------------------
(* Resolving a proposal: _resolve_override. *)

\* The timer of a proposal that is resolved is cancelled first.
\* Mutant: it is not.
MutCancelled(t, id) == t

Cancelled(t, id) == [t EXCEPT ![id] = IF @ = "over" THEN @ ELSE "cancelled"]

Closed(p, outcome) == [p EXCEPT !.outcome = outcome, !.family = "none", !.by = Nobody]

\* Mutant: the one whose message decided it is left out.
MutAnnounce(who, p, outcome) ==
    /\ decided' = Closed(p, outcome)
    /\ holder' = who /\ step' = "send" /\ outbox' = online \ {who}

Announce(who, p, outcome) ==
    /\ decided' = Closed(p, outcome)
    /\ holder' = who /\ step' = "send" /\ outbox' = online

\* An exception leaves the handler: the locks are released, nothing is sent.
Raise(p) ==
    /\ decided' = Closed(p, "dropped")
    /\ holder' = Nobody /\ step' = "none" /\ outbox' = {}

\* What an approved proposal does; `who' keeps the locks.
CarryOut(who, p) ==
    \/ /\ p.family = "reveal_player"
       /\ Announce(who, p, "applied") /\ carried' = carried + 1
       /\ UNCHANGED <<clock, poolVars>>
    \/ \* prepare_timed_mutation refuses a held match.
       /\ p.family # "reveal_player" /\ clock # "RUNNING"
       /\ Raise(p) /\ UNCHANGED <<clock, carried, poolVars>>
    \/ /\ p.family = "pause" /\ clock = "RUNNING"
       /\ clock' = "PAUSED"
       /\ Announce(who, p, "applied") /\ carried' = carried + 1
       /\ UNCHANGED poolVars
    \/ /\ p.family = "patch" /\ clock = "RUNNING"
       /\ \/ Announce(who, p, "applied") /\ carried' = carried + 1
          \/ Announce(who, p, "rejected") /\ UNCHANGED carried
       /\ UNCHANGED <<clock, poolVars>>
    \/ /\ p.family = "rewind" /\ clock = "RUNNING"
       /\ decided' = Closed(p, "none")
       /\ holder' = who /\ step' = "rewind" /\ Call_(Rewind)
       /\ UNCHANGED <<clock, carried, outbox, pool, made, broken, faults>>

Resolve(who, p, outcome) ==
    IF outcome = "applied" THEN CarryOut(who, p)
    ELSE Announce(who, p, outcome) /\ UNCHANGED <<clock, carried, poolVars>>

-----------------------------------------------------------------------------
(* Messages of players: _handle_override_message. *)

Propose(h, family) ==
    /\ Free /\ h \in online /\ family \in Families /\ ~ IsOpen
    /\ decided.id < MaxProposals
    /\ family # "reveal_player" => clock # "PAUSED"
    /\ family = "pause" => clock = "RUNNING"
    /\ LET p == [NoProposal EXCEPT !.id = decided.id + 1, !.family = family, !.by = h,
                                   !.voters = online, !.yes = {h}]
       IN  /\ waiting' = online
           /\ IF Outcome(p) = "applied"
              THEN /\ Resolve(h, p, "applied") /\ UNCHANGED proposal
                   /\ expiry' = [expiry EXCEPT ![p.id] = "cancelled"]
              ELSE /\ proposal' = p
                   /\ expiry' = [expiry EXCEPT ![p.id] = "asleep"]
                   /\ decided' = [NoProposal EXCEPT !.id = p.id]
                   /\ UNCHANGED <<clock, holder, step, outbox, carried, poolVars>>
    /\ UNCHANGED online

Vote(h, approve) ==
    /\ Free /\ h \in online /\ IsOpen /\ h \in proposal.voters
    /\ LET p == Voted(proposal, h, approve)
       IN  IF Outcome(p) = "none"
           THEN /\ proposal' = p
                /\ UNCHANGED <<clock, expiry, holder, step, decided, outbox, carried,
                               poolVars>>
           ELSE /\ proposal' = NoProposal /\ expiry' = Cancelled(expiry, p.id)
                /\ Resolve(h, p, Outcome(p))
    /\ UNCHANGED <<online, waiting>>

Cancel(h) ==
    /\ Free /\ h \in online /\ IsOpen /\ h = proposal.by
    /\ proposal' = NoProposal /\ expiry' = Cancelled(expiry, proposal.id)
    /\ Resolve(h, proposal, "cancelled")
    /\ UNCHANGED <<online, waiting>>

-----------------------------------------------------------------------------
(* The expiry task: _expire_override. *)

\* Mutant: only while the match runs.
MutExpire(id) ==
    /\ expiry[id] = "asleep" /\ Free /\ clock = "RUNNING"
    /\ expiry' = [expiry EXCEPT ![id] = "over"]
    /\ IF proposal.id = id
       THEN proposal' = NoProposal /\ Resolve(Timer, proposal, "expired")
       ELSE UNCHANGED <<clock, proposal, holder, step, decided, outbox, carried, poolVars>>
    /\ UNCHANGED <<online, waiting>>

\* The timer has slept long enough and gets the locks.  Resolving cancels the timer of the proposal,
\* which is the running task itself.
Expire(id) ==
    /\ expiry[id] = "asleep" /\ Free
    /\ expiry' = [expiry EXCEPT ![id] = "over"]
    /\ IF proposal.id = id
       THEN proposal' = NoProposal /\ Resolve(Timer, proposal, "expired")
       ELSE UNCHANGED <<clock, proposal, holder, step, decided, outbox, carried, poolVars>>
    /\ UNCHANGED <<online, waiting>>

-----------------------------------------------------------------------------
(* What the holder of the locks awaits. *)

\* The rewind is computed: its session replaces the table's, or the error
\* rejects the proposal; an error nobody expects leaves the handler.
Rewound ==
    /\ step = "rewind" /\ call[Rewind].pc = "idle"
    /\ call' = [call EXCEPT ![Rewind] = NoCall]
    /\ IF call[Rewind].result = "runtime"
       THEN Raise(decided) /\ UNCHANGED carried
       ELSE IF call[Rewind].result = "ok"
            THEN Announce(holder, decided, "applied") /\ carried' = carried + 1
            ELSE Announce(holder, decided, "rejected") /\ UNCHANGED carried
    /\ UNCHANGED <<online, clock, proposal, expiry, waiting, pool, made, broken, faults>>

Released ==
    /\ step = "send" /\ step' = "none"
    /\ holder' = Nobody /\ outbox' = {}
    /\ UNCHANGED <<online, clock, proposal, expiry, decided, carried, poolVars>>

\* _send_captured_broadcast sends the captured messages one after the other.
Send == Released /\ waiting' = waiting \ outbox

\* The timer was cancelled by its own resolution: it ends where a send waits.
Cut == holder = Timer /\ Released /\ \E S \in SUBSET outbox : waiting' = waiting \ S

-----------------------------------------------------------------------------
(* The rest of the server. *)

Connect(h) ==
    /\ Free /\ h \notin online /\ online' = online \cup {h}
    /\ UNCHANGED <<clock, proposal, expiry, holder, step, decided, outbox, waiting,
                   carried, poolVars>>

Disconnect(h) ==
    /\ h \in online \cap Flaky /\ h # holder
    /\ online' = online \ {h} /\ waiting' = waiting \ {h}
    /\ UNCHANGED <<clock, proposal, expiry, holder, step, decided, outbox, carried,
                   poolVars>>

\* A match is suspended when no player acts for a while, never while a proposal
\* is open; ready players resume a held one.
Suspend ==
    /\ Free /\ ~ IsOpen /\ clock = "RUNNING" /\ clock' = "SUSPENDED"
    /\ UNCHANGED <<online, proposal, expiry, holder, step, decided, outbox, waiting,
                   carried, poolVars>>

AllReady ==
    /\ Free /\ clock # "RUNNING" /\ clock' = "RUNNING"
    /\ UNCHANGED <<online, proposal, expiry, holder, step, decided, outbox, waiting,
                   carried, poolVars>>

Others == \E c \in Callers \ {Rewind} :
            /\ call[c].pc = "idle" /\ call[c].result = "none" /\ Call_(c)
            /\ UNCHANGED <<pool, made, broken, faults, tableVars>>

-----------------------------------------------------------------------------

Init ==
    /\ PoolInit
    /\ online = Players \ Flaky /\ clock = "RUNNING"
    /\ proposal = NoProposal /\ decided = NoProposal
    /\ expiry = [id \in Ids |-> "none"]
    /\ holder = Nobody /\ step = "none"
    /\ outbox = {} /\ waiting = {} /\ carried = 0

Messages == \E h \in Players :
    \/ \E f \in Families : Propose(h, f)
    \/ \E b \in BOOLEAN : Vote(h, b)
    \/ Cancel(h)

Awaited == Rewound \/ Send

Next ==
    \/ Messages \/ Awaited \/ Cut \/ Others \/ Suspend \/ AllReady
    \/ \E id \in Ids : Expire(id)
    \/ \E h \in Players : Connect(h) \/ Disconnect(h)
    \/ PoolNext /\ UNCHANGED tableVars

Spec == Init /\ [][Next]_vars

\* Time passes for every timer, the locks are first come, first served, sends
\* end, and worker processes work.
Fairness ==
    /\ \A id \in Ids : SF_vars(Expire(id))
    /\ WF_vars(Awaited)
    /\ \A c \in Callers : WF_vars(PoolStep(c) /\ UNCHANGED tableVars)

FairSpec == Spec /\ Fairness

-----------------------------------------------------------------------------
(* Properties. *)

TypeOK ==
    /\ PoolTypeOK
    /\ online \subseteq Players /\ waiting \subseteq online
    /\ clock \in {"RUNNING", "PAUSED", "SUSPENDED"}
    /\ proposal \in Proposal /\ decided \in Proposal
    /\ proposal.yes \cap proposal.no = {} /\ proposal.yes \cup proposal.no \subseteq proposal.voters
    /\ expiry \in [Ids -> {"none", "asleep", "over", "cancelled"}]
    /\ holder \in Players \cup {Nobody, Timer}
    /\ step \in {"none", "rewind", "send"}
    /\ outbox \subseteq Players
    /\ carried \in 0 .. MaxProposals

\* The ballot a table believes it holds: the proposal that is open, or is being
\* carried out, or was decided last.
Deciding == step = "rewind"
Shown == IF IsOpen THEN proposal ELSE decided

B == INSTANCE Ballot WITH
        state   <- IF IsOpen \/ Deciding THEN "open" ELSE decided.outcome,
        voters  <- Shown.voters, ayes <- Shown.yes, nays <- Shown.no

\* Every behaviour of the handlers, timers and workers is one of a ballot that
\* is decided once, by more than half, and carried out exactly then.
IsBallot == B!BallotSpec

\* A timer lives exactly as long as its proposal is open.
TimerPerProposal ==
    \A id \in Ids : expiry[id] = "asleep" <=> proposal.id = id

\* Whoever has been at the table since a proposal was made learns its outcome,
\* unless the handler raised or its timer resolved it.
ToldUnlessLost ==
    Free /\ ~ IsOpen /\ decided.outcome \notin {"none", "dropped", "expired"} =>
        waiting = {}

\* Every proposal is resolved, whoever leaves, and the locks come back.
ProposalsEnd == \A id \in Ids : (proposal.id = id) ~> (Free /\ proposal.id # id)
=============================================================================
