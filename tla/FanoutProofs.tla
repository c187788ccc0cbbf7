----------------------------- MODULE FanoutProofs -----------------------------
(***************************************************************************)
(* For any tokens, sockets and background tasks: no client is shown the    *)
(* match going back, one that is behind was told nothing of the last       *)
(* change, and no live socket is lost to the broadcasts.                   *)
(***************************************************************************)
EXTENDS Fanout, TLAPS

SocketPoints == {"new", "dialled", "greeting", "receiving", "decision", "vote", "view",
                 "refused", "denied", "replying", "telling", "sending", "gone"}

\* Where a task holds outbound_lock, and where it has messages to send.
Holding == {"greeting", "replying", "telling", "sending"}
Telling == {"greeting", "telling", "sending"}

PointsOK ==
    /\ pc \in [Tasks -> SocketPoints \cup {"idle"}]
    /\ \A s \in Sockets : pc[s] \in SocketPoints
    /\ \A w \in Workers : pc[w] \in {"idle", "sending"}

TypeOK ==
    /\ version \in Nat /\ untold \in Nat
    /\ open \subseteq Sockets /\ watching \subseteq Sockets
    /\ seen \in [Sockets -> Nat] /\ conn \in [Tokens -> Sockets \cup {Nobody}]
    /\ PointsOK
    /\ lock \in Tasks \cup {Nobody}
    /\ batch \in [Tasks -> [at : Nat, left : SUBSET Sockets, dead : SUBSET Sockets]]

\* Whoever is about to send, and only they, hold the lock.
LockFits == \A p \in Tasks : lock = p <=> pc[p] \in Holding

\* Nobody was sent, nothing captured and nothing lost is newer than the match;
\* nobody has seen more than what is being sent.
ViewsFit ==
    /\ untold <= version
    /\ \A s \in Sockets : seen[s] <= version
    /\ \A p \in Tasks : /\ batch[p].at <= version
                        /\ pc[p] \in Telling => \A s \in Sockets : seen[s] <= batch[p].at

\* A socket stands under its own token, from its registration on; only players
\* decide.
EntriesFit ==
    /\ \A t \in Tokens : conn[t] # Nobody => TokenOf[conn[t]] = t
    /\ \A s \in watching : TokenOf[s] = Spectator
    /\ \A s \in Registered : pc[s] \notin {"new", "dialled"}
    /\ \A s \in open : pc[s] # "new"
    /\ \A s \in Sockets : pc[s] \in {"decision", "replying", "telling"} => IsPlayer(s)

\* A send fails only over a socket that is gone for good.
DeadFit ==
    \A p \in Tasks : /\ \A s \in batch[p].left \cup batch[p].dead : pc[s] # "new"
                     /\ batch[p].dead \cap open = {}

\* A refused message still has to send what the timeouts before it changed.
Pending == \E r \in Sockets : pc[r] = "refused" /\ batch[r].at = version

\* Everyone connected, but for some, was sent the match as it is.
UpToDate(but) == \A s \in (Registered \cap open) \ but : seen[s] = version

Behind(but) == UpToDate(but) \/ untold = version \/ Pending

\* What is still to be sent makes up for what a socket is behind.
SendingFits ==
    /\ lock = Nobody => Behind({})
    /\ \A s \in Sockets :
         /\ pc[s] = "greeting" => batch[s].at = version /\ Behind({s})
         /\ pc[s] = "telling" =>
              /\ batch[s].at = version
              /\ conn[TokenOf[s]] \in open => conn[TokenOf[s]] \in batch[s].left
                                              \/ seen[conn[TokenOf[s]]] = version
    /\ \A p \in Tasks : pc[p] = "sending" =>
         \/ untold = version
         \/ batch[p].at = version /\ UpToDate(batch[p].left)

IInv == TypeOK /\ LockFits /\ ViewsFit /\ EntriesFit /\ DeadFit /\ SendingFits
         /\ LiveSocketIsKept

-----------------------------------------------------------------------------
(* The entries of the sockets. *)

\* Who is forgotten is no longer found, and nobody else.
LEMMA ForgetExactly ==
    ASSUME TypeOK, EntriesFit, NEW D \in SUBSET Sockets, Forget(D)
    PROVE  /\ conn' \in [Tokens -> Sockets \cup {Nobody}] /\ watching' \subseteq Sockets
           /\ \A t \in Tokens : conn'[t] \in {conn[t], Nobody}
           /\ \A t \in Tokens : conn'[t] # Nobody => conn'[t] \notin D
           /\ watching' \subseteq watching
           /\ Registered' = Registered \ D
<1>1. /\ conn' \in [Tokens -> Sockets \cup {Nobody}] /\ watching' \subseteq Sockets
      /\ \A t \in Tokens : conn'[t] \in {conn[t], Nobody}
      /\ watching' = watching \ D
  BY DEF Forget, TypeOK
<1>2. ASSUME NEW t \in Tokens, conn'[t] # Nobody PROVE conn'[t] \notin D
  BY <1>1, <1>2 DEF Forget, EntriesFit, IsStill
<1>3. ASSUME NEW t \in Tokens, conn[t] # Nobody, conn[t] \notin D PROVE conn'[t] = conn[t]
  BY <1>3 DEF Forget, IsStill
<1>4. Players' = Players \ D
  BY <1>1, <1>2, <1>3 DEF Players
<1>. QED BY <1>1, <1>2, <1>4 DEF Registered

\* A new socket of a player takes the place of another, which is closed.
LEMMA RegisterAdds ==
    ASSUME IInv, NEW s \in Sockets, Register(s)
    PROVE  /\ conn' \in [Tokens -> Sockets \cup {Nobody}] /\ watching' \subseteq Sockets
           /\ open' \subseteq open /\ (s \in open => s \in open')
           /\ s \in Registered' /\ Registered' \subseteq Registered \cup {s}
           /\ Registered \cap open' \subseteq Registered'
           /\ \A t \in Tokens : conn'[t] # conn[t] => conn'[t] = s /\ TokenOf[s] = t
           /\ watching' # watching => watching' = watching \cup {s} /\ TokenOf[s] = Spectator
<1>. USE DEF IInv
<1>1. s \notin Registered
  BY DEF EntriesFit, Register
<1>2. CASE IsPlayer(s)
  <2>1. /\ conn' = [conn EXCEPT ![TokenOf[s]] = s] /\ watching' = watching
        /\ open' = open \ {conn[TokenOf[s]]} /\ TokenOf[s] \in Tokens
    BY <1>2 DEF Register, IsPlayer
  <2>2. conn' \in [Tokens -> Sockets \cup {Nobody}] /\ conn'[TokenOf[s]] = s
    BY <2>1 DEF TypeOK
  <2>3. s # Nobody /\ s \in Players'
    BY <2>1, <2>2, FanoutAssumption DEF Players
  <2>4. Players' \subseteq Players \cup {s} /\ Players \ {conn[TokenOf[s]]} \subseteq Players'
    BY <2>1, <2>2 DEF Players, TypeOK
  <2>5. s \in open => s \in open'
    BY <1>1, <2>1, <2>3 DEF Registered, Players
  <2>. QED BY <2>1, <2>2, <2>3, <2>4, <2>5 DEF TypeOK, Registered
<1>3. CASE ~ IsPlayer(s)
  <2>1. conn' = conn /\ open' = open /\ watching' = watching \cup {s} /\ TokenOf[s] = Spectator
    BY <1>3, FanoutAssumption DEF Register, IsPlayer
  <2>2. Players' = Players
    BY <2>1 DEF Players
  <2>. QED BY <2>1, <2>2 DEF TypeOK, Registered
<1>. QED BY <1>2, <1>3

-----------------------------------------------------------------------------
(* The invariant, part by part. *)

LEMMA Initially == Init => IInv
<1>. SUFFICES ASSUME Init PROVE IInv
  OBVIOUS
<1>1. TypeOK
  <2>1. PointsOK
    BY FanoutAssumption DEF Init, PointsOK, Tasks, SocketPoints
  <2>2. batch \in [Tasks -> [at : Nat, left : SUBSET Sockets, dead : SUBSET Sockets]]
    BY DEF Init, NoSend
  <2>. QED BY <2>1, <2>2 DEF Init, TypeOK
<1>2. Players = {} /\ Registered = {}
  BY DEF Init, Players, Registered
<1>3. \A p \in Tasks : pc[p] \in {"new", "idle"} /\ batch[p] = NoSend
  BY DEF Init
<1>4. LockFits
  BY <1>3, FanoutAssumption DEF Init, LockFits, Holding, Tasks
<1>5. ViewsFit
  BY <1>3 DEF Init, ViewsFit, NoSend, Telling, Tasks
<1>6. EntriesFit
  BY <1>2, <1>3 DEF Init, EntriesFit, Tasks
<1>7. DeadFit
  BY <1>3 DEF DeadFit, NoSend
<1>8. SendingFits /\ LiveSocketIsKept
  BY <1>2, <1>3 DEF Init, SendingFits, LiveSocketIsKept, Behind, UpToDate, Tasks
<1>. QED BY <1>1, <1>4, <1>5, <1>6, <1>7, <1>8 DEF IInv

\* Points and messages keep their types.
LEMMA SocketGoes ==
    ASSUME TypeOK, NEW s \in Sockets, NEW point \in SocketPoints, Goto(s, point)
    PROVE  /\ PointsOK' /\ pc'[s] = point
           /\ \A p \in Tasks \ {s} : pc'[p] = pc[p]
BY FanoutAssumption DEF TypeOK, PointsOK, Goto, Tasks

LEMMA WorkerGoes ==
    ASSUME TypeOK, NEW w \in Workers, NEW point \in {"idle", "sending"}, Goto(w, point)
    PROVE  /\ PointsOK' /\ pc'[w] = point
           /\ \A p \in Tasks \ {w} : pc'[p] = pc[p]
BY FanoutAssumption DEF TypeOK, PointsOK, Goto, Tasks, SocketPoints

BatchOK == batch \in [Tasks -> [at : Nat, left : SUBSET Sockets, dead : SUBSET Sockets]]

LEMMA CaptureKeeps ==
    ASSUME TypeOK, NEW p \in Tasks, NEW S \in SUBSET Sockets, Capture(p, S), version' \in Nat
    PROVE  /\ BatchOK' /\ batch'[p] = [at |-> version', left |-> S, dead |-> {}]
           /\ \A q \in Tasks \ {p} : batch'[q] = batch[q]
BY DEF TypeOK, BatchOK, Capture, Captured

LEMMA NoSendKeeps ==
    ASSUME TypeOK, NEW p \in Tasks, batch' = [batch EXCEPT ![p] = NoSend]
    PROVE  /\ BatchOK' /\ batch'[p] = [at |-> 0, left |-> {}, dead |-> {}]
           /\ \A q \in Tasks \ {p} : batch'[q] = batch[q]
BY DEF TypeOK, BatchOK, NoSend

\* Those a change is sent to are sockets.
LEMMA Receivers ==
    ASSUME TypeOK
    PROVE  /\ open \cup Registered \subseteq Sockets /\ Players \cup watching \subseteq Sockets
           /\ \A s \in Sockets : /\ Others(s) \subseteq Sockets
                                 /\ IsPlayer(s) => {conn[TokenOf[s]]} \ {Nobody} \subseteq Sockets
BY DEF TypeOK, Players, Registered, Others, IsPlayer


-----------------------------------------------------------------------------
(* Every step keeps the invariant. *)

\* A socket dials, drops or sends a message.
LEMMA NetworkKeeps ==
    ASSUME IInv, NEW s \in Sockets, Dial(s) \/ Drop(s) \/ Receive(s)
    PROVE  IInv'
<1>. USE DEF IInv
<1>1. /\ UNCHANGED <<version, seen, conn, watching, lock, batch, untold>>
      /\ Players' = Players /\ Registered' = Registered
  BY DEF Dial, Drop, Receive, Players, Registered
<1>2. /\ PointsOK' /\ open' \subseteq Sockets
      /\ \A p \in Tasks \ {s} : pc'[p] = pc[p]
      /\ \/ pc'[s] = pc[s] /\ open' \subseteq open
         \/ pc[s] = "new" /\ pc'[s] = "dialled" /\ open' = open \cup {s}
         \/ pc[s] = "receiving" /\ open' = open /\ pc'[s] \in {"decision", "vote", "view"}
            /\ (pc'[s] = "decision" => IsPlayer(s))
  <2>1. CASE Dial(s)
    BY <2>1, SocketGoes DEF Dial, SocketPoints, TypeOK
  <2>2. CASE Drop(s)
    BY <2>2 DEF Drop, TypeOK, PointsOK, Tasks
  <2>3. CASE Receive(s)
    BY <2>3, SocketGoes DEF Receive, SocketPoints, TypeOK
  <2>. QED BY <2>1, <2>2, <2>3
<1>3. TypeOK'
  BY <1>1, <1>2 DEF TypeOK
<1>4. LockFits' /\ ViewsFit'
  BY <1>1, <1>2 DEF LockFits, ViewsFit, Holding, Telling, Tasks
<1>5. EntriesFit'
  BY <1>1, <1>2, Receivers DEF EntriesFit, Tasks, IsPlayer
<1>6. DeadFit'
  BY <1>1, <1>2, Receivers DEF DeadFit, Tasks, TypeOK
<1>7. Registered' \cap open' \subseteq Registered \cap open
  BY <1>1, <1>2 DEF EntriesFit
<1>8. Pending => Pending'
  BY <1>1, <1>2 DEF Pending, Tasks
<1>9. \A but : UpToDate(but) => UpToDate(but)'
  BY <1>1, <1>7 DEF UpToDate
<1>10. SendingFits'
  <2>1. \A but : Behind(but) => Behind(but)'
    BY <1>1, <1>8, <1>9 DEF Behind
  <2>2. \A x \in Sockets : pc'[x] \in {"greeting", "telling"} => pc'[x] = pc[x]
    BY <1>2 DEF Tasks
  <2>3. \A p \in Tasks : pc'[p] = "sending" => pc'[p] = pc[p]
    BY <1>2
  <2>4. \A x \in Sockets : pc'[x] = "telling" /\ conn[TokenOf[x]] \in open'
                          => conn[TokenOf[x]] \in open
    <3>1. \A x \in Sockets : pc'[x] = "telling" => conn[TokenOf[x]] # s \/ pc[s] # "new"
      BY <1>2, <2>2, FanoutAssumption DEF EntriesFit, Registered, Players, IsPlayer
    <3>. QED BY <1>2, <3>1
  <2>. QED BY <1>1, <1>9, <2>1, <2>2, <2>3, <2>4 DEF SendingFits
<1>11. LiveSocketIsKept'
  BY <1>1, <1>2 DEF LiveSocketIsKept, Tasks
<1>. QED BY <1>3, <1>4, <1>5, <1>6, <1>10, <1>11

LEMMA HangUpKeeps ==
    ASSUME IInv, NEW s \in Sockets, HangUp(s)
    PROVE  IInv'
<1>. USE DEF IInv
<1>1. /\ UNCHANGED <<version, open, seen, lock, batch, untold>>
      /\ pc[s] = "receiving" /\ s \notin open /\ s \in Tasks
  BY DEF HangUp, Tasks
<1>2. /\ PointsOK' /\ pc'[s] = "gone" /\ \A p \in Tasks \ {s} : pc'[p] = pc[p]
      /\ Registered' = Registered \ {s}
      /\ conn' \in [Tokens -> Sockets \cup {Nobody}] /\ watching' \subseteq watching
      /\ \A t \in Tokens : conn'[t] \in {conn[t], Nobody}
  BY SocketGoes, ForgetExactly DEF HangUp, HandlerEnds, SocketPoints
<1>3. TypeOK'
  BY <1>1, <1>2 DEF TypeOK
<1>4. LockFits' /\ ViewsFit'
  BY <1>1, <1>2 DEF LockFits, ViewsFit, Holding, Telling, Tasks
<1>5. EntriesFit'
  BY <1>1, <1>2, Receivers DEF EntriesFit, Tasks, IsPlayer
<1>6. DeadFit'
  BY <1>1, <1>2 DEF DeadFit, Tasks, TypeOK
<1>7. /\ Pending => Pending'
      /\ \A but : UpToDate(but) => UpToDate(but)'
  BY <1>1, <1>2 DEF Pending, UpToDate, Tasks
<1>8. SendingFits'
  <2>1. \A but : Behind(but) => Behind(but)'
    BY <1>1, <1>7 DEF Behind
  <2>2. \A x \in Sockets : pc'[x] = "telling" /\ conn'[TokenOf[x]] \in open
                          => conn'[TokenOf[x]] = conn[TokenOf[x]]
    BY <1>1, <1>2, FanoutAssumption DEF EntriesFit, IsPlayer, TypeOK, Tasks
  <2>. QED BY <1>1, <1>2, <1>7, <2>1, <2>2 DEF SendingFits, Tasks
<1>9. LiveSocketIsKept'
  BY <1>1, <1>2, Receivers DEF LiveSocketIsKept, Tasks
<1>. QED BY <1>3, <1>4, <1>5, <1>6, <1>8, <1>9

LEMMA RegisterKeeps ==
    ASSUME IInv, NEW s \in Sockets, Register(s)
    PROVE  IInv'
<1>. USE DEF IInv
<1>1. /\ UNCHANGED <<version, seen, untold>> /\ lock = Nobody /\ lock' = s
      /\ pc[s] = "dialled" /\ s \in Tasks /\ s # Nobody
  BY FanoutAssumption DEF Register, Free, Takes, Tasks
<1>2. PointsOK' /\ pc'[s] = "greeting" /\ \A p \in Tasks \ {s} : pc'[p] = pc[p]
  BY SocketGoes DEF Register, SocketPoints
<1>3. /\ BatchOK' /\ batch'[s] = [at |-> version, left |-> {s}, dead |-> {}]
      /\ \A p \in Tasks \ {s} : batch'[p] = batch[p]
  BY <1>1, CaptureKeeps DEF Register, TypeOK
<1>4. /\ conn' \in [Tokens -> Sockets \cup {Nobody}] /\ watching' \subseteq Sockets
      /\ open' \subseteq open /\ (s \in open => s \in open')
      /\ s \in Registered' /\ Registered' \subseteq Registered \cup {s}
      /\ Registered \cap open' \subseteq Registered'
      /\ \A t \in Tokens : conn'[t] # conn[t] => conn'[t] = s /\ TokenOf[s] = t
      /\ watching' # watching => watching' = watching \cup {s} /\ TokenOf[s] = Spectator
  BY RegisterAdds
<1>5. TypeOK'
  BY <1>1, <1>2, <1>3, <1>4 DEF TypeOK, BatchOK
<1>6. LockFits'
  BY <1>1, <1>2, FanoutAssumption DEF LockFits, Holding, Tasks
<1>7. \A p \in Tasks : pc[p] \notin Holding
  BY <1>1, FanoutAssumption DEF LockFits, Tasks
<1>8. ViewsFit'
  BY <1>1, <1>2, <1>3, <1>7 DEF ViewsFit, Holding, Telling, Tasks, TypeOK
<1>9. EntriesFit'
  BY <1>1, <1>2, <1>4, Receivers DEF EntriesFit, Tasks, IsPlayer
<1>10. DeadFit'
  BY <1>1, <1>2, <1>3, <1>4 DEF DeadFit, Tasks, TypeOK
<1>11. SendingFits'
  <2>1. Behind({}) /\ pc[s] # "refused"
    BY <1>1 DEF SendingFits
  <2>2. UpToDate({}) => UpToDate({s})'
    BY <1>1, <1>4 DEF UpToDate
  <2>3. Pending => Pending'
    BY <1>1, <1>2, <1>3 DEF Pending, Tasks
  <2>4. Behind({s})'
    BY <1>1, <2>1, <2>2, <2>3 DEF Behind
  <2>. QED BY <1>1, <1>2, <1>3, <1>7, <2>4 DEF SendingFits, Holding, Tasks
<1>12. LiveSocketIsKept'
  BY <1>1, <1>2, <1>4, Receivers DEF LiveSocketIsKept, Tasks
<1>. QED BY <1>5, <1>6, <1>8, <1>9, <1>10, <1>11, <1>12

\* A task that holds the lock, or takes it for this step only, leaves it free
\* and nothing to send.
LEMMA QuietKeeps ==
    ASSUME IInv, NEW p \in Tasks, NEW D \in SUBSET Sockets,
           lock \in {Nobody, p}, lock' = Nobody,
           version' \in Nat, version <= version', untold' \in Nat, untold' <= version',
           open' = open, D \cap open = {},
           seen' \in [Sockets -> Nat], \A s \in Sockets : seen'[s] <= version',
           PointsOK', \A q \in Tasks \ {p} : pc'[q] = pc[q],
           pc[p] \notin {"new", "dialled"},
           pc'[p] \notin Holding \cup {"new", "dialled", "decision"},
           pc[p] = "gone" => pc'[p] = "gone", pc'[p] = "gone" => p \notin open,
           BatchOK', \A q \in Tasks \ {p} : batch'[q] = batch[q],
           batch'[p].left \subseteq batch[p].left, batch'[p].dead \subseteq batch[p].dead,
           batch'[p].at <= version',
           conn' \in [Tokens -> Sockets \cup {Nobody}], watching' \subseteq watching,
           \A t \in Tokens : conn'[t] \in {conn[t], Nobody},
           Registered' = Registered \ D,
           Behind({})'
    PROVE  IInv'
<1>. USE DEF IInv
<1>1. \A q \in Tasks \ {p} : pc[q] \notin Holding
  BY FanoutAssumption DEF LockFits, Tasks
<1>2. TypeOK'
  BY DEF TypeOK, BatchOK
<1>3. LockFits'
  BY <1>1, FanoutAssumption DEF LockFits, Tasks
<1>4. ViewsFit'
  <2>1. \A q \in Tasks : batch'[q].at <= version'
    BY DEF ViewsFit, TypeOK
  <2>. QED BY <1>1, <2>1 DEF ViewsFit, Holding, Telling
<1>5. EntriesFit'
  BY Receivers DEF EntriesFit, Tasks, Holding, IsPlayer
<1>6. DeadFit'
  BY DEF DeadFit, Tasks, TypeOK
<1>7. SendingFits'
  BY <1>1 DEF SendingFits, Holding, Tasks
<1>8. LiveSocketIsKept'
  BY Receivers DEF LiveSocketIsKept, Tasks
<1>. QED BY <1>2, <1>3, <1>4, <1>5, <1>6, <1>7, <1>8

\* A task takes the lock and sends everyone what it captured; what it does not
\* show of the change is lost.
LEMMA BroadcastKeeps ==
    ASSUME IInv, NEW p \in Tasks, NEW at \in Nat, Free, lock' = p,
           version' \in Nat, version <= at, at <= version',
           untold' \in Nat, untold' <= version', at = version' \/ untold' = version',
           UNCHANGED <<open, seen, conn, watching>>,
           PointsOK', pc'[p] = "sending", \A q \in Tasks \ {p} : pc'[q] = pc[q],
           pc[p] \notin {"new", "dialled", "gone"},
           BatchOK', batch'[p] = [at |-> at, left |-> Players \cup watching, dead |-> {}],
           \A q \in Tasks \ {p} : batch'[q] = batch[q]
    PROVE  IInv'
<1>. USE DEF IInv
<1>1. \A q \in Tasks : pc[q] \notin Holding
  BY FanoutAssumption DEF LockFits, Tasks, Free
<1>2. Players' = Players /\ Registered' = Registered /\ Registered = Players \cup watching
  BY DEF Players, Registered
<1>3. TypeOK'
  BY DEF TypeOK, BatchOK
<1>4. LockFits'
  BY <1>1, FanoutAssumption DEF LockFits, Holding, Tasks
<1>5. ViewsFit'
  <2>1. \A q \in Tasks : batch'[q].at <= version'
    BY DEF ViewsFit, TypeOK
  <2>2. \A s \in Sockets : seen'[s] <= at /\ seen'[s] <= version'
    BY DEF ViewsFit, TypeOK
  <2>. QED BY <1>1, <2>1, <2>2 DEF ViewsFit, Holding, Telling
<1>6. EntriesFit'
  BY <1>2, Receivers DEF EntriesFit, Tasks, IsPlayer
<1>7. DeadFit'
  BY <1>2, Receivers DEF DeadFit, EntriesFit, Tasks, TypeOK
<1>8. SendingFits'
  <2>1. UpToDate(Players \cup watching)'
    BY <1>2 DEF UpToDate
  <2>2. untold' = version' \/ (batch'[p].at = version' /\ UpToDate(batch[p].left)')
    BY <1>2, <2>1 DEF UpToDate
  <2>. QED BY <1>1, <2>2, FanoutAssumption DEF SendingFits, Holding, Tasks
<1>9. LiveSocketIsKept'
  BY <1>2, Receivers DEF LiveSocketIsKept, Tasks
<1>. QED BY <1>3, <1>4, <1>5, <1>6, <1>7, <1>8, <1>9

LEMMA GreetKeeps ==
    ASSUME IInv, NEW s \in Sockets, Greet(s)
    PROVE  IInv'
<1>. USE DEF IInv
<1>1. /\ UNCHANGED <<version, open, conn, watching, untold>> /\ lock' = Nobody
      /\ pc[s] = "greeting" /\ s \in Tasks /\ lock = s
  BY DEF Greet, Release, Tasks, LockFits, Holding
<1>2. /\ PointsOK' /\ \A p \in Tasks \ {s} : pc'[p] = pc[p]
      /\ pc'[s] = IF s \in open THEN "receiving" ELSE "gone"
  BY SocketGoes DEF Greet, SocketPoints
<1>3. /\ BatchOK' /\ batch'[s] = [at |-> 0, left |-> {}, dead |-> {}]
      /\ \A p \in Tasks \ {s} : batch'[p] = batch[p]
  BY <1>1, NoSendKeeps DEF Greet
<1>4. /\ seen' \in [Sockets -> Nat] /\ \A x \in Sockets \ {s} : seen'[x] = seen[x]
      /\ s \in open => seen'[s] = version
      /\ s \notin open => seen' = seen
  BY <1>1 DEF Greet, TypeOK, SendingFits
<1>5. Players' = Players /\ Registered' = Registered
  BY <1>1 DEF Players, Registered
<1>6. Behind({})'
  <2>1. Behind({s})
    BY <1>1 DEF SendingFits
  <2>2. UpToDate({s}) => UpToDate({})'
    BY <1>1, <1>4, <1>5, Receivers DEF UpToDate
  <2>3. Pending => Pending'
    BY <1>1, <1>2, <1>3 DEF Pending, Tasks
  <2>. QED BY <1>1, <2>1, <2>2, <2>3 DEF Behind
<1>7. \A x \in Sockets : seen'[x] <= version
  BY <1>4 DEF ViewsFit, TypeOK
<1>8. /\ version' \in Nat /\ version <= version' /\ untold' \in Nat /\ untold' <= version'
      /\ conn' \in [Tokens -> Sockets \cup {Nobody}] /\ {} \in SUBSET Sockets
      /\ Registered' = Registered \ {}
      /\ pc'[s] \notin Holding \cup {"new", "dialled", "decision"}
  BY <1>1, <1>2, <1>5 DEF TypeOK, ViewsFit, Holding
<1>. HIDE DEF IInv
<1>. QED BY <1>1, <1>2, <1>3, <1>4, <1>6, <1>7, <1>8, QuietKeeps

LEMMA DecideKeeps ==
    ASSUME IInv, NEW s \in Sockets, Decide(s)
    PROVE  IInv'
<1>. USE DEF IInv
<1>1. /\ UNCHANGED <<open, seen, conn, watching, batch, untold>> /\ lock = Nobody /\ lock' = s
      /\ version' = version + 1 /\ version' \in Nat
      /\ pc[s] = "decision" /\ s \in Tasks
  BY DEF Decide, Free, Takes, Change, Tasks, TypeOK
<1>2. PointsOK' /\ pc'[s] = "replying" /\ \A p \in Tasks \ {s} : pc'[p] = pc[p]
  BY SocketGoes DEF Decide, SocketPoints
<1>3. \A p \in Tasks : pc[p] \notin Holding
  BY <1>1, FanoutAssumption DEF LockFits, Tasks
<1>4. Players' = Players /\ Registered' = Registered
  BY <1>1 DEF Players, Registered
<1>5. TypeOK'
  BY <1>1, <1>2 DEF TypeOK
<1>6. LockFits'
  BY <1>1, <1>2, <1>3, FanoutAssumption DEF LockFits, Holding, Tasks
<1>7. ViewsFit'
  BY <1>1, <1>2, <1>3 DEF ViewsFit, Holding, Telling, TypeOK
<1>8. EntriesFit'
  BY <1>1, <1>2, <1>4, Receivers DEF EntriesFit, Tasks, IsPlayer
<1>9. DeadFit'
  BY <1>1, <1>2 DEF DeadFit, Tasks, TypeOK
<1>10. SendingFits'
  BY <1>1, <1>2, <1>3, FanoutAssumption DEF SendingFits, Holding, Tasks
<1>11. LiveSocketIsKept'
  BY <1>1, <1>2, <1>4, Receivers DEF LiveSocketIsKept, Tasks
<1>. QED BY <1>5, <1>6, <1>7, <1>8, <1>9, <1>10, <1>11

LEMMA RefuseKeeps ==
    ASSUME IInv, NEW s \in Sockets, Refuse(s)
    PROVE  IInv'
<1>. USE DEF IInv
<1>1. /\ UNCHANGED <<open, seen, conn, watching, untold>> /\ lock = Nobody /\ lock' = Nobody
      /\ pc[s] = "decision" /\ s \in Tasks
  BY DEF Refuse, Free, Release, Tasks
<1>2. /\ version' \in Nat /\ version <= version'
      /\ untold' \in Nat /\ untold' <= version' /\ seen' \in [Sockets -> Nat]
      /\ \A x \in Sockets : seen'[x] <= version'
      /\ conn' \in [Tokens -> Sockets \cup {Nobody}] /\ {} \in SUBSET Sockets
  BY <1>1 DEF Refuse, Change, TypeOK, ViewsFit
<1>3. Players' = Players /\ Registered' = Registered \ {} /\ Registered' = Registered
  BY <1>1 DEF Players, Registered
<1>4. /\ PointsOK' /\ \A p \in Tasks \ {s} : pc'[p] = pc[p]
      /\ pc'[s] \in {"refused", "denied"}
  BY SocketGoes DEF Refuse, SocketPoints
<1>5. /\ BatchOK' /\ \A p \in Tasks \ {s} : batch'[p] = batch[p]
      /\ batch'[s].left \subseteq batch[s].left /\ batch'[s].dead \subseteq batch[s].dead
      /\ batch'[s].at <= version'
      /\ Behind({})'
  <2>1. CASE Change /\ Goto(s, "refused") /\ Capture(s, {})
    <3>1. /\ BatchOK' /\ batch'[s] = [at |-> version', left |-> {}, dead |-> {}]
          /\ \A p \in Tasks \ {s} : batch'[p] = batch[p]
      BY <1>1, <1>2, <2>1, CaptureKeeps
    <3>2. pc'[s] = "refused"
      BY <2>1, SocketGoes DEF SocketPoints
    <3>3. Behind({})'
      BY <3>1, <3>2 DEF Behind, Pending
    <3>. QED BY <1>2, <3>1, <3>3
  <2>2. CASE UNCHANGED <<version, batch>> /\ Goto(s, "denied")
    <3>1. Behind({}) => Behind({})'
      BY <1>1, <1>3, <1>4, <2>2 DEF Behind, UpToDate, Pending, Tasks
    <3>. QED BY <1>1, <2>2, <3>1 DEF TypeOK, BatchOK, ViewsFit, SendingFits
  <2>. QED BY <2>1, <2>2 DEF Refuse
<1>6. pc'[s] \notin Holding \cup {"new", "dialled", "decision"} /\ pc'[s] # "gone"
  BY <1>4 DEF Holding
<1>. HIDE DEF IInv
<1>. QED BY <1>1, <1>2, <1>3, <1>4, <1>5, <1>6, QuietKeeps

\* A handler whose reply fails ends with its change untold.
LEMMA ReplyKeeps ==
    ASSUME IInv, NEW s \in Sockets, Reply(s)
    PROVE  IInv'
<1>. USE DEF IInv
<1>1. /\ UNCHANGED <<version, open, seen>> /\ pc[s] = "replying" /\ s \in Tasks /\ lock = s
      /\ IsPlayer(s) /\ \A p \in Tasks \ {s} : pc[p] \notin Holding
  BY FanoutAssumption DEF Reply, Tasks, LockFits, Holding, EntriesFit
<1>2. CASE s \in open
  <2>1. /\ UNCHANGED <<conn, watching, lock, untold>> /\ Capture(s, {conn[TokenOf[s]]} \ {Nobody})
        /\ Goto(s, "telling")
    BY <1>2 DEF Reply
  <2>2. PointsOK' /\ pc'[s] = "telling" /\ \A p \in Tasks \ {s} : pc'[p] = pc[p]
    BY <2>1, SocketGoes DEF SocketPoints
  <2>3. /\ BatchOK' /\ \A p \in Tasks \ {s} : batch'[p] = batch[p]
        /\ batch'[s] = [at |-> version, left |-> {conn[TokenOf[s]]} \ {Nobody}, dead |-> {}]
    BY <1>1, <2>1, Receivers, CaptureKeeps DEF TypeOK
  <2>4. Players' = Players /\ Registered' = Registered
    BY <2>1 DEF Players, Registered
  <2>5. TypeOK'
    BY <1>1, <2>1, <2>2, <2>3 DEF TypeOK, BatchOK
  <2>6. LockFits'
    BY <1>1, <2>1, <2>2 DEF LockFits, Holding, Tasks
  <2>7. ViewsFit'
    BY <1>1, <2>1, <2>2, <2>3 DEF ViewsFit, Holding, Telling, TypeOK
  <2>8. EntriesFit'
    BY <1>1, <2>1, <2>2, <2>4, Receivers DEF EntriesFit, Tasks, IsPlayer
  <2>9. DeadFit'
    <3>1. \A x \in {conn[TokenOf[s]]} \ {Nobody} : x \in Registered
      BY <1>1 DEF Registered, Players, IsPlayer
    <3>. QED BY <1>1, <2>2, <2>3, <3>1, Receivers DEF DeadFit, EntriesFit, Tasks, TypeOK
  <2>10. SendingFits'
    <3>1. conn[TokenOf[s]] \in open => conn[TokenOf[s]] \in batch'[s].left
      BY <2>3, FanoutAssumption DEF TypeOK
    <3>2. lock' # Nobody
      BY <1>1, <2>1, FanoutAssumption
    <3>. QED BY <1>1, <2>1, <2>2, <2>3, <3>1, <3>2, FanoutAssumption DEF SendingFits, Holding, Tasks
  <2>11. LiveSocketIsKept'
    BY <1>1, <2>2, <2>4, Receivers DEF LiveSocketIsKept, Tasks
  <2>. QED BY <2>5, <2>6, <2>7, <2>8, <2>9, <2>10, <2>11
<1>3. CASE s \notin open
  <2>1. /\ lock' = Nobody /\ untold' = version /\ batch' = batch /\ {s} \in SUBSET Sockets
        /\ Goto(s, "gone") /\ Forget({s}) /\ {s} \cap open = {}
    BY <1>1, <1>3 DEF Reply, HandlerEnds, Release, Silent
  <2>2. PointsOK' /\ pc'[s] = "gone" /\ \A p \in Tasks \ {s} : pc'[p] = pc[p]
    BY <2>1, SocketGoes DEF SocketPoints
  <2>3. /\ conn' \in [Tokens -> Sockets \cup {Nobody}] /\ watching' \subseteq watching
        /\ \A t \in Tokens : conn'[t] \in {conn[t], Nobody}
        /\ Registered' = Registered \ {s}
    BY <2>1, ForgetExactly
  <2>4. /\ version' \in Nat /\ version <= version' /\ untold' \in Nat /\ untold' <= version'
        /\ seen' \in [Sockets -> Nat] /\ \A x \in Sockets : seen'[x] <= version'
        /\ BatchOK' /\ batch'[s].at <= version' /\ Behind({})'
    BY <1>1, <2>1 DEF TypeOK, BatchOK, ViewsFit, Behind
  <2>5. pc'[s] \notin Holding \cup {"new", "dialled", "decision"}
    BY <2>2 DEF Holding
  <2>. HIDE DEF IInv
  <2>. QED BY <1>1, <1>3, <2>1, <2>2, <2>3, <2>4, <2>5, QuietKeeps
<1>. QED BY <1>2, <1>3

LEMMA SendKeeps ==
    ASSUME IInv, NEW p \in Tasks, NEW s \in Sockets, Send(p, s)
    PROVE  IInv'
<1>. USE DEF IInv
<1>1. /\ UNCHANGED <<version, open, conn, watching, pc, lock, untold>> /\ lock = p
      /\ pc[p] \in {"telling", "sending"} /\ s \in batch[p].left
      /\ \A q \in Tasks \ {p} : pc[q] \notin Holding
  BY FanoutAssumption DEF Send, LockFits, Holding
<1>2. /\ BatchOK' /\ \A q \in Tasks \ {p} : batch'[q] = batch[q]
      /\ batch'[p].at = batch[p].at /\ batch'[p].left = batch[p].left \ {s}
      /\ batch'[p].dead = IF s \in open THEN batch[p].dead ELSE batch[p].dead \cup {s}
  BY DEF Send, TypeOK, BatchOK
<1>3. /\ seen' \in [Sockets -> Nat] /\ \A x \in Sockets \ {s} : seen'[x] = seen[x]
      /\ s \in open => seen'[s] = batch[p].at
      /\ s \notin open => seen' = seen
  BY DEF Send, TypeOK
<1>4. Players' = Players /\ Registered' = Registered
  BY <1>1 DEF Players, Registered
<1>5. TypeOK'
  BY <1>1, <1>2, <1>3 DEF TypeOK, BatchOK, PointsOK
<1>6. LockFits' /\ EntriesFit' /\ LiveSocketIsKept'
  BY <1>1, <1>4 DEF LockFits, EntriesFit, LiveSocketIsKept, IsPlayer
<1>7. ViewsFit'
  BY <1>1, <1>2, <1>3 DEF ViewsFit, Holding, Telling, TypeOK
<1>8. DeadFit'
  BY <1>1, <1>2 DEF DeadFit
<1>9. SendingFits'
  <2>1. CASE pc[p] = "telling"
    BY <1>1, <1>2, <1>3, <2>1, FanoutAssumption DEF SendingFits, Holding, Tasks, TypeOK, PointsOK
  <2>2. CASE pc[p] = "sending"
    <3>1. batch[p].at = version /\ UpToDate(batch[p].left) => UpToDate(batch[p].left)'
      BY <1>1, <1>2, <1>3, <1>4, Receivers DEF UpToDate
    <3>. QED BY <1>1, <1>2, <2>2, <3>1, FanoutAssumption DEF SendingFits, Holding, Tasks
  <2>. QED BY <1>1, <2>1, <2>2
<1>. QED BY <1>5, <1>6, <1>7, <1>8, <1>9

LEMMA RemainingKeeps ==
    ASSUME IInv, NEW s \in Sockets, Remaining(s)
    PROVE  IInv'
<1>. USE DEF IInv
<1>. DEFINE D == batch[s].dead
<1>1. /\ UNCHANGED <<version, open, seen, lock, untold>> /\ pc[s] = "telling" /\ s \in Tasks
      /\ lock = s /\ batch[s].left = {} /\ batch[s].at = version
      /\ IsPlayer(s) /\ \A p \in Tasks \ {s} : pc[p] \notin Holding
  BY FanoutAssumption DEF Remaining, Told, Tasks, LockFits, Holding, EntriesFit, SendingFits
<1>2. D \in SUBSET Sockets /\ D \cap open = {}
  BY <1>1 DEF TypeOK, DeadFit
<1>3. PointsOK' /\ pc'[s] = "sending" /\ \A p \in Tasks \ {s} : pc'[p] = pc[p]
  BY SocketGoes DEF Remaining, SocketPoints
<1>4. /\ BatchOK' /\ \A p \in Tasks \ {s} : batch'[p] = batch[p]
      /\ batch'[s] = [at |-> version, left |-> Others(s), dead |-> {}]
  BY <1>1, Receivers, CaptureKeeps DEF Remaining, TypeOK
<1>5. /\ conn' \in [Tokens -> Sockets \cup {Nobody}] /\ watching' \subseteq watching
      /\ \A t \in Tokens : conn'[t] \in {conn[t], Nobody}
      /\ Registered' = Registered \ D
  BY <1>2, ForgetExactly DEF Remaining
<1>6. TypeOK'
  BY <1>1, <1>3, <1>4, <1>5 DEF TypeOK, BatchOK
<1>7. LockFits'
  BY <1>1, <1>3 DEF LockFits, Holding, Tasks
<1>8. ViewsFit'
  BY <1>1, <1>3, <1>4 DEF ViewsFit, Holding, Telling, TypeOK
<1>9. EntriesFit'
  BY <1>1, <1>3, <1>5, Receivers DEF EntriesFit, Tasks, IsPlayer
<1>10. DeadFit'
  <2>1. Others(s) \subseteq Registered
    BY DEF Others, Registered
  <2>. QED BY <1>1, <1>3, <1>4, <2>1, Receivers DEF DeadFit, EntriesFit, Tasks, TypeOK
<1>11. SendingFits'
  <2>1. conn[TokenOf[s]] \in open => seen[conn[TokenOf[s]]] = version
    BY <1>1 DEF SendingFits
  <2>2. Registered \subseteq Others(s) \cup {conn[TokenOf[s]]}
    BY DEF Others, Registered
  <2>3. \A x \in (Registered' \cap open') \ Others(s) : seen'[x] = version
    BY <1>1, <1>5, <2>1, <2>2
  <2>4. batch'[s].at = version' /\ UpToDate(batch[s].left)'
    BY <1>1, <1>4, <2>3 DEF UpToDate
  <2>5. lock' # Nobody
    BY <1>1, FanoutAssumption
  <2>. QED BY <1>1, <1>3, <1>4, <2>4, <2>5, FanoutAssumption DEF SendingFits, Holding, Tasks
<1>12. LiveSocketIsKept'
  BY <1>1, <1>2, <1>3, <1>5, Receivers DEF LiveSocketIsKept, Tasks
<1>. QED BY <1>6, <1>7, <1>8, <1>9, <1>10, <1>11, <1>12

LEMMA FinishKeeps ==
    ASSUME IInv, NEW p \in Tasks, Finish(p)
    PROVE  IInv'
<1>. USE DEF IInv
<1>. DEFINE D == batch[p].dead
<1>1. /\ UNCHANGED <<version, open, seen, untold>> /\ pc[p] = "sending" /\ lock = p
      /\ lock' = Nobody /\ batch[p].left = {}
  BY DEF Finish, Release, LockFits, Holding
<1>2. D \in SUBSET Sockets /\ D \cap open = {}
  BY DEF TypeOK, DeadFit
<1>3. PointsOK' /\ pc'[p] \in {"receiving", "idle"} /\ \A q \in Tasks \ {p} : pc'[q] = pc[q]
  <2>1. CASE p \in Sockets
    BY <2>1, SocketGoes DEF Finish, SocketPoints
  <2>2. CASE p \in Workers
    BY <2>2, WorkerGoes, FanoutAssumption DEF Finish
  <2>. QED BY <2>1, <2>2 DEF Tasks
<1>4. /\ BatchOK' /\ batch'[p] = [at |-> 0, left |-> {}, dead |-> {}]
      /\ \A q \in Tasks \ {p} : batch'[q] = batch[q]
  BY NoSendKeeps DEF Finish
<1>5. /\ conn' \in [Tokens -> Sockets \cup {Nobody}] /\ watching' \subseteq watching
      /\ \A t \in Tokens : conn'[t] \in {conn[t], Nobody}
      /\ Registered' = Registered \ D
  BY <1>2, ForgetExactly DEF Finish
<1>6. Behind({})'
  <2>1. untold = version \/ UpToDate({})
    BY <1>1 DEF SendingFits
  <2>. QED BY <1>1, <1>5, <2>1 DEF Behind, UpToDate
<1>7. /\ version' \in Nat /\ version <= version' /\ untold' \in Nat /\ untold' <= version'
      /\ seen' \in [Sockets -> Nat] /\ \A x \in Sockets : seen'[x] <= version'
      /\ pc'[p] \notin Holding \cup {"new", "dialled", "decision"} /\ pc'[p] # "gone"
      /\ pc[p] \notin {"new", "dialled", "gone"}
      /\ batch'[p].at <= version' /\ batch'[p].left \subseteq batch[p].left
      /\ batch'[p].dead \subseteq batch[p].dead
  BY <1>1, <1>3, <1>4 DEF TypeOK, ViewsFit, Holding
<1>. HIDE DEF IInv, D
<1>. QED BY <1>1, <1>2, <1>3, <1>4, <1>5, <1>6, <1>7, QuietKeeps

\* Nobody's view is of a later match than this one.
LEMMA ViewsAreBounded ==
    ASSUME IInv, version' \in Nat, version <= version', UNCHANGED seen
    PROVE  /\ seen' \in [Sockets -> Nat] /\ \A x \in Sockets : seen'[x] <= version'
           /\ \A p \in Tasks : batch[p].at <= version'
           /\ untold \in Nat /\ untold <= version'
BY DEF IInv, TypeOK, ViewsFit

LEMMA VoteKeeps ==
    ASSUME IInv, NEW s \in Sockets, Vote(s)
    PROVE  IInv'
<1>. USE DEF IInv
<1>1. /\ UNCHANGED <<open, seen, conn, watching>> /\ lock = Nobody /\ pc[s] = "vote" /\ s \in Tasks
      /\ conn' \in [Tokens -> Sockets \cup {Nobody}] /\ {} \in SUBSET Sockets
      /\ version \in Nat /\ untold \in Nat /\ untold <= version /\ Behind({})
  BY DEF Vote, Free, Tasks, TypeOK, ViewsFit, SendingFits
<1>2. Players' = Players /\ Registered' = Registered \ {} /\ Registered' = Registered
  BY <1>1 DEF Players, Registered
<1>3. CASE Change /\ Capture(s, Players \cup watching) /\ Told /\ Takes(s) /\ Goto(s, "sending")
  <2>1. /\ version' \in Nat /\ version <= version' /\ untold' = untold /\ untold <= version'
        /\ lock' = s
    BY <1>1, <1>3 DEF Change, Told, Takes
  <2>2. PointsOK' /\ pc'[s] = "sending" /\ \A p \in Tasks \ {s} : pc'[p] = pc[p]
    BY <1>3, SocketGoes DEF SocketPoints
  <2>3. /\ BatchOK' /\ \A p \in Tasks \ {s} : batch'[p] = batch[p]
        /\ batch'[s] = [at |-> version', left |-> Players \cup watching, dead |-> {}]
    BY <1>1, <1>3, <2>1, Receivers, CaptureKeeps
  <2>. HIDE DEF IInv
  <2>. QED BY <1>1, <2>1, <2>2, <2>3, BroadcastKeeps DEF Free
<1>4. CASE \/ Change /\ Silent /\ Goto(s, "receiving") /\ Release /\ UNCHANGED batch
           \/ Goto(s, "denied") /\ Release /\ UNCHANGED <<version, batch, untold>>
  <2>1. /\ version' \in Nat /\ version <= version' /\ untold' \in Nat /\ untold' <= version'
        /\ lock' = Nobody /\ batch' = batch
    BY <1>1, <1>4 DEF Change, Silent, Release
  <2>2. /\ PointsOK' /\ pc'[s] \in {"receiving", "denied"}
        /\ \A p \in Tasks \ {s} : pc'[p] = pc[p]
    BY <1>4, SocketGoes DEF SocketPoints
  <2>3. Behind({})'
    <3>1. CASE untold' = version'
      BY <3>1 DEF Behind
    <3>2. CASE UNCHANGED <<version, untold>>
      BY <1>1, <1>2, <2>1, <2>2, <3>2 DEF Behind, UpToDate, Pending, Tasks
    <3>. QED BY <1>4, <3>1, <3>2 DEF Silent
  <2>4. BatchOK' /\ pc'[s] \notin Holding \cup {"new", "dialled", "decision"} /\ pc'[s] # "gone"
    BY <2>1, <2>2 DEF TypeOK, BatchOK, Holding
  <2>5. seen' \in [Sockets -> Nat] /\ (\A x \in Sockets : seen'[x] <= version')
        /\ batch'[s].at <= version'
    BY <1>1, <2>1, ViewsAreBounded
  <2>. HIDE DEF IInv
  <2>. QED BY <1>1, <1>2, <2>1, <2>2, <2>3, <2>4, <2>5, QuietKeeps
<1>. QED BY <1>3, <1>4 DEF Vote

LEMMA ViewKeeps ==
    ASSUME IInv, NEW s \in Sockets, View(s)
    PROVE  IInv'
<1>. USE DEF IInv
<1>. DEFINE D == IF s \in open THEN {} ELSE {s}
<1>1. /\ UNCHANGED <<version, open, batch, untold>> /\ lock = Nobody /\ lock' = Nobody
      /\ pc[s] = "view" /\ s \in Tasks /\ D \in SUBSET Sockets /\ D \cap open = {}
      /\ version \in Nat /\ untold \in Nat /\ untold <= version /\ Behind({})
  BY DEF View, Free, Release, Tasks, TypeOK, ViewsFit, SendingFits
<1>2. /\ PointsOK' /\ \A p \in Tasks \ {s} : pc'[p] = pc[p]
      /\ pc'[s] = IF s \in open THEN "receiving" ELSE "gone"
  BY SocketGoes DEF View, HandlerEnds, SocketPoints
<1>3. /\ conn' \in [Tokens -> Sockets \cup {Nobody}] /\ watching' \subseteq watching
      /\ \A t \in Tokens : conn'[t] \in {conn[t], Nobody}
      /\ Registered' = Registered \ D
  <2>1. CASE s \in open
    <3>1. conn' = conn /\ watching' = watching
      BY <2>1 DEF View
    <3>. QED BY <2>1, <3>1 DEF Registered, Players, TypeOK
  <2>2. CASE s \notin open
    BY <2>2, ForgetExactly DEF View, HandlerEnds
  <2>. QED BY <2>1, <2>2
<1>4. /\ seen' \in [Sockets -> Nat] /\ \A x \in Sockets \ {s} : seen'[x] = seen[x]
      /\ s \in open => seen'[s] = version
      /\ s \notin open => seen'[s] = seen[s]
  BY <1>1 DEF View, TypeOK
<1>5. Behind({})'
  <2>1. UpToDate({}) => UpToDate({})'
    BY <1>1, <1>3, <1>4, Receivers DEF UpToDate
  <2>2. Pending => Pending'
    BY <1>1, <1>2 DEF Pending, Tasks
  <2>. QED BY <1>1, <2>1, <2>2 DEF Behind
<1>6. /\ version' \in Nat /\ version <= version' /\ BatchOK' /\ batch'[s].at <= version'
      /\ \A x \in Sockets : seen'[x] <= version'
      /\ pc'[s] \notin Holding \cup {"new", "dialled", "decision"}
      /\ pc'[s] = "gone" => s \notin open
  BY <1>1, <1>2, <1>4 DEF TypeOK, BatchOK, ViewsFit, Holding
<1>. HIDE DEF IInv, D
<1>. QED BY <1>1, <1>2, <1>3, <1>4, <1>5, <1>6, QuietKeeps

LEMMA ErrorKeeps ==
    ASSUME IInv, NEW s \in Sockets, Error(s)
    PROVE  IInv'
<1>. USE DEF IInv
<1>1. /\ UNCHANGED <<version, open, seen>> /\ lock = Nobody /\ pc[s] \in {"refused", "denied"}
      /\ s \in Tasks /\ {} \in SUBSET Sockets /\ {s} \in SUBSET Sockets
      /\ version \in Nat /\ untold \in Nat /\ untold <= version /\ Behind({})
      /\ version' \in Nat /\ version <= version'
  BY DEF Error, Free, Tasks, TypeOK, ViewsFit, SendingFits
<1>2. /\ seen' \in [Sockets -> Nat] /\ \A x \in Sockets : seen'[x] <= version'
      /\ \A p \in Tasks : batch[p].at <= version'
  BY <1>1, ViewsAreBounded
<1>3. CASE /\ s \in open /\ pc[s] = "refused"
           /\ Capture(s, Players \cup watching) /\ Told /\ Takes(s) /\ Goto(s, "sending")
           /\ UNCHANGED <<conn, watching>>
  <2>1. untold' = untold /\ untold <= version' /\ lock' = s
    BY <1>1, <1>3 DEF Told, Takes
  <2>2. PointsOK' /\ pc'[s] = "sending" /\ \A p \in Tasks \ {s} : pc'[p] = pc[p]
    BY <1>3, SocketGoes DEF SocketPoints
  <2>3. /\ BatchOK' /\ \A p \in Tasks \ {s} : batch'[p] = batch[p]
        /\ batch'[s] = [at |-> version', left |-> Players \cup watching, dead |-> {}]
    BY <1>1, <1>3, Receivers, CaptureKeeps
  <2>. HIDE DEF IInv
  <2>. QED BY <1>1, <1>3, <2>1, <2>2, <2>3, BroadcastKeeps DEF Free
<1>4. CASE /\ s \in open /\ pc[s] = "denied"
           /\ Goto(s, "receiving") /\ Release
           /\ UNCHANGED <<conn, watching, batch, untold>>
  <2>1. /\ untold' \in Nat /\ untold' <= version' /\ lock' = Nobody /\ batch' = batch
        /\ Registered' = Registered /\ Registered' = Registered \ {}
        /\ conn' \in [Tokens -> Sockets \cup {Nobody}]
    BY <1>1, <1>4 DEF Release, Registered, Players, TypeOK
  <2>2. PointsOK' /\ pc'[s] = "receiving" /\ \A p \in Tasks \ {s} : pc'[p] = pc[p]
    BY <1>4, SocketGoes DEF SocketPoints
  <2>3. Behind({})'
    BY <1>1, <1>4, <2>1, <2>2 DEF Behind, UpToDate, Pending, Tasks
  <2>4. BatchOK' /\ pc'[s] \notin Holding \cup {"new", "dialled", "decision"} /\ pc'[s] # "gone"
    BY <2>1, <2>2 DEF TypeOK, BatchOK, Holding
  <2>. HIDE DEF IInv
  <2>. QED BY <1>1, <1>2, <1>4, <2>1, <2>2, <2>3, <2>4, QuietKeeps
<1>5. CASE /\ s \notin open /\ HandlerEnds(s) /\ Release
           /\ untold' = IF batch[s].at > untold THEN batch[s].at ELSE untold
           /\ batch' = [batch EXCEPT ![s] = NoSend]
  <2>1. PointsOK' /\ pc'[s] = "gone" /\ \A p \in Tasks \ {s} : pc'[p] = pc[p]
    BY <1>5, SocketGoes DEF HandlerEnds, SocketPoints
  <2>2. /\ BatchOK' /\ batch'[s] = [at |-> 0, left |-> {}, dead |-> {}]
        /\ \A p \in Tasks \ {s} : batch'[p] = batch[p]
    BY <1>1, <1>5, NoSendKeeps
  <2>3. /\ conn' \in [Tokens -> Sockets \cup {Nobody}] /\ watching' \subseteq watching
        /\ \A t \in Tokens : conn'[t] \in {conn[t], Nobody}
        /\ Registered' = Registered \ {s}
    BY <1>1, <1>5, ForgetExactly DEF HandlerEnds
  <2>4. batch[s].at \in Nat /\ batch[s].at <= version
    BY <1>1 DEF TypeOK, ViewsFit
  <2>5. untold' \in Nat /\ untold' <= version' /\ (batch[s].at = version => untold' = version)
        /\ (untold = version => untold' = version)
    BY <1>1, <1>5, <2>4
  <2>6. Behind({})'
    <3>1. UpToDate({}) => UpToDate({})'
      BY <1>1, <2>3 DEF UpToDate
    <3>2. Pending => Pending' \/ untold' = version
      BY <1>1, <2>1, <2>2, <2>5 DEF Pending, Tasks
    <3>. QED BY <1>1, <2>5, <3>1, <3>2 DEF Behind
  <2>7. /\ pc'[s] \notin Holding \cup {"new", "dialled", "decision"} /\ lock' = Nobody
        /\ batch'[s].at <= version' /\ {s} \cap open = {} /\ pc[s] \notin {"new", "dialled", "gone"}
        /\ batch'[s].left \subseteq batch[s].left /\ batch'[s].dead \subseteq batch[s].dead
    BY <1>1, <1>5, <2>1, <2>2 DEF Holding, Release
  <2>. HIDE DEF IInv
  <2>. QED BY <1>1, <1>2, <1>5, <2>1, <2>2, <2>3, <2>5, <2>6, <2>7, QuietKeeps
<1>. QED BY <1>3, <1>4, <1>5 DEF Error

LEMMA WorkKeeps ==
    ASSUME IInv, NEW w \in Workers, Work(w)
    PROVE  IInv'
<1>. USE DEF IInv
<1>1. /\ UNCHANGED <<open, seen, conn, watching>> /\ lock = Nobody /\ pc[w] = "idle" /\ w \in Tasks
      /\ version \in Nat /\ untold \in Nat /\ untold <= version /\ {} \in SUBSET Sockets
      /\ version' = version + 1 /\ version' \in Nat /\ version <= version'
      /\ conn' \in [Tokens -> Sockets \cup {Nobody}] /\ w \notin Sockets
  BY FanoutAssumption DEF Work, Free, Change, Tasks, TypeOK, ViewsFit
<1>2. /\ seen' \in [Sockets -> Nat] /\ \A x \in Sockets : seen'[x] <= version'
      /\ \A p \in Tasks : batch[p].at <= version'
  BY <1>1, ViewsAreBounded
<1>3. CASE Capture(w, Players \cup watching) /\ Told /\ Takes(w) /\ Goto(w, "sending")
  <2>1. untold' = untold /\ untold <= version' /\ lock' = w
    BY <1>1, <1>3 DEF Told, Takes
  <2>2. PointsOK' /\ pc'[w] = "sending" /\ \A p \in Tasks \ {w} : pc'[p] = pc[p]
    BY <1>3, WorkerGoes
  <2>3. /\ BatchOK' /\ \A p \in Tasks \ {w} : batch'[p] = batch[p]
        /\ batch'[w] = [at |-> version', left |-> Players \cup watching, dead |-> {}]
    BY <1>1, <1>3, Receivers, CaptureKeeps
  <2>. HIDE DEF IInv
  <2>. QED BY <1>1, <2>1, <2>2, <2>3, BroadcastKeeps DEF Free
<1>4. CASE Silent /\ UNCHANGED <<lock, batch, pc>>
  <2>1. /\ untold' = version' /\ lock' = Nobody /\ batch' = batch /\ pc' = pc
        /\ PointsOK' /\ BatchOK' /\ Behind({})'
    BY <1>1, <1>4 DEF Silent, TypeOK, PointsOK, BatchOK, Behind
  <2>2. Registered' = Registered \ {}
    BY <1>1 DEF Registered, Players
  <2>3. pc'[w] \notin Holding \cup {"new", "dialled", "decision"} /\ pc'[w] # "gone"
    BY <1>1, <2>1 DEF Holding
  <2>. HIDE DEF IInv
  <2>. QED BY <1>1, <1>2, <2>1, <2>2, <2>3, QuietKeeps
<1>. QED BY <1>3, <1>4 DEF Work

LEMMA BotDecidesKeeps ==
    ASSUME IInv, NEW w \in Workers, BotDecides(w)
    PROVE  IInv'
<1>. USE DEF IInv
<1>1. /\ UNCHANGED <<open, seen, conn, watching>> /\ lock = Nobody /\ pc[w] = "idle" /\ w \in Tasks
      /\ version \in Nat /\ version' = version + 2 /\ version' \in Nat
      /\ untold' = version' /\ lock' = w
  BY DEF BotDecides, Free, Takes, Silent, Tasks, TypeOK
<1>2. PointsOK' /\ pc'[w] = "sending" /\ \A p \in Tasks \ {w} : pc'[p] = pc[p]
  BY WorkerGoes DEF BotDecides
<1>3. Players \cup watching \subseteq Sockets
  BY Receivers
<1>4. /\ BatchOK' /\ \A p \in Tasks \ {w} : batch'[p] = batch[p]
      /\ batch'[w] = [at |-> version + 1, left |-> Players \cup watching, dead |-> {}]
  <2>. DEFINE m == [at |-> version + 1, left |-> Players \cup watching, dead |-> {}]
  <2>1. m \in [at : Nat, left : SUBSET Sockets, dead : SUBSET Sockets]
    BY <1>1, <1>3
  <2>2. [Captured(Players \cup watching) EXCEPT !.at = version + 1] = m
    BY DEF Captured
  <2>3. batch' = [batch EXCEPT ![w] = m]
    BY <2>2 DEF BotDecides
  <2>. HIDE DEF m
  <2>4. BatchOK' /\ batch'[w] = m /\ \A p \in Tasks \ {w} : batch'[p] = batch[p]
    BY <1>1, <2>1, <2>3 DEF TypeOK, BatchOK
  <2>. QED BY <2>4 DEF m
<1>5. /\ version + 1 \in Nat /\ version <= version + 1 /\ version + 1 <= version'
      /\ untold' \in Nat /\ untold' <= version' /\ pc[w] \notin {"new", "dialled", "gone"}
  BY <1>1
<1>. HIDE DEF IInv
<1>. QED BY <1>1, <1>2, <1>4, <1>5, BroadcastKeeps DEF Free

-----------------------------------------------------------------------------
(* Theorems. *)

\* The strengthened invariant: who holds outbound_lock, what is captured and
\* what is still to be sent fit what each socket was shown.
THEOREM Invariance == Spec => []IInv
<1>1. IInv /\ [Next]_vars => IInv'
  <2>. SUFFICES ASSUME IInv, [Next]_vars PROVE IInv'
    OBVIOUS
  <2>1. CASE \E s \in Sockets : Handler(s)
    BY <2>1, NetworkKeeps, HangUpKeeps, RegisterKeeps, GreetKeeps, DecideKeeps, RefuseKeeps,
       ReplyKeeps, RemainingKeeps, VoteKeeps, ViewKeeps, ErrorKeeps DEF Handler
  <2>2. CASE \E w \in Workers : Work(w) \/ BotDecides(w)
    BY <2>2, WorkKeeps, BotDecidesKeeps
  <2>3. CASE \E p \in Tasks : Finish(p) \/ \E s \in Sockets : Send(p, s)
    BY <2>3, FinishKeeps, SendKeeps
  <2>4. CASE UNCHANGED vars
    BY <2>4 DEF vars, IInv, TypeOK, PointsOK, LockFits, ViewsFit, EntriesFit, DeadFit, SendingFits,
                LiveSocketIsKept, Behind, UpToDate, Pending, Registered, Players, IsPlayer
  <2>. QED BY <2>1, <2>2, <2>3, <2>4 DEF Next
<1>. QED BY Initially, <1>1, PTL DEF Spec

\* Every variable keeps its type: a lock has one owner, an entry is a socket's.
THEOREM TypeCorrect == Spec => []TypeOK
BY Invariance, PTL DEF IInv

\* While the lock is free and no refused message is left to report, a connected
\* client shows the match as it is unless its last change was told to nobody.
THEOREM BehindCorrect == Spec => []BehindOnlyIfUntold
<1>1. IInv => BehindOnlyIfUntold
  <2>. SUFFICES ASSUME IInv, ~ InFlight PROVE \A s \in Registered \cap open :
                                                 seen[s] = version \/ untold = version
    BY DEF BehindOnlyIfUntold
  <2>1. Behind({}) /\ ~ Pending
    BY DEF IInv, InFlight, SendingFits, Pending
  <2>. QED BY <2>1 DEF Behind, UpToDate
<1>. QED BY Invariance, <1>1, PTL

\* Nothing that fails, supersedes or unregisters takes a live socket out of the
\* broadcasts.
THEOREM LiveSocketsKept == Spec => []LiveSocketIsKept
BY Invariance, PTL DEF IInv

\* No step sends a socket a view older than one it was sent before.
THEOREM ViewsForward == Spec => ViewsMoveForward
<1>1. IInv /\ [Next]_vars => [\A s \in Sockets : seen'[s] >= seen[s]]_vars
  <2>. SUFFICES ASSUME IInv, Next, NEW s \in Sockets PROVE seen'[s] >= seen[s]
    BY DEF ViewsMoveForward
  <2>. USE DEF IInv
  <2>1. seen[s] \in Nat /\ seen[s] <= version
    BY DEF TypeOK, ViewsFit
  <2>2. ASSUME NEW x \in Sockets, Greet(x) PROVE seen'[s] >= seen[s]
    <3>1. batch[x].at \in Nat /\ seen[s] <= batch[x].at
      BY <2>2 DEF Greet, TypeOK, ViewsFit, Telling, Tasks
    <3>. QED BY <2>1, <2>2, <3>1 DEF Greet, TypeOK
  <2>3. ASSUME NEW x \in Sockets, View(x) PROVE seen'[s] >= seen[s]
    BY <2>1, <2>3 DEF View, TypeOK
  <2>4. ASSUME NEW p \in Tasks, NEW x \in Sockets, Send(p, x) PROVE seen'[s] >= seen[s]
    <3>1. batch[p].at \in Nat /\ seen[s] <= batch[p].at
      BY <2>4 DEF Send, TypeOK, ViewsFit, Telling
    <3>. QED BY <2>1, <2>4, <3>1 DEF Send, TypeOK
  <2>5. CASE UNCHANGED seen
    BY <2>1, <2>5
  <2>. QED BY <2>2, <2>3, <2>4, <2>5 DEF Next, Handler, Dial, Drop, Receive, HangUp, Register,
         Decide, Refuse, Reply, Remaining, Finish, Vote, Error, Work, BotDecides
<1>. QED BY Invariance, <1>1, PTL DEF Spec, ViewsMoveForward
=============================================================================
