------------------------------- MODULE Fanout -------------------------------
(***************************************************************************)
(* What the connected clients of one match are shown (src/src/goa2/server/ *)
(* ws.py): sockets connect, supersede one another and drop while handlers  *)
(* of messages, REST requests and background tasks change the match and    *)
(* send it around.  A task that changes the match holds outbound_lock from *)
(* before the change to its last send; every send may suspend it.          *)
(*                                                                         *)
(* game.lock is only held across a suspension by a task that also holds    *)
(* outbound_lock, so it orders nothing here and is left out.  A view is    *)
(* the version of the match it was built from.                             *)
(***************************************************************************)
EXTENDS Naturals

CONSTANTS
    Tokens,       \* tokens of players; each owns one live socket at a time
    Sockets,      \* connections that are made in the life of the match
    TokenOf,      \* the token a socket connects with
    Spectator,    \* the shared token of spectators, who only watch
    Workers,      \* tasks without a socket: deadline worker, bots, REST requests
    MaxVersion    \* bound: changes of the match

Nobody == "nobody"

ASSUME FanoutAssumption ==
    /\ TokenOf \in [Sockets -> Tokens \cup {Spectator}]
    /\ Spectator \notin Tokens /\ MaxVersion \in Nat
    /\ Sockets \cap Workers = {} /\ Nobody \notin Sockets \cup Workers

VARIABLES
    version,    \* how often the match has changed
    open,       \* sockets over which a send succeeds
    seen,       \* the version a socket was last sent
    conn,       \* game.ws_connections: the socket of a player's token
    watching,   \* game.spectator_ws_connections
    pc,         \* where a handler or a worker is
    lock,       \* who holds outbound_lock
    batch,      \* captured messages: their version, whom they still go to, who failed
    untold      \* ghost: the last version that its task sent to nobody, 0 if none

vars == <<version, open, seen, conn, watching, pc, lock, batch, untold>>

Tasks  == Sockets \cup Workers
NoSend == [at |-> 0, left |-> {}, dead |-> {}]

Init ==
    /\ version = 0 /\ open = {} /\ seen = [s \in Sockets |-> 0]
    /\ conn = [t \in Tokens |-> Nobody] /\ watching = {}
    /\ pc = [p \in Tasks |-> IF p \in Sockets THEN "new" ELSE "idle"]
    /\ lock = Nobody /\ batch = [p \in Tasks |-> NoSend] /\ untold = 0

-----------------------------------------------------------------------------
Goto(p, point) == pc' = [pc EXCEPT ![p] = point]

\* outbound_lock is taken and, if the task does not suspend, released again in
\* one step; Takes keeps it across the sends that follow.
Takes(p) == lock' = p
Release  == lock' = Nobody

\* Mutant: the lock is not waited for.
MutFree == TRUE

Free == lock = Nobody

IsPlayer(s) == TokenOf[s] \in Tokens
Players     == {conn[t] : t \in Tokens} \ {Nobody}

\* Mutant: what is sent was built before the change.
MutCaptured(sockets) == [at |-> version, left |-> sockets, dead |-> {}]

\* _capture_broadcast and _capture_player_update: the views are built now.
Captured(sockets) == [at |-> version', left |-> sockets, dead |-> {}]

Capture(p, sockets) == batch' = [batch EXCEPT ![p] = Captured(sockets)]

\* A change of the match; its messages reach the clients, or there are none.
Change  == version < MaxVersion /\ version' = version + 1
Told    == UNCHANGED untold
Silent  == untold' = version'

\* Mutant: the entry of its token is forgotten, whichever socket it holds.
MutIsStill(t, s) == conn[t] # Nobody

\* Only the very socket that failed, or whose handler ends, is forgotten.
IsStill(t, s) == conn[t] = s

Forget(sockets) ==
    /\ conn' = [t \in Tokens |->
                    IF \E s \in sockets : TokenOf[s] = t /\ IsStill(t, s)
                    THEN Nobody ELSE conn[t]]
    /\ watching' = watching \ sockets

\* The handler of s ends: its finally clause.
HandlerEnds(s) == Goto(s, "gone") /\ Forget({s})

-----------------------------------------------------------------------------
(* The network and the clients. *)

Dial(s) ==
    /\ pc[s] = "new"
    /\ open' = open \cup {s} /\ Goto(s, "dialled")
    /\ UNCHANGED <<version, seen, conn, watching, lock, batch, untold>>

Drop(s) ==
    /\ s \in open /\ open' = open \ {s}
    /\ UNCHANGED <<version, seen, conn, watching, pc, lock, batch, untold>>

Receive(s) ==
    /\ pc[s] = "receiving" /\ s \in open
    /\ \E m \in IF IsPlayer(s) THEN {"decision", "vote", "view"} ELSE {"view"} : Goto(s, m)
    /\ UNCHANGED <<version, open, seen, conn, watching, lock, batch, untold>>

HangUp(s) ==
    /\ pc[s] = "receiving" /\ s \notin open
    /\ HandlerEnds(s)
    /\ UNCHANGED <<version, open, seen, lock, batch, untold>>

-----------------------------------------------------------------------------
(* Connecting. *)

\* The socket takes the place of its predecessor, which is closed.
Register(s) ==
    /\ Free /\ Takes(s) /\ pc[s] = "dialled"
    /\ IF IsPlayer(s)
       THEN /\ conn' = [conn EXCEPT ![TokenOf[s]] = s]
            /\ open' = open \ {conn[TokenOf[s]]}
            /\ UNCHANGED watching
       ELSE watching' = watching \cup {s} /\ UNCHANGED <<conn, open>>
    /\ UNCHANGED version /\ Capture(s, {s}) /\ Goto(s, "greeting")
    /\ UNCHANGED <<seen, untold>>

\* The first view; a handler that fails here leaves the entry to the next
\* broadcast, for its finally clause is not reached.
Greet(s) ==
    /\ pc[s] = "greeting"
    /\ IF s \in open
       THEN seen' = [seen EXCEPT ![s] = batch[s].at] /\ Goto(s, "receiving")
       ELSE UNCHANGED seen /\ Goto(s, "gone")
    /\ batch' = [batch EXCEPT ![s] = NoSend] /\ Release
    /\ UNCHANGED <<version, open, conn, watching, untold>>

-----------------------------------------------------------------------------
(* Messages. *)

\* A decision is accepted or found too late; either way the match changed,
\* and the sender is replied to first.
Decide(s) ==
    /\ Free /\ Takes(s) /\ pc[s] = "decision"
    /\ Change /\ Goto(s, "replying")
    /\ UNCHANGED <<open, seen, conn, watching, batch, untold>>

\* The engine refuses the message.  Timeouts due before it may have changed
\* the match.
Refuse(s) ==
    /\ Free /\ pc[s] = "decision"
    /\ \/ Change /\ Goto(s, "refused") /\ Capture(s, {})
       \/ UNCHANGED <<version, batch>> /\ Goto(s, "denied")
    /\ Release
    /\ UNCHANGED <<open, seen, conn, watching, untold>>

\* The reply fails if the sender's socket is gone: the handler ends before it
\* captured what the others are to see.
Reply(s) ==
    /\ pc[s] = "replying" /\ UNCHANGED version
    /\ IF s \in open
       THEN /\ Capture(s, {conn[TokenOf[s]]} \ {Nobody}) /\ Goto(s, "telling")
            /\ UNCHANGED <<conn, watching, lock, untold>>
       ELSE HandlerEnds(s) /\ Release /\ Silent /\ UNCHANGED batch
    /\ UNCHANGED <<open, seen>>

\* One awaited send of a captured message.
Send(p, s) ==
    /\ pc[p] \in {"telling", "sending"} /\ s \in batch[p].left
    /\ seen' = IF s \in open THEN [seen EXCEPT ![s] = batch[p].at] ELSE seen
    /\ batch' = [batch EXCEPT ![p].left = @ \ {s},
                              ![p].dead = IF s \in open THEN @ ELSE @ \cup {s}]
    /\ UNCHANGED <<version, open, conn, watching, pc, lock, untold>>

\* The player's own update is out: the others' are captured, without the
\* socket of that player's token.
Others(s) == (Players \cup watching) \ {conn[TokenOf[s]]}

Remaining(s) ==
    /\ pc[s] = "telling" /\ batch[s].left = {}
    /\ Forget(batch[s].dead) /\ UNCHANGED version
    /\ Capture(s, Others(s)) /\ Goto(s, "sending") /\ Told
    /\ UNCHANGED <<open, seen, lock>>

\* Everything is sent: sockets that failed are forgotten, the lock is free.
Finish(p) ==
    /\ pc[p] = "sending" /\ batch[p].left = {}
    /\ Forget(batch[p].dead)
    /\ batch' = [batch EXCEPT ![p] = NoSend] /\ Release
    /\ Goto(p, IF p \in Sockets THEN "receiving" ELSE "idle")
    /\ UNCHANGED <<version, open, seen, untold>>

\* The vote that decides a proposal.  One that turns out not to be applicable
\* tells the outcome, but not the timeouts that were due before it.
Vote(s) ==
    /\ Free /\ pc[s] = "vote"
    /\ \/ Change /\ Capture(s, Players \cup watching) /\ Told /\ Takes(s) /\ Goto(s, "sending")
       \/ Change /\ Silent /\ Goto(s, "receiving") /\ Release /\ UNCHANGED batch
       \/ Goto(s, "denied") /\ Release /\ UNCHANGED <<version, batch, untold>>
    /\ UNCHANGED <<open, seen, conn, watching>>

View(s) ==
    /\ Free /\ pc[s] = "view"
    /\ IF s \in open
       THEN /\ seen' = [seen EXCEPT ![s] = version] /\ Goto(s, "receiving")
            /\ UNCHANGED <<conn, watching>>
       ELSE HandlerEnds(s) /\ UNCHANGED seen
    /\ Release
    /\ UNCHANGED <<version, open, batch, untold>>

\* The error reply comes first; with it fails what the timeouts changed.
Error(s) ==
    /\ Free /\ pc[s] \in {"refused", "denied"} /\ UNCHANGED version
    /\ \/ /\ s \in open /\ pc[s] = "refused"
          /\ Capture(s, Players \cup watching) /\ Told /\ Takes(s) /\ Goto(s, "sending")
          /\ UNCHANGED <<conn, watching>>
       \/ /\ s \in open /\ pc[s] = "denied"
          /\ Goto(s, "receiving") /\ Release
          /\ UNCHANGED <<conn, watching, batch, untold>>
       \/ /\ s \notin open /\ HandlerEnds(s) /\ Release
          /\ untold' = IF batch[s].at > untold THEN batch[s].at ELSE untold
          /\ batch' = [batch EXCEPT ![s] = NoSend]
    /\ UNCHANGED <<open, seen>>

-----------------------------------------------------------------------------
(* Tasks without a socket. *)

\* The deadline worker, readiness over REST, and timeouts that a REST request
\* meets are sent around; the decision of a REST request is not.
Work(w) ==
    /\ Free /\ pc[w] = "idle" /\ Change
    /\ \/ Capture(w, Players \cup watching) /\ Told /\ Takes(w) /\ Goto(w, "sending")
       \/ Silent /\ UNCHANGED <<lock, batch, pc>>
    /\ UNCHANGED <<open, seen, conn, watching>>

\* What a bot decides, or an idle match does, is sent around as it was before
\* the mutation was finalized: no view shows the clocks it starts again.
BotDecides(w) ==
    /\ Free /\ Takes(w) /\ pc[w] = "idle" /\ Goto(w, "sending")
    /\ version + 2 <= MaxVersion /\ version' = version + 2
    /\ batch' = [batch EXCEPT ![w] = [Captured(Players \cup watching) EXCEPT !.at = version + 1]]
    /\ Silent
    /\ UNCHANGED <<open, seen, conn, watching>>

Handler(s) ==
    \/ Dial(s) \/ Drop(s) \/ Receive(s) \/ HangUp(s) \/ Register(s) \/ Greet(s)
    \/ Decide(s) \/ Refuse(s) \/ Reply(s) \/ Remaining(s) \/ Vote(s) \/ View(s) \/ Error(s)

Next ==
    \/ \E s \in Sockets : Handler(s)
    \/ \E w \in Workers : Work(w) \/ BotDecides(w)
    \/ \E p \in Tasks : Finish(p) \/ \E s \in Sockets : Send(p, s)

Spec == Init /\ [][Next]_vars

-----------------------------------------------------------------------------
(* Properties. *)

\* A socket is never sent a view older than one it was sent before, though a
\* view is built long before it goes out and the match moves on meanwhile.
ViewsMoveForward == [][\A s \in Sockets : seen'[s] >= seen[s]]_vars

Registered == Players \cup watching

\* A change is on its way to the sockets.
InFlight == lock # Nobody \/ \E s \in Sockets : pc[s] = "refused"

\* Once nothing is on its way, everyone connected sees the match as it is,
\* unless its last change was one that its task told nobody: a decision over
\* REST, one whose sender's socket was gone before the reply, the clocks after
\* a bot's decision, timeouts found by a refused message whose sender was
\* gone, or by an override that could not be applied.
BehindOnlyIfUntold ==
    ~InFlight => \A s \in Registered \cap open : seen[s] = version \/ untold = version

\* A socket that a client holds open is found by broadcasts as long as its
\* handler runs, whatever becomes of an earlier socket of the same token that
\* fails, is superseded or unregisters late.
LiveSocketIsKept ==
    \A s \in open : pc[s] \notin {"new", "dialled", "gone"} => s \in Registered
=============================================================================
