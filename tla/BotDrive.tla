------------------------------- MODULE BotDrive -------------------------------
(***************************************************************************)
(* The bot coordinator (server/bots.py) and the bounded searches it shares *)
(* with every other match (server/bounded_compute.py).                     *)
(*                                                                         *)
(* One worker per match looks at the table under the lock, computes a      *)
(* decision without it, and takes the lock again to apply the decision or, *)
(* when there was none to compute, to nudge the engine or to stop.  Humans *)
(* and deadlines change the table in between and call schedule_bot_drive,  *)
(* which does nothing while a worker is alive.                             *)
(*                                                                         *)
(* A search runs in an executor thread that cannot be stopped.  It holds a *)
(* permit of the process until its thread ends, also when its caller has   *)
(* given up waiting.                                                       *)
(***************************************************************************)
EXTENDS Naturals, FiniteSets

CONSTANTS
    Games, Bots, Humans,
    Searchers,     \* bots whose decisions are bounded searches
    Teams,         \* the sets of heroes a "team:" request may address
    Futures,       \* names of the tracked searches
    Concurrency,   \* PROD_SEARCH_CONCURRENCY
    MaxTurn, MaxRequests,  \* bounds: turns and prompts of a match
    Nobody

Heroes == Bots \cup Humans

ASSUME DriveAssumption ==
    /\ Bots # {} /\ Bots \cap Humans = {} /\ Nobody \notin Heroes
    /\ Searchers \subseteq Bots /\ Teams \subseteq (SUBSET Heroes) \ {{}}
    /\ Nobody \notin Games /\ Nobody \notin Futures
    /\ IsFiniteSet(Futures) /\ Concurrency \in Nat \ {0}
    /\ MaxTurn \in Nat /\ MaxRequests \in Nat

VARIABLES
    match,    \* the table of each match: phase, turn, who planned, request
    status,   \* does its clock run; is it still in the registry
    agents,   \* ManagedGame._bot_agents is built
    wake,     \* a deadline worker still has to call schedule_bot_drive
    task,     \* ManagedGame.bot_task: how far the worker is, and with what
    permits,  \* value of the compute semaphore
    future,   \* the match each tracked search belongs to
    lost      \* history: why the last worker of a match may have stopped early

vars == <<match, status, agents, wake, task, permits, future, lost>>

-----------------------------------------------------------------------------
(* The table and the engine. *)

NoRequest == [id |-> 0, kind |-> "none", to |-> {}]

Request == [id : Nat, kind : {"none", "hero", "team", "upgrade"}, to : SUBSET Heroes]

Match == [phase : {"PLANNING", "RESOLUTION", "GAME_OVER"}, turn : Nat,
          planned : SUBSET Heroes, request : Request, ids : Nat]

\* What the engine may leave behind: a prompt, work left on the stack, a new
\* turn, the end.
Prompt(m, kind, to) ==
    [phase |-> "RESOLUTION", turn |-> m.turn, planned |-> {}, ids |-> m.ids + 1,
     request |-> [id |-> m.ids + 1, kind |-> kind, to |-> to]]

Prompts(m) ==
    IF m.ids >= MaxRequests THEN {}
    ELSE {Prompt(m, "hero", {h}) : h \in Heroes} \cup {Prompt(m, "team", T) : T \in Teams}
           \cup {Prompt(m, "upgrade", U) : U \in (SUBSET Heroes) \ {{}}}

\* No prompt: the stack is empty, a turn begins, or the match is over.
Quiet(m, phase, turn) ==
    [phase |-> phase, turn |-> turn, planned |-> {}, ids |-> m.ids, request |-> NoRequest]

Unfinished(m) == Quiet(m, "RESOLUTION", m.turn)
Turns(m)      == IF m.turn >= MaxTurn THEN {} ELSE {Quiet(m, "PLANNING", m.turn + 1)}
Over(m)       == Quiet(m, "GAME_OVER", m.turn)

Advanced(m) == Prompts(m) \cup Turns(m) \cup {Over(m)}

Outcomes(m) == Advanced(m) \cup {Unfinished(m)}

\* The decision of hero h, by whomever it is made; none when h owes none.
Decide(m, h) ==
    CASE m.phase = "PLANNING" /\ h \notin m.planned ->
           LET all == m.planned \cup {h}
           IN IF all = Heroes THEN Outcomes(m) ELSE {[m EXCEPT !.planned = all]}
      [] m.phase = "RESOLUTION" /\ h \in m.request.to ->
           IF m.request.kind = "upgrade" /\ m.request.to # {h}
           THEN {Prompt(m, "upgrade", m.request.to \ {h})} ELSE Outcomes(m)
      [] OTHER -> {}

Stuck(m) == m.phase = "RESOLUTION" /\ m.request = NoRequest

\* Humans decide, take a card back, or ask the engine to go on, which only
\* repeats a request that is pending.
HumanMoves(m) ==
    (UNION {Decide(m, h) : h \in Humans})
      \cup {[m EXCEPT !.planned = @ \ {h}] : h \in Humans \cap m.planned}
      \cup (IF Stuck(m) THEN Advanced(m) ELSE IF m.request # NoRequest THEN {m} ELSE {})

-----------------------------------------------------------------------------
(* What the coordinator reads of a table. *)

\* inspect_next_owner: the bots that may be asked for the next decision.
Owners(m) ==
    IF m.request # NoRequest
    THEN IF m.request.kind = "team" /\ ~(m.request.to \subseteq Bots)
         THEN {} ELSE m.request.to \cap Bots
    ELSE IF m.phase = "PLANNING" THEN Bots \ m.planned ELSE {}

NoDecision == [hero |-> Nobody, request |-> 0, turn |-> 0]

Decision == {NoDecision} \cup [hero : Bots, request : Nat, turn : Nat]

\* Mutant: any request the hero may answer will do.
MutStillValid(m, d) ==
    IF d.request = 0
    THEN m.phase = "PLANNING" /\ d.hero \notin m.planned
    ELSE d.hero \in m.request.to

\* _is_decision_still_valid.  A planning decision carries no request.
StillValid(m, d) ==
    IF d.request = 0
    THEN m.phase = "PLANNING" /\ d.hero \notin m.planned
    ELSE m.request.id = d.request /\ d.hero \in m.request.to

\* _is_runnable_for_bots
Runnable(g) == status[g] = "running" /\ match[g].phase # "GAME_OVER"

At(pc, decision, f) == [pc |-> pc, decision |-> decision, future |-> f]
Asleep == At("none", NoDecision, Nobody)
Awake  == At("look", NoDecision, Nobody)

Task == [pc : {"none", "look", "build", "plain", "queue", "search", "fallback", "decided"},
         decision : Decision, future : Futures \cup {Nobody}]

\* A worker that has seen nothing to decide.
Idling(t) == t.pc \in {"plain", "decided"} /\ t.decision = NoDecision

-----------------------------------------------------------------------------
(* Scheduling and the life of a match. *)

TypeOK ==
    /\ match \in [Games -> Match]
    /\ status \in [Games -> {"running", "held", "removed"}]
    /\ agents \in [Games -> BOOLEAN] /\ wake \in [Games -> BOOLEAN]
    /\ task \in [Games -> Task]
    /\ permits \in Nat /\ future \in [Futures -> Games \cup {Nobody}]
    /\ lost \in [Games -> {"no", "missed", "failed"}]

Init ==
    /\ match = [g \in Games |-> [phase |-> "PLANNING", turn |-> 1, planned |-> {},
                                 request |-> NoRequest, ids |-> 0]]
    /\ status = [g \in Games |-> "held"]
    /\ agents = [g \in Games |-> FALSE] /\ wake = [g \in Games |-> FALSE]
    /\ task = [g \in Games |-> Asleep]
    /\ permits = Concurrency /\ future = [f \in Futures |-> Nobody]
    /\ lost = [g \in Games |-> "no"]

\* schedule_bot_drive, after match' and status' are set.
Schedule(g) ==
    IF Runnable(g)' /\ task[g].pc = "none"
    THEN /\ task' = [task EXCEPT ![g] = Awake]
         /\ lost' = [lost EXCEPT ![g] = "no"]
    ELSE /\ lost' = [lost EXCEPT ![g] = IF @ = "no" /\ Idling(task[g]) THEN "missed" ELSE @]
         /\ UNCHANGED task

\* A human decision, or a human who asks the engine to go on; finalize ends
\* with schedule_bot_drive.
HumanActs(g) ==
    /\ Runnable(g)
    /\ \E m \in HumanMoves(match[g]) : match' = [match EXCEPT ![g] = m]
    /\ UNCHANGED <<status, agents, wake, permits, future>>
    /\ Schedule(g)

\* A deadline decides for a player.  The worker is woken after the lock was
\* released and the update sent.
DeadlineActs(g) ==
    /\ Runnable(g)
    /\ \E h \in Heroes : \E m \in Decide(match[g], h) : match' = [match EXCEPT ![g] = m]
    /\ wake' = [wake EXCEPT ![g] = TRUE]
    /\ UNCHANGED <<status, agents, task, permits, future, lost>>

Woken(g) ==
    /\ wake[g] /\ wake' = [wake EXCEPT ![g] = FALSE]
    /\ UNCHANGED <<match, status, agents, permits, future>>
    /\ Schedule(g)

\* Paused, suspended for inactivity.
Hold(g) ==
    /\ status[g] = "running" /\ status' = [status EXCEPT ![g] = "held"]
    /\ UNCHANGED <<match, agents, wake, task, permits, future, lost>>

\* The last player is ready: start_bot_lifecycle, or finalize.
Resume(g) ==
    /\ status[g] = "held" /\ status' = [status EXCEPT ![g] = "running"]
    /\ UNCHANGED <<match, agents, wake, permits, future>>
    /\ Schedule(g)

\* registry.remove cancels the worker; a search it awaited goes on unwatched.
Remove(g) ==
    /\ status[g] # "removed" /\ status' = [status EXCEPT ![g] = "removed"]
    /\ task' = [task EXCEPT ![g] = Asleep]
    /\ agents' = [agents EXCEPT ![g] = FALSE]
    /\ UNCHANGED <<match, wake, permits, future, lost>>

-----------------------------------------------------------------------------
(* The worker. *)

Step(g, pc) == task' = [task EXCEPT ![g].pc = pc]
Exit(g)     == task' = [task EXCEPT ![g] = Asleep]
Fail(g)     == Exit(g) /\ lost' = [lost EXCEPT ![g] = "failed"]

\* Snapshot under the lock: whose decision is computed, and where.
Look(g) ==
    /\ task[g].pc = "look"
    /\ lost' = [lost EXCEPT ![g] = "no"]
    /\ UNCHANGED <<match, status, agents, wake, permits, future>>
    /\ CASE ~Runnable(g) -> Exit(g)
         [] Runnable(g) /\ ~agents[g] -> Step(g, "build")
         [] Runnable(g) /\ agents[g] /\ Owners(match[g]) = {} -> Step(g, "plain")
         [] OTHER ->
              \E b \in Owners(match[g]) :
                 task' = [task EXCEPT ![g] =
                    At(IF b \in Searchers THEN "queue" ELSE "plain",
                       [hero |-> b, request |-> match[g].request.id,
                        turn |-> match[g].turn], Nobody)]

\* get_or_build_agents in a thread, then published under the lock.
Build(g) ==
    /\ task[g].pc = "build"
    /\ UNCHANGED <<match, status, wake, permits, future>>
    /\ \/ Fail(g) /\ UNCHANGED agents
       \/ IF Runnable(g)
          THEN Step(g, "look") /\ agents' = [agents EXCEPT ![g] = TRUE] /\ UNCHANGED lost
          ELSE Exit(g) /\ UNCHANGED <<agents, lost>>

\* The unbounded path: a heuristic or random bot, or nobody's decision.
Compute(g) ==
    /\ task[g].pc = "plain"
    /\ UNCHANGED <<match, status, agents, wake, permits, future>>
    /\ \/ Step(g, "decided") /\ UNCHANGED lost
       \/ task[g].decision # NoDecision /\ Fail(g)

\* A permit is free: the search starts in a thread of its own.
StartSearch(g) ==
    /\ task[g].pc = "queue" /\ permits > 0
    /\ permits' = permits - 1
    /\ \E f \in Futures :
         /\ future[f] = Nobody /\ future' = [future EXCEPT ![f] = g]
         /\ task' = [task EXCEPT ![g] = At("search", task[g].decision, f)]
    /\ UNCHANGED <<match, status, agents, wake, lost>>

\* Mutant: a search waits for its permit as long as it takes.
MutQueueTimeout(g) == FALSE /\ UNCHANGED vars

QueueTimeout(g) ==
    /\ task[g].pc = "queue" /\ Step(g, "fallback")
    /\ UNCHANGED <<match, status, agents, wake, permits, future, lost>>

\* The thread of search f ends: the done-callback returns the permit.
Release(f) ==
    /\ permits' = permits + 1 /\ future' = [future EXCEPT ![f] = Nobody]

\* In time: with a decision, or with an error that calls for the fallback.
SearchEnds(g) ==
    /\ task[g].pc = "search" /\ Release(task[g].future)
    /\ \E pc \in {"decided", "fallback"} :
         task' = [task EXCEPT ![g] = At(pc, task[g].decision, Nobody)]
    /\ UNCHANGED <<match, status, agents, wake, lost>>

\* Mutant: the caller that gives up returns the permit.
MutSearchTimeout(g) ==
    /\ task[g].pc = "search"
    /\ task' = [task EXCEPT ![g] = At("fallback", task[g].decision, Nobody)]
    /\ permits' = permits + 1
    /\ UNCHANGED <<match, status, agents, wake, future, lost>>

\* The caller gives up; the thread goes on and keeps its permit.
SearchTimeout(g) ==
    /\ task[g].pc = "search"
    /\ task' = [task EXCEPT ![g] = At("fallback", task[g].decision, Nobody)]
    /\ UNCHANGED <<match, status, agents, wake, permits, future, lost>>

\* A search nobody waits for any more ends; its decision is dropped.
LateCompletion(f) ==
    /\ future[f] # Nobody /\ \A g \in Games : task[g].future # f
    /\ Release(f)
    /\ UNCHANGED <<match, status, agents, wake, task, lost>>

\* The heuristic takes over; when it fails too there is no decision.
Fallback(g) ==
    /\ task[g].pc = "fallback"
    /\ \/ Step(g, "decided") /\ UNCHANGED lost
       \/ /\ task' = [task EXCEPT ![g] = At("decided", NoDecision, Nobody)]
          /\ lost' = [lost EXCEPT ![g] = "failed"]
    /\ UNCHANGED <<match, status, agents, wake, permits, future>>

\* The engine ran; the worker paces itself and looks again.
Progress(g, m) ==
    /\ match' = [match EXCEPT ![g] = m]
    /\ task' = [task EXCEPT ![g] = IF m.phase = "GAME_OVER" THEN Asleep ELSE Awake]
    /\ UNCHANGED lost

\* Mutant: a stale decision ends the worker.
MutApply(g) ==
    /\ task[g].pc = "decided" /\ task[g].decision # NoDecision
    /\ UNCHANGED <<status, agents, wake, permits, future>>
    /\ IF Runnable(g) /\ StillValid(match[g], task[g].decision)
       THEN \E m \in Decide(match[g], task[g].decision.hero) : Progress(g, m)
       ELSE Exit(g) /\ UNCHANGED <<match, lost>>

\* _apply_bot_decision.  A stale decision makes the worker look again; an
\* engine that refuses it (the card is gone) ends the worker.
Apply(g) ==
    /\ task[g].pc = "decided" /\ task[g].decision # NoDecision
    /\ UNCHANGED <<status, agents, wake, permits, future>>
    /\ LET d == task[g].decision
       IN CASE ~Runnable(g) -> Exit(g) /\ UNCHANGED <<match, lost>>
            [] Runnable(g) /\ ~StillValid(match[g], d) ->
                 task' = [task EXCEPT ![g] = Awake] /\ UNCHANGED <<match, lost>>
            [] OTHER -> \/ \E m \in Decide(match[g], d.hero) : Progress(g, m)
                        \/ Fail(g) /\ UNCHANGED match

\* _maybe_plain_advance: nudge the engine, unless a request is pending or
\* the table plans.
PlainAdvance(g) ==
    /\ task[g].pc = "decided" /\ task[g].decision = NoDecision
    /\ UNCHANGED <<status, agents, wake, permits, future>>
    /\ IF Runnable(g) /\ Stuck(match[g])
       THEN \/ \E m \in Advanced(match[g]) : Progress(g, m)
            \/ Fail(g) /\ UNCHANGED match
       ELSE Exit(g) /\ UNCHANGED <<match, lost>>

-----------------------------------------------------------------------------
Worker(g) ==
    \/ Look(g) \/ Build(g) \/ Compute(g)
    \/ StartSearch(g) \/ QueueTimeout(g) \/ SearchEnds(g) \/ SearchTimeout(g)
    \/ Fallback(g) \/ Apply(g) \/ PlainAdvance(g)

Next ==
    \/ \E g \in Games : \/ Worker(g) \/ Woken(g)
                        \/ HumanActs(g) \/ DeadlineActs(g)
                        \/ Hold(g) \/ Resume(g) \/ Remove(g)
    \/ \E f \in Futures : LateCompletion(f)

Spec == Init /\ [][Next]_vars

\* The event loop runs every task that can run, and timeouts fire.  Nothing
\* is assumed of humans, of deadlines, or of a search that was given up.
Fairness == \A g \in Games : WF_vars(Worker(g)) /\ WF_vars(Woken(g))

FairSpec == Spec /\ Fairness

-----------------------------------------------------------------------------
(* Properties. *)

\* Does the match wait for the coordinator?
Owes(g) ==
    /\ Runnable(g)
    /\ Owners(match[g]) # {} \/ Stuck(match[g])

Unattended(g) == task[g].pc = "none" /\ ~wake[g]

\* The step in which the worker of g changes the table by its decision.
Applies(g) == /\ task[g].decision # NoDecision
              /\ task'[g] # task[g] /\ match'[g] # match[g]

\* Every permit out is held by one running thread, however callers time out
\* or are cancelled: at most Concurrency searches run at any time.
PermitsKept ==
    permits + Cardinality({f \in Futures : future[f] # Nobody}) = Concurrency

\* A match waits unattended for its bots only after the worker's agent or the
\* engine failed, or after a wake-up came while the worker was busy finding
\* that there was nothing to do.
StrandedOnlyIfMissed == \A g \in Games : Unattended(g) /\ Owes(g) => lost[g] # "no"

\* An answer computed on a snapshot is applied in the turn of that snapshot.
\* (A planning decision carries no request and may outlive its turn.)
AnswersItsTurn ==
    [][\A g \in Games : Applies(g) /\ task[g].decision.request # 0 =>
          task[g].decision.turn = match[g].turn]_vars

\* Even if no search ever ends, each bot answers its prompts and plans its
\* turns, unless the worker failed or missed a wake-up.
BotsAct ==
    \A g \in Games :
        /\ \A i \in 1 .. MaxRequests + Cardinality(Heroes) :
             (Owes(g) /\ match[g].request.id = i)
               ~> (~Owes(g) \/ match[g].request.id # i \/ lost[g] # "no")
        /\ \A b \in Bots :
             (Owes(g) /\ match[g].phase = "PLANNING" /\ b \notin match[g].planned)
               ~> (~Owes(g) \/ match[g].phase # "PLANNING"
                     \/ b \in match[g].planned \/ lost[g] # "no")

=============================================================================
