------------------------------ MODULE MatchClock ------------------------------
(***************************************************************************)
(* A timed match on the server: who may decide, whose clock runs, and who  *)
(* decides when a clock runs dry.                                          *)
(*                                                                         *)
(* Every handler of a match (src/src/goa2/server: ws.py, routes_games.py,  *)
(* bots.py, time_control.py) runs under game.lock.  `job' is the handler   *)
(* that holds the lock and how far it got.  Time passes only where a       *)
(* handler waits or the engine computes: between handlers, between the     *)
(* acceptance of a decision and its finalize, and while a rewind replays.  *)
(*                                                                         *)
(* The rules engine is a nondeterministic environment: after a decision it *)
(* issues the next prompt, opens a turn, asks for upgrades or ends the     *)
(* match.  What it owes the clock is the table's phase, turn, planning and *)
(* pending request.                                                        *)
(***************************************************************************)
EXTENDS GameClock

CONSTANTS
    Teams,        \* the sets of heroes a "team:" request may address
    TwoCard,      \* heroes whose ultimate allows a second card
    Bots,         \* heroes driven by the server's bot coordinator
    Families,     \* override proposals the players make
    MaxTurn, MaxRequests,      \* bounds: turns of a match, prompts of a match
    MaxLag,                    \* bound: ticks between two settlements
    MaxOver,                   \* bound: overrun of an advisory clock
    MaxCrashes                 \* bound: restarts of the server

ASSUME MatchAssumption ==
    /\ Heroes # {} /\ IsFiniteSet(Heroes)
    /\ Teams \subseteq (SUBSET Heroes) \ {{}}
    /\ TwoCard \subseteq Heroes /\ Bots \subseteq Heroes
    /\ Families \subseteq {"pause", "patch", "rewind", "reveal_player"}
    /\ MaxTurn \in Nat \ {0} /\ MaxRequests \in Nat
    /\ MaxLag \in Nat /\ MaxOver \in Nat /\ MaxCrashes \in Nat

VARIABLES
    table,     \* GameState: phase, turn, planning, upgrades, pending request
    clock,     \* GameState.clock
    lag,       \* ticks since clock.last_settled_at_ms
    proposal,  \* family of ManagedGame.pending_override, or "none"
    timer,     \* ManagedGame.timer_task: is it sleeping, and for how long
    job,       \* the handler that holds ManagedGame.lock
    saved,     \* the file registry.save_game wrote last
    crashes,   \* history: restarts so far
    lastHuman  \* history: turn of the last human decision accepted while the
               \* match ran

vars == <<table, clock, lag, proposal, timer, job, saved, crashes, lastHuman>>

-----------------------------------------------------------------------------
(* The table. *)

Phases == {"PLANNING", "RESOLUTION", "LEVEL_UP", "GAME_OVER"}

\* What a hero did this turn: nothing; one card with the second still open;
\* one card, planning closed; two cards; passed with an empty hand.
Plans == {"none", "open", "one", "two", "passed"}

Request   == [id : Nat, to : SUBSET Heroes, team : BOOLEAN,
              owner : Heroes \cup {NoHero}]
NoRequest == [id |-> 0, to |-> {}, team |-> FALSE, owner |-> NoHero]

Table == [phase : Phases, turn : Nat, plan : [Heroes -> Plans],
          upgrades : SUBSET Heroes, request : Request,
          anchor : Request,    \* the prompt of the session's rollback snapshot
          nextId : Nat]

Fresh == [h \in Heroes |-> "none"]

StartTable == [phase |-> "PLANNING", turn |-> 1, plan |-> Fresh,
               upgrades |-> {}, request |-> NoRequest, anchor |-> NoRequest, nextId |-> 1]

PlanningComplete(t, h) == t.plan[h] \notin {"none", "open"}

\* Outcomes of running the engine.  A prompt carries a fresh id; its owner is
\* resolution_owner_id, NoHero between two hero turns.
Addressees == {[to |-> {h}, team |-> FALSE] : h \in Heroes}
                \cup {[to |-> T, team |-> TRUE] : T \in Teams}

Ask(t, p, anchor) ==
    [t EXCEPT !.phase = "RESOLUTION", !.plan = Fresh, !.nextId = @ + 1,
              !.request = p, !.anchor = anchor]

NewRequests(t) == {[id |-> t.nextId, to |-> who.to, team |-> who.team, owner |-> owner] :
                     who \in Addressees, owner \in Heroes \cup {NoHero}}

\* Where a ROLLBACK goes back to when p is asked: as before in the action of the
\* same hero, p itself, or nowhere (module Rollback has the rules).
Anchors(t, p) == IF p.team THEN {NoRequest}
                 ELSE {NoRequest, p} \cup {a \in {t.anchor} : a.owner = p.owner}

Prompts(t) ==
    IF t.nextId > MaxRequests THEN {}
    ELSE UNION {{Ask(t, p, a) : a \in Anchors(t, p)} : p \in NewRequests(t)}

\* A new turn; the heroes E, whose hand is empty, are passed at once.
NewTurn(t, n, E) ==
    [t EXCEPT !.phase = "PLANNING", !.turn = n, !.upgrades = {},
              !.request = NoRequest, !.anchor = NoRequest,
              !.plan = [h \in Heroes |-> IF h \in E THEN "passed" ELSE "none"]]

NewTurns(t) ==
    {NewTurn(t, n, E) : n \in t.turn + 1 .. MaxTurn, E \in (SUBSET Heroes) \ {Heroes}}

\* The round's end asks the heroes U for their upgrades, one request at a time.
Upgrades(t, U) ==
    IF t.nextId + Cardinality(U) <= MaxRequests + 1
    THEN {[t EXCEPT !.phase = "LEVEL_UP", !.plan = Fresh, !.upgrades = U,
                    !.nextId = @ + 1, !.anchor = NoRequest,
                    !.request = [NoRequest EXCEPT !.id = t.nextId]]}
    ELSE {}

Ends(t) == {[t EXCEPT !.phase = "GAME_OVER", !.plan = Fresh, !.upgrades = {},
                      !.request = NoRequest, !.anchor = NoRequest]}

EngineNext(t) ==
    Prompts(t) \cup NewTurns(t) \cup Ends(t)
      \cup UNION {Upgrades(t, U) : U \in (SUBSET Heroes) \ {{}}}

\* Mutant: a hero that passed keeps planning open.
MutPlan(t, h, plan) ==
    LET u == [t EXCEPT !.plan[h] = plan]
    IN IF \A g \in Heroes : u.plan[g] \in {"one", "two"} THEN EngineNext(u) ELSE {u}

\* _check_phase_transition: the last hero to close planning runs revelation.
Plan(t, h, plan) ==
    LET u == [t EXCEPT !.plan[h] = plan]
    IN IF \A g \in Heroes : PlanningComplete(u, g) THEN EngineNext(u) ELSE {u}

\* ResolveUpgradesStep: one upgrade of h; h may owe another one.
TakeUpgrade(t, h) ==
    LET rest == t.upgrades \ {h}
    IN Upgrades(t, t.upgrades)
         \cup (IF rest = {} THEN NewTurns(t) \cup Ends(t) ELSE Upgrades(t, rest))

\* All the upgrades h still owes (the while loop of the level-up timeout).
TakeAllUpgrades(t, h) ==
    LET rest == t.upgrades \ {h}
    IN IF rest = {} THEN NewTurns(t) \cup Ends(t) ELSE Upgrades(t, rest)

\* A card can be taken back, unless the clock committed it.
MayUncommit(t, locked, h) == h \notin locked /\ t.plan[h] \in {"open", "one", "two"}

\* An automatic answer is final.
Final(t) == [t EXCEPT !.anchor = NoRequest]

\* Who may ask for a rollback: current_responder, in the action of a hero.
Responds(t, h) == t.phase = "RESOLUTION" /\ ~t.request.team /\ h \in t.request.to

PlanningMsgs == {"commit", "pass", "finish", "uncommit"}

\* The tables a decision may lead to; none when the engine rejects it.
Decide(t, locked, h, msg, req) ==
    CASE msg = "commit" /\ t.phase = "PLANNING" /\ t.plan[h] = "none" ->
            UNION {Plan(t, h, p) : p \in {"one"} \cup (IF h \in TwoCard THEN {"open"} ELSE {})}
      [] msg = "commit" /\ t.phase = "PLANNING" /\ t.plan[h] = "open" ->
            Plan(t, h, "two")
      [] msg = "pass" /\ t.phase = "PLANNING" /\ t.plan[h] = "none" ->
            Plan(t, h, "passed")
      [] msg = "finish" /\ t.phase = "PLANNING" /\ t.plan[h] # "none" ->
            Plan(t, h, IF t.plan[h] = "open" THEN "one" ELSE t.plan[h])
      [] msg = "uncommit" /\ t.phase = "PLANNING" /\ MayUncommit(t, locked, h) ->
            {[t EXCEPT !.plan[h] = IF @ = "two" THEN "open" ELSE "none"]}
      [] msg = "edit" /\ t.phase = "PLANNING" -> {t}
      [] msg = "input" /\ t.phase = "RESOLUTION" /\ req = t.request.id
           /\ h \in t.request.to -> EngineNext(t)
      [] msg = "input" /\ t.phase = "LEVEL_UP" /\ req = t.request.id
           /\ h \in t.upgrades -> TakeUpgrade(t, h)
      [] msg = "rollback" /\ Responds(t, h) /\ t.anchor # NoRequest ->
            {[t EXCEPT !.request = t.anchor]}
      [] OTHER -> {}

-----------------------------------------------------------------------------
(* reconcile_game_clock, applied to a clock already settled. *)

\* The running targets of the current phase and pending request.
SetTargets(c, t) ==
    CASE t.phase = "PLANNING" ->
           LET active == {h \in Heroes : ~PlanningComplete(t, h) /\ h \notin c.locked}
           IN Activate(c, "PLANNING", active, active, 0)
      [] t.phase = "LEVEL_UP" ->
           Activate(BeginLevelUp(c), "LEVEL_UP", t.upgrades, t.upgrades, t.request.id)
      [] t.phase = "RESOLUTION" /\ t.request.team ->
           LET g       == GrantResponse(c, t.request.id, t.request.to)
               running == {h \in t.request.to : Usable(g.pool[h], "RESPONSE") > 0}
           IN Activate(g, "RESPONSE", IF running = {} THEN t.request.to ELSE running,
                       t.request.to, t.request.id)
      [] t.phase = "RESOLUTION" /\ ~t.request.team ->
           LET to    == t.request.to
               owner == t.request.owner
           IN IF owner \notin to \cup {NoHero}
              THEN Activate(GrantResponse(c, t.request.id, to), "RESPONSE", to, to,
                            t.request.id)
              ELSE Activate(IF owner \in to THEN GrantInitiativeBonus(c, owner) ELSE c,
                            "RESOLUTION", to, to, t.request.id)
      [] OTHER -> Idle(c)

\* Mutant: the counter ignores what the humans did.
MutAutomaticTurns(c, t) == IF c.turn = t.turn THEN c.auto ELSE c.auto + 1

\* A turn nobody touched counts towards the automatic turn limit.
AutomaticTurns(c, t) ==
    IF c.turn = t.turn THEN c.auto ELSE IF c.human THEN 0 ELSE c.auto + 1

Abandoned(c, t) ==
    /\ c.turn # t.turn
    /\ EnforceTimeouts /\ AutomaticTurnLimit > 0
    /\ AutomaticTurns(c, t) >= AutomaticTurnLimit

Reconcile(c, t, open) ==
    CASE c.status \in {"FINISHED", "UNTIMED"} -> c
      [] Held(c) -> Idle(c)
      [] ~Held(c) /\ c.status = "RUNNING" /\ t.phase = "GAME_OVER" -> FinishClock(c)
      [] c.status = "RUNNING" /\ t.phase # "GAME_OVER" /\ open -> Idle(c)
      [] OTHER ->
           LET counted == [c EXCEPT !.auto = AutomaticTurns(c, t)]
           IN IF Abandoned(c, t) THEN SuspendClock(counted)
              ELSE SetTargets(BeginSharedTurn(counted, t.turn), t)

-----------------------------------------------------------------------------
(* Handlers. *)

IdleJob == [pc |-> "idle", who |-> "nobody", hero |-> NoHero, msg |-> "none",
            req |-> 0, dry |-> FALSE, lost |-> FALSE, timed |-> FALSE,
            accepted |-> FALSE]

Job == [pc : {"idle", "due", "prepared", "apply", "rewind", "finish"},
        who : {"nobody", "client", "worker", "vote"},
        hero : Heroes \cup {NoHero},
        msg : PlanningMsgs \cup {"edit", "input", "rollback", "none", "pause", "patch", "rewind"},
        req : Nat, dry : BOOLEAN, lost : BOOLEAN, timed : BOOLEAN,
        accepted : BOOLEAN]

Open == proposal # "none"
Free == job.pc = "idle"
Settled == Settle(clock, lag)

NoTimer == [on |-> FALSE, left |-> 0]
\* Mutant: no deadline task is created.
MutDeadline(c) == NoTimer

Deadline(c) == IF NeedsDeadline(c) THEN [on |-> TRUE, left |-> Delay(c)] ELSE NoTimer

\* registry.save_game and schedule_deadline.
SaveAndSchedule(c, t) ==
    LET d == [c EXCEPT !.moved = FALSE]
    IN /\ clock' = d
       /\ timer' = Deadline(d)
       /\ saved' = [table |-> t, clock |-> d]

TypeOK ==
    /\ table \in Table /\ clock \in Clock /\ lag \in Nat
    /\ proposal \in {"none", "pause", "patch", "rewind", "reveal_player"}
    /\ timer \in [on : BOOLEAN, left : Nat] /\ job \in Job
    /\ saved \in [table : Table, clock : Clock]
    /\ crashes \in Nat /\ lastHuman \in Nat

Init ==
    /\ table = StartTable
    /\ clock = NewClock(1)
    /\ lag = 0 /\ proposal = "none" /\ timer = NoTimer /\ job = IdleJob
    /\ saved = [table |-> StartTable, clock |-> NewClock(1)]
    /\ crashes = 0 /\ lastHuman = 0

-----------------------------------------------------------------------------
(* prepare_timed_mutation and apply_due_timeouts. *)

\* Would the decision answer a clock that has already run dry?
AnswersDryClock(c, h, msg, req) ==
    /\ EnforceTimeouts /\ Charging(c)
    /\ h \in Exhausted(c)
    /\ \/ c.kind = "PLANNING" /\ msg \in PlanningMsgs
       \/ c.kind # "PLANNING" /\ msg = "input" /\ req = c.request
            /\ \A g \in c.deciders : Usable(c.pool[g], c.kind) = 0

\* Mutant: the elapsed time is not charged before the mutation.
MutClientBegin(h, msg, req) ==
    /\ Free /\ ~Held(clock)
    /\ lag' = 0
    /\ job' = [IdleJob EXCEPT !.pc = "due", !.who = "client", !.hero = h,
                              !.msg = msg, !.req = req]
    /\ UNCHANGED <<table, clock, proposal, timer, saved, crashes, lastHuman>>

\* A client mutation takes the lock; a held match refuses it before anything
\* happens.  The elapsed time is charged first.
ClientBegin(h, msg, req) ==
    /\ Free /\ ~Held(clock)
    /\ clock' = Settled /\ lag' = 0
    /\ job' = [IdleJob EXCEPT !.pc = "due", !.who = "client", !.hero = h,
                              !.msg = msg, !.req = req,
                              !.dry = AnswersDryClock(Settled, h, msg, req)]
    /\ UNCHANGED <<table, proposal, timer, saved, crashes, lastHuman>>

MustTimeOut == /\ EnforceTimeouts /\ clock.status = "RUNNING"
               /\ Exhausted(clock) # {}

\* The tables after the automatic decision for h.
TimeoutPlanning(h) ==
    IF table.plan[h] = "open" THEN Plan(table, h, "one")
    ELSE UNION {Plan(table, h, p) : p \in {"one", "passed"}}

\* client_decision_timed_out, for one emitted event.
Loses(kind, h) ==
    /\ job.who = "client"
    /\ \/ job.msg = "input" /\ kind # "PLANNING" /\ job.req = table.request.id
       \/ job.msg \in PlanningMsgs /\ kind = "PLANNING" /\ job.hero = h

\* One automatic decision, followed by its reconcile; the loop goes on while
\* `again' holds.
AfterTimeout(c, t, lost, again) ==
    /\ table' = t
    /\ clock' = Reconcile(c, t, Open)
    /\ job' = [job EXCEPT !.lost = @ \/ lost, !.timed = TRUE,
                          !.pc = IF again THEN "due" ELSE "prepared"]
    /\ UNCHANGED <<lag, proposal, timer, saved, crashes, lastHuman>>

PlanningTimeout(h) ==
    /\ job.pc = "due" /\ MustTimeOut /\ clock.kind = "PLANNING"
    /\ h \in Exhausted(clock)
    /\ LET c == [clock EXCEPT !.locked = @ \cup {h}]
       IN \E t \in TimeoutPlanning(h) :
            AfterTimeout(c, t, Loses("PLANNING", h),
                         Reconcile(c, t, Open).kind = "PLANNING")

LevelUpTimeout(h) ==
    /\ job.pc = "due" /\ MustTimeOut /\ clock.kind = "LEVEL_UP"
    /\ h \in Exhausted(clock)
    /\ \E t \in TakeAllUpgrades(table, h) :
         AfterTimeout(clock, t, Loses("LEVEL_UP", h),
                      Reconcile(clock, t, Open).kind = "LEVEL_UP")

AllDry == \A h \in table.request.to : Usable(clock.pool[h], "RESPONSE") = 0

\* A prompt is answered for its target; a team's only when every member is dry.
InputTimeout ==
    /\ job.pc = "due" /\ MustTimeOut /\ clock.kind \in {"RESOLUTION", "RESPONSE"}
    /\ table.request.team => AllDry
    /\ \E t \in EngineNext(Final(table)) :
         AfterTimeout(clock, t, Loses(clock.kind, NoHero),
                      /\ t.phase = "RESOLUTION"
                      /\ t.request.to = table.request.to
                      /\ t.request.team = table.request.team)

\* Some of the team ran dry: they stop, the others keep the request.
TeamPartlyDry ==
    /\ job.pc = "due" /\ MustTimeOut /\ clock.kind = "RESPONSE"
    /\ table.request.team /\ ~AllDry
    /\ clock' = Reconcile(clock, table, Open)
    /\ job' = [job EXCEPT !.pc = "prepared"]
    /\ UNCHANGED <<table, lag, proposal, timer, saved, crashes, lastHuman>>

NothingDue ==
    /\ job.pc = "due" /\ ~MustTimeOut
    /\ job' = [job EXCEPT !.pc = "prepared"]
    /\ UNCHANGED <<table, clock, lag, proposal, timer, saved, crashes, lastHuman>>

\* Mutant: an automatic decision is not saved before the client's is judged.
MutPrepared ==
    /\ job.pc = "prepared" /\ job.who \in {"client", "vote"}
    /\ clock' = Reconcile(clock, table, Open)
    /\ job' = [job EXCEPT !.pc = IF job.msg = "rewind" THEN "rewind" ELSE "apply"]
    /\ UNCHANGED <<table, lag, proposal, timer, saved, crashes, lastHuman>>

\* The end of prepare: reconcile; a timeout that was applied is saved and
\* rescheduled even if the decision that follows is refused.
Prepared ==
    /\ job.pc = "prepared" /\ job.who \in {"client", "vote"}
    /\ LET c == Reconcile(clock, table, Open)
       IN IF job.timed THEN SaveAndSchedule(c, table)
          ELSE clock' = c /\ UNCHANGED <<timer, saved>>
    /\ job' = [job EXCEPT !.pc = IF job.msg = "rewind" THEN "rewind" ELSE "apply"]
    /\ UNCHANGED <<table, lag, proposal, crashes, lastHuman>>

-----------------------------------------------------------------------------
(* The decision itself. *)

\* Mutant: the targets keep running while the engine computes.
MutStopForDecision(c, h, msg, req) == c

\* stop_clock_for_accepted_decision: the targets stop at the last settlement.  A
\* rollback stops those of the pending prompt.
StopForDecision(c, h, msg, req) ==
    IF /\ Charging(c)
       /\ \/ c.kind = "PLANNING" /\ msg \in PlanningMsgs
          \/ c.kind # "PLANNING" /\ msg = "input" /\ req = c.request /\ h \in c.deciders
          \/ c.kind # "PLANNING" /\ msg = "rollback" /\ h \in c.deciders
    THEN Activate(c, c.kind, {}, c.deciders, c.request)
    ELSE c

\* mark_human_action
MarkHuman(c) == IF c.status = "RUNNING" /\ ~c.human
                THEN [c EXCEPT !.human = TRUE, !.moved = TRUE] ELSE c

\* The websocket replies and is done; the REST handler still finalizes.
DecisionLost ==
    /\ job.pc = "apply" /\ job.who = "client" /\ job.lost
    /\ \/ job' = IdleJob
       \/ job' = [IdleJob EXCEPT !.pc = "finish"]
    /\ UNCHANGED <<table, clock, lag, proposal, timer, saved, crashes, lastHuman>>

DecisionAccepted ==
    /\ job.pc = "apply" /\ job.who = "client" /\ ~job.lost
    /\ \E t \in Decide(table, clock.locked, job.hero, job.msg, job.req) :
         /\ table' = t
         /\ clock' = MarkHuman(StopForDecision(clock, job.hero, job.msg, job.req))
    /\ lastHuman' = IF clock.status = "RUNNING" THEN table.turn ELSE lastHuman
    /\ job' = [IdleJob EXCEPT !.pc = "finish", !.accepted = job.msg # "edit"]
    /\ UNCHANGED <<lag, proposal, timer, saved, crashes>>

\* The engine may refuse a planning message or a rollback after the clocks were
\* stopped.
DecisionRefused ==
    /\ job.pc = "apply" /\ job.who = "client" /\ ~job.lost
    /\ Decide(table, clock.locked, job.hero, job.msg, job.req) = {}
    /\ \/ clock' = clock
       \/ /\ \/ job.msg \in PlanningMsgs /\ table.phase = "PLANNING"
             \/ job.msg = "rollback" /\ Responds(table, job.hero)
          /\ clock' = StopForDecision(clock, job.hero, job.msg, job.req)
    /\ job' = [IdleJob EXCEPT !.pc = "finish"]
    /\ UNCHANGED <<table, lag, proposal, timer, saved, crashes, lastHuman>>

\* Mutant: finalize saves and schedules without reconciling.
MutFinish ==
    /\ job.pc = "finish"
    /\ SaveAndSchedule(Settled, table)
    /\ lag' = 0 /\ job' = IdleJob
    /\ UNCHANGED <<table, proposal, crashes, lastHuman>>

\* finalize_timed_mutation: reconcile, save, schedule.
Finish ==
    /\ job.pc = "finish"
    /\ SaveAndSchedule(Reconcile(Settled, table, Open), table)
    /\ lag' = 0 /\ job' = IdleJob
    /\ UNCHANGED <<table, proposal, crashes, lastHuman>>

\* _apply_bot_decision: validated against the live table, stopped at the last
\* settlement, applied and finalized; no prepare_timed_mutation.
BotDecide(h, msg, req) ==
    /\ Free /\ clock.status \in {"RUNNING", "UNTIMED"}
    /\ \E t \in Decide(IF msg = "input" THEN Final(table) ELSE table,
                       clock.locked, h, msg, req) : table' = t
    /\ clock' = StopForDecision(clock, h, msg, req)
    /\ job' = [IdleJob EXCEPT !.pc = "finish", !.accepted = TRUE]
    /\ UNCHANGED <<lag, proposal, timer, saved, crashes, lastHuman>>

-----------------------------------------------------------------------------
(* Deadlines, ready checks, proposals, restarts, time. *)

\* The worker's sleep ended but the clock moved on since it was scheduled.
DeadlineStale ==
    /\ Free /\ timer.on /\ timer.left = 0
    /\ clock.moved \/ clock.status = "UNTIMED"
    /\ timer' = NoTimer
    /\ UNCHANGED <<table, clock, lag, proposal, job, saved, crashes, lastHuman>>

DeadlineFire ==
    /\ Free /\ timer.on /\ timer.left = 0
    /\ ~clock.moved /\ clock.status # "UNTIMED"
    /\ clock' = Settled /\ lag' = 0
    /\ job' = [IdleJob EXCEPT !.pc = "due", !.who = "worker"]
    /\ UNCHANGED <<table, proposal, timer, saved, crashes, lastHuman>>

\* Save and schedule the next one; processing time was not spent.
DeadlineDone ==
    /\ job.pc = "prepared" /\ job.who = "worker"
    /\ SaveAndSchedule(clock, table)
    /\ job' = IdleJob
    /\ UNCHANGED <<table, lag, proposal, crashes, lastHuman>>

\* set_player_ready, then auto_ready_bot_heroes, then finalize.
Resume(c, t) ==
    LET running == [c EXCEPT !.status = "RUNNING", !.moved = TRUE]
    IN IF c.status = "SUSPENDED_FOR_INACTIVITY"
       THEN BeginSharedTurn([running EXCEPT !.auto = 0], t.turn)
       ELSE running

SetReady(h, ready) ==
    /\ Free /\ Held(clock)
    /\ LET now  == IF ready THEN clock.ready \cup {h} \cup Bots ELSE clock.ready \ {h}
           c    == [clock EXCEPT !.ready = now, !.moved = TRUE]
           done == IF now = Heroes THEN Resume(c, table) ELSE c
       IN SaveAndSchedule(Reconcile(done, table, Open), table)
    /\ lag' = 0
    /\ UNCHANGED <<table, proposal, job, crashes, lastHuman>>

\* The websocket finalizes even when the match is already running.
SetReadyRefused ==
    /\ Free /\ ~Held(clock)
    /\ job' = [IdleJob EXCEPT !.pc = "finish"]
    /\ UNCHANGED <<table, clock, lag, proposal, timer, saved, crashes, lastHuman>>

\* PROPOSE_OVERRIDE pauses the personal clocks; nothing is saved.
Propose(family) ==
    /\ Free /\ ~Open
    /\ clock.status = "PAUSED" => family = "reveal_player"
    /\ family = "pause" => clock.status = "RUNNING"
    /\ proposal' = family
    /\ clock' = Reconcile(Settled, table, TRUE) /\ lag' = 0
    /\ UNCHANGED <<table, timer, job, saved, crashes, lastHuman>>

\* Rejected, cancelled or expired: reconcile and save, no new deadline.
ProposalDropped ==
    /\ Free /\ Open
    /\ proposal' = "none"
    /\ clock' = Reconcile(Settled, table, FALSE) /\ lag' = 0
    /\ saved' = [table |-> table, clock |-> [clock' EXCEPT !.moved = FALSE]]
    /\ UNCHANGED <<table, timer, job, crashes, lastHuman>>

\* An approved reveal_player only reconciles.
PlayerRevealed ==
    /\ Free /\ proposal = "reveal_player"
    /\ proposal' = "none"
    /\ clock' = Reconcile(Settled, table, FALSE) /\ lag' = 0
    /\ UNCHANGED <<table, timer, job, saved, crashes, lastHuman>>

\* Any other approved proposal prepares like a decision; when the match is
\* held, prepare raises and the proposal is gone.
ProposalApproved ==
    /\ Free /\ Open /\ proposal # "reveal_player"
    /\ proposal' = "none"
    /\ IF Held(clock) THEN UNCHANGED <<clock, lag, job>>
       ELSE /\ clock' = Settled /\ lag' = 0
            /\ job' = [IdleJob EXCEPT !.pc = "due", !.who = "vote", !.msg = proposal]
    /\ UNCHANGED <<table, timer, saved, crashes, lastHuman>>

ApplyPause ==
    /\ job.pc = "apply" /\ job.msg = "pause"
    /\ clock' = IF clock.status = "RUNNING" THEN PauseClock(clock) ELSE clock
    /\ job' = [IdleJob EXCEPT !.pc = "finish"]
    /\ UNCHANGED <<table, lag, proposal, timer, saved, crashes, lastHuman>>

\* A patch edits the board; outside Planning the engine runs again, and a
\* prompt that survives carries a new id.  A rejected patch changes nothing.
ApplyPatch ==
    /\ job.pc = "apply" /\ job.msg = "patch"
    /\ table' \in {table}
         \cup (IF table.phase = "RESOLUTION" THEN EngineNext(table) ELSE {})
         \cup (IF table.phase = "LEVEL_UP" THEN Upgrades(table, table.upgrades) ELSE {})
    /\ job' = [IdleJob EXCEPT !.pc = "finish"]
    /\ UNCHANGED <<clock, lag, proposal, timer, saved, crashes, lastHuman>>

\* The replay runs in a worker process; the session it returns has no clock.
\* Here every successful rewind goes back to decision 0.
RewindDone ==
    /\ job.pc = "rewind"
    /\ table' = StartTable
    /\ clock' = [clock EXCEPT !.status = "UNTIMED"]
    /\ job' = [IdleJob EXCEPT !.pc = "finish"]
    /\ UNCHANGED <<lag, proposal, timer, saved, crashes, lastHuman>>

RewindFailed ==
    /\ job.pc = "rewind"
    /\ job' = [IdleJob EXCEPT !.pc = "finish"]
    /\ UNCHANGED <<table, clock, lag, proposal, timer, saved, crashes, lastHuman>>

\* Mutant: the restored match runs without a deadline task.
MutRestartFrom(file) ==
    /\ crashes < MaxCrashes /\ crashes' = crashes + 1
    /\ table' = file.table
    /\ clock' = Reconcile(file.clock, file.table, FALSE)
    /\ timer' = NoTimer /\ saved' = [table |-> file.table, clock |-> clock']
    /\ lag' = 0 /\ proposal' = "none" /\ job' = IdleJob
    /\ UNCHANGED lastHuman

\* resume_timers on the restored file: the downtime is not charged.  The request
\* of the restored table has its id: GameStep.pending_request_id is in the file,
\* and process_stack gives it back to the prompt it derives again.
RestartFrom(file) ==
    /\ crashes < MaxCrashes /\ crashes' = crashes + 1
    /\ table' = file.table
    /\ SaveAndSchedule(Reconcile(file.clock, file.table, FALSE), file.table)
    /\ lag' = 0 /\ proposal' = "none" /\ job' = IdleJob
    /\ UNCHANGED lastHuman

Crash == RestartFrom(saved)

\* stop_timers settles and saves before the process ends.
Shutdown == Free /\ RestartFrom([table |-> table, clock |-> Settled])

Tick ==
    /\ job.pc \in {"idle", "rewind", "finish"}
    /\ lag < MaxLag
    /\ \A h \in Heroes : clock.pool[h]["overrun"] + lag <= MaxOver
    /\ lag' = IF Charging(clock) /\ clock.active # {} THEN lag + 1 ELSE lag
    /\ timer' = [timer EXCEPT !.left = IF @ > 0 THEN @ - 1 ELSE 0]
    /\ UNCHANGED <<table, clock, proposal, job, saved, crashes, lastHuman>>

-----------------------------------------------------------------------------
Client ==
    \E h \in Heroes \ Bots :
        \/ \E msg \in PlanningMsgs \cup {"edit", "rollback"} : ClientBegin(h, msg, 0)
        \/ \E req \in 1 .. table.nextId - 1 : ClientBegin(h, "input", req)

Bot ==
    \E h \in Bots :
        \/ \E msg \in {"commit", "pass", "finish"} :
             ~PlanningComplete(table, h) /\ BotDecide(h, msg, 0)
        \/ BotDecide(h, "input", table.request.id)

Timeouts == \/ \E h \in Heroes : PlanningTimeout(h) \/ LevelUpTimeout(h)
            \/ InputTimeout \/ TeamPartlyDry \/ NothingDue

\* What the holder of the lock does next.
Proceed == \/ Timeouts \/ Prepared
           \/ DecisionLost \/ DecisionAccepted \/ DecisionRefused
           \/ DeadlineDone \/ Finish
           \/ ApplyPause \/ ApplyPatch \/ RewindDone \/ RewindFailed

Proposals == \/ \E f \in Families : Propose(f)
             \/ ProposalDropped \/ PlayerRevealed \/ ProposalApproved

Ready == SetReadyRefused \/ \E h \in Heroes \ Bots, r \in BOOLEAN : SetReady(h, r)

Next == \/ Client \/ Bot \/ Ready \/ Proposals \/ Proceed
        \/ DeadlineStale \/ DeadlineFire \/ Crash \/ Shutdown \/ Tick

Spec == Init /\ [][Next]_vars

\* The holder of the lock runs to its end, time passes, and a worker that
\* waits for the lock gets it (asyncio.Lock is first come, first served).
Fairness == /\ WF_vars(Proceed)
            /\ SF_vars(Free /\ Tick) /\ SF_vars(DeadlineFire) /\ WF_vars(DeadlineStale)

FairSpec == Spec /\ Fairness

-----------------------------------------------------------------------------
(* Safety. *)

\* The targets a reader of the table expects to run, stated without the
\* reconcile that sets them.
Agrees(c, t) ==
    /\ c.turn = t.turn
    /\ t.phase # "GAME_OVER"
    /\ t.phase = "PLANNING" =>
         /\ c.kind = "PLANNING" /\ c.request = 0
         /\ c.active = {h \in Heroes \ c.locked : t.plan[h] \in {"none", "open"}}
         /\ c.deciders = c.active
    /\ t.phase = "LEVEL_UP" =>
         /\ c.kind = "LEVEL_UP" /\ c.request = t.request.id
         /\ c.active = t.upgrades /\ c.deciders = t.upgrades
    /\ t.phase = "RESOLUTION" =>
         /\ c.kind \in {"RESOLUTION", "RESPONSE"} /\ c.request = t.request.id
         /\ c.deciders = t.request.to
         /\ c.active # {} /\ c.active \subseteq t.request.to
         /\ t.request.team => c.kind = "RESPONSE"
         /\ c.kind = "RESPONSE" => t.request.id \in c.credited

\* Whenever the lock is free, the clocks that run are those of the players the
\* table waits for, and none runs while a proposal is open, in a held match or
\* after its end.
ClockAgrees ==
    /\ Free /\ clock.status = "RUNNING" /\ ~Open => Agrees(clock, table)
    /\ Free /\ clock.status # "UNTIMED" /\ (clock.status # "RUNNING" \/ Open) =>
         clock.active = {}

\* A running target always has a live deadline task, set for the tick at
\* which the first target runs dry (schedule_deadline).
DeadlineArmed ==
    Free /\ NeedsDeadline(clock) =>
        timer = [on |-> TRUE, left |-> Left(Delay(clock), lag)] /\ ~clock.moved

\* A player owes overrun or owns a bank, never both; the bank stays in its cap.
DebtOrBank ==
    \A h \in Heroes : /\ clock.pool[h]["overrun"] > 0 => clock.pool[h]["bank"] = 0
                      /\ clock.pool[h]["bank"] <= MaxBank

\* What the players have seen survives: a restart while the lock is free takes
\* back neither a decision nor an automatic one.
RestartKeepsDecisions ==
    [][crashes' # crashes /\ Free => table' = table]_vars

\* Restarts aside, no pool is refilled except by the grant that names it.
NoRefund ==
    [][crashes' = crashes /\ clock'.turn = clock.turn =>
        \A h \in Heroes :
            LET old == clock.pool[h]
                new == clock'.pool[h]
            IN /\ \A n \in {"planning", "resolution", "bank"} : new[n] <= old[n]
               /\ new["overrun"] >= old["overrun"]
               /\ new["response"] > old["response"] => clock'.credited # clock.credited
               /\ new["initiative"] > old["initiative"] => clock.bonus = NoHero
               /\ new["upgrade"] > old["upgrade"] => ~clock.levelUp]_vars

\* The elapsed time of a running target is charged to it before the target is
\* stopped or re-anchored.
ElapsedIsCharged ==
    [][crashes' = crashes /\ Charging(clock) =>
        \A h \in clock.active :
            lag > 0 /\ (lag' = 0 \/ h \notin clock'.active) =>
              \A k \in {clock.kind} :
                \/ clock'.pool[h] = Spend(clock.pool[h], k, lag)
                \/ <<clock'.turn, clock'.levelUp, clock'.credited, clock'.bonus>>
                     # <<clock.turn, clock.levelUp, clock.credited, clock.bonus>>]_vars

\* The engine's computation after an accepted decision is charged to nobody.
AcceptedDecisionIsFree ==
    [][crashes' = crashes /\ job.pc = "finish" /\ job.accepted =>
        \A h \in Heroes, n \in PoolNames :
            clock'.turn = clock.turn =>
              IF n = "overrun" THEN clock'.pool[h][n] <= clock.pool[h][n]
                               ELSE clock'.pool[h][n] >= clock.pool[h][n]]_vars

\* A paused match is frozen, pools included, until every hero is ready; so it is
\* across a restart between two handlers.
PauseHolds ==
    [][(crashes' = crashes \/ Free) /\ clock.status = "PAUSED" =>
        /\ table' = table /\ clock'.pool = clock.pool
        /\ clock'.status # "PAUSED" =>
             /\ clock'.status = "RUNNING" /\ clock'.turn = clock.turn
             /\ Heroes \ clock.ready \subseteq clock'.ready]_vars

\* Only an abandoned match is suspended: no human decision was accepted in the
\* last AutomaticTurnLimit turns. A crash may undo decisions that were not saved
\* yet, and these do not count, so it is stated of a server that did not crash.
SuspendedOnlyIfAbandoned ==
    [][crashes' = 0 /\ clock.status # "SUSPENDED_FOR_INACTIVITY"
         /\ clock'.status = "SUSPENDED_FOR_INACTIVITY" =>
            lastHuman' + AutomaticTurnLimit < table'.turn]_vars

-----------------------------------------------------------------------------
(* Liveness. *)

\* Whoever stays silent, a prompt the clocks run for is answered, and planning
\* ends even if no player ever commits.
SilenceIsOvertaken ==
    /\ \A id \in 1 .. MaxRequests :
          (clock.status = "RUNNING" /\ table.request.id = id) ~> (table.request.id # id)
    /\ \A n \in 1 .. MaxTurn :
          (clock.status = "RUNNING" /\ table.phase = "PLANNING" /\ table.turn = n)
            ~> (table.phase # "PLANNING" \/ table.turn # n)

=============================================================================
