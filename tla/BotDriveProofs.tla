---------------------------- MODULE BotDriveProofs ----------------------------
(***************************************************************************)
(* For any number of matches, bots, humans, searches and permits: the      *)
(* permits of the bounded searches are conserved, a match is left          *)
(* unattended only after a failure or a missed wake-up, and an answer to a *)
(* request is applied in the turn it was computed for.                     *)
(***************************************************************************)
EXTENDS BotDrive, FiniteSetTheorems, TLAPS

\* A worker waits for a search exactly while it is searching, and for its own.
OwnSearch ==
    \A g \in Games :
        /\ task[g].pc = "search" <=> task[g].future # Nobody
        /\ task[g].future # Nobody => future[task[g].future] = g

\* A worker that computes for a bot has its decision's hero; a worker about to
\* stop for want of work has not overlooked any.
Attended(g) ==
    /\ task[g].pc \in {"queue", "search", "fallback"} => task[g].decision # NoDecision
    /\ lost[g] = "no" /\ ~wake[g] =>
         /\ task[g].pc = "none" => ~Owes(g)
         /\ Idling(task[g]) => Owners(match[g]) = {}

AllAttended == \A g \in Games : Attended(g)

\* Requests are numbered, and no number comes back: a decision whose request
\* is still on the table was made in the turn of that table.
Timely(g) ==
    /\ match[g].request.id <= match[g].ids
    /\ task[g].pc = "none" => task[g].decision = NoDecision
    /\ task[g].decision.request # 0 =>
         /\ task[g].decision.request <= match[g].ids
         /\ match[g].request.id = task[g].decision.request =>
              task[g].decision.turn = match[g].turn

AllTimely == \A g \in Games : Timely(g)

IInv == TypeOK /\ OwnSearch /\ PermitsKept /\ AllAttended /\ AllTimely

-----------------------------------------------------------------------------
(* The engine's tables are tables. *)

LEMMA AdvancedType ==
    ASSUME NEW m \in Match
    PROVE  Advanced(m) \subseteq Match /\ Outcomes(m) \subseteq Match
<1>. USE DriveAssumption
<1>1. \A kind \in {"hero", "team", "upgrade"}, to \in SUBSET Heroes : Prompt(m, kind, to) \in Match
  BY DEF Prompt, Match, Request
<1>2. Prompts(m) \subseteq Match
  <2>1. \A h \in Heroes : Prompt(m, "hero", {h}) \in Match
    <3>. SUFFICES ASSUME NEW h \in Heroes PROVE Prompt(m, "hero", {h}) \in Match
      OBVIOUS
    <3>1. {h} \in SUBSET Heroes
      OBVIOUS
    <3>. QED BY <1>1, <3>1
  <2>2. \A T \in Teams : T \in SUBSET Heroes
    OBVIOUS
  <2>3. {Prompt(m, "hero", {h}) : h \in Heroes} \subseteq Match
    <3>. SUFFICES ASSUME NEW x \in {Prompt(m, "hero", {h}) : h \in Heroes} PROVE x \in Match
      OBVIOUS
    <3>1. PICK h \in Heroes : x = Prompt(m, "hero", {h})
      OBVIOUS
    <3>. QED BY <2>1, <3>1
  <2>4. {Prompt(m, "team", T) : T \in Teams} \subseteq Match
    <3>. SUFFICES ASSUME NEW T \in Teams PROVE Prompt(m, "team", T) \in Match
      OBVIOUS
    <3>. QED BY <1>1, <2>2
  <2>5. {Prompt(m, "upgrade", U) : U \in (SUBSET Heroes) \ {{}}} \subseteq Match
    BY <1>1
  <2>. QED BY <2>3, <2>4, <2>5 DEF Prompts
<1>3. Turns(m) \subseteq Match
  BY DEF Turns, Quiet, Match, Request, NoRequest
<1>4. Over(m) \in Match
  BY DEF Over, Quiet, Match, Request, NoRequest
<1>5. Unfinished(m) \in Match
  BY DEF Unfinished, Quiet, Match, Request, NoRequest
<1>. QED BY <1>2, <1>3, <1>4, <1>5 DEF Advanced, Outcomes

\* The decision of a hero leads to tables.
LEMMA DecideType ==
    ASSUME NEW m \in Match, NEW h \in Heroes
    PROVE  Decide(m, h) \subseteq Match
<1>1. \A all \in SUBSET Heroes : [m EXCEPT !.planned = all] \in Match
  BY DEF Match
<1>2. m.planned \cup {h} \in SUBSET Heroes
  BY DEF Match
<1>3. m.request.to \ {h} \in SUBSET Heroes
  BY DEF Match, Request
<1>4. Prompt(m, "upgrade", m.request.to \ {h}) \in Match
  BY <1>3 DEF Prompt, Match, Request
<1>5. CASE m.phase = "PLANNING" /\ h \notin m.planned
  <2>1. Decide(m, h) = IF m.planned \cup {h} = Heroes THEN Outcomes(m)
                       ELSE {[m EXCEPT !.planned = m.planned \cup {h}]}
    BY <1>5 DEF Decide
  <2>. QED BY <1>1, <1>2, <2>1, AdvancedType
<1>6. CASE m.phase = "RESOLUTION" /\ h \in m.request.to
  <2>1. Decide(m, h) = IF m.request.kind = "upgrade" /\ m.request.to # {h}
                       THEN {Prompt(m, "upgrade", m.request.to \ {h})} ELSE Outcomes(m)
    BY <1>6 DEF Decide
  <2>. QED BY <1>4, <2>1, AdvancedType
<1>7. CASE /\ ~(m.phase = "PLANNING" /\ h \notin m.planned)
           /\ ~(m.phase = "RESOLUTION" /\ h \in m.request.to)
  BY <1>7 DEF Decide
<1>. QED BY <1>5, <1>6, <1>7

\* What humans do to a table makes a table.
LEMMA HumanType ==
    ASSUME NEW m \in Match
    PROVE  HumanMoves(m) \subseteq Match
<1>1. \A h \in Humans : Decide(m, h) \subseteq Match
  BY DecideType DEF Heroes
<1>2. \A h \in Humans : [m EXCEPT !.planned = @ \ {h}] \in Match
  BY DEF Match
<1>3. Advanced(m) \subseteq Match
  BY AdvancedType
<1>. QED BY <1>1, <1>2, <1>3 DEF HumanMoves

-----------------------------------------------------------------------------
(* Types. *)

\* A worker that sleeps, or starts, is a worker.
LEMMA SleepType == Asleep \in Task /\ Awake \in Task
BY DEF Asleep, Awake, At, Task, Decision

\* Scheduling keeps the types of what it changes.
LEMMA ScheduleType ==
    ASSUME TypeOK, NEW g \in Games, Schedule(g)
    PROVE  /\ task' \in [Games -> Task]
           /\ lost' \in [Games -> {"no", "missed", "failed"}]
BY SleepType DEF TypeOK, Schedule

\* So do the worker's moves.
LEMMA MoveType ==
    ASSUME TypeOK, NEW g \in Games
    PROVE  /\ Exit(g) => task' \in [Games -> Task]
           /\ Fail(g) => task' \in [Games -> Task]
                          /\ lost' \in [Games -> {"no", "missed", "failed"}]
           /\ \A pc \in {"look", "build", "plain", "fallback", "decided"} :
                Step(g, pc) => task' \in [Games -> Task]
           /\ \A m \in Match : Progress(g, m) =>
                match' \in [Games -> Match] /\ task' \in [Games -> Task] /\ lost' = lost
<1>1. task[g] \in Task
  BY DEF TypeOK
<1>2. \A pc \in {"look", "build", "plain", "fallback", "decided"} :
         [task[g] EXCEPT !.pc = pc] \in Task
  BY <1>1 DEF Task
<1>. QED BY <1>1, <1>2, SleepType DEF TypeOK, Exit, Fail, Step, Progress

\* Every step keeps the types.
LEMMA TypeStep ==
    ASSUME TypeOK, OwnSearch, [Next]_vars
    PROVE  TypeOK'
<1>. USE DriveAssumption
<1>1. ASSUME NEW g \in Games, HumanActs(g) PROVE TypeOK'
  <2>1. HumanMoves(match[g]) \subseteq Match
    BY HumanType DEF TypeOK
  <2>. QED BY <1>1, <2>1, ScheduleType DEF TypeOK, HumanActs
<1>2. ASSUME NEW g \in Games, DeadlineActs(g) PROVE TypeOK'
  <2>1. \A h \in Heroes : Decide(match[g], h) \subseteq Match
    BY DecideType DEF TypeOK
  <2>. QED BY <1>2, <2>1 DEF TypeOK, DeadlineActs
<1>3. ASSUME NEW g \in Games, Woken(g) PROVE TypeOK'
  BY <1>3, ScheduleType DEF TypeOK, Woken
<1>4. ASSUME NEW g \in Games, Hold(g) PROVE TypeOK'
  BY <1>4 DEF TypeOK, Hold
<1>5. ASSUME NEW g \in Games, Resume(g) PROVE TypeOK'
  BY <1>5, ScheduleType DEF TypeOK, Resume
<1>6. ASSUME NEW g \in Games, Remove(g) PROVE TypeOK'
  BY <1>6, SleepType DEF TypeOK, Remove
<1>7. ASSUME NEW g \in Games, Look(g) PROVE TypeOK'
  <2>1. lost' \in [Games -> {"no", "missed", "failed"}]
    BY <1>7 DEF TypeOK, Look
  <2>2. \A b \in Owners(match[g]) :
          At(IF b \in Searchers THEN "queue" ELSE "plain",
             [hero |-> b, request |-> match[g].request.id, turn |-> match[g].turn], Nobody)
            \in Task
    <3>1. match[g].request.id \in Nat /\ match[g].turn \in Nat
      BY DEF TypeOK, Match, Request
    <3>2. Owners(match[g]) \subseteq Bots
      BY DEF Owners
    <3>. QED BY <3>1, <3>2 DEF Task, Decision, At
  <2>3. task' \in [Games -> Task]
    <3>1. CASE ~Runnable(g)
      BY <1>7, <3>1, MoveType DEF Look
    <3>2. CASE Runnable(g) /\ ~agents[g]
      BY <1>7, <3>2, MoveType DEF Look
    <3>3. CASE Runnable(g) /\ agents[g] /\ Owners(match[g]) = {}
      BY <1>7, <3>3, MoveType DEF Look
    <3>4. CASE Runnable(g) /\ agents[g] /\ Owners(match[g]) # {}
      <4>1. \E b \in Owners(match[g]) :
              task' = [task EXCEPT ![g] =
                 At(IF b \in Searchers THEN "queue" ELSE "plain",
                    [hero |-> b, request |-> match[g].request.id,
                     turn |-> match[g].turn], Nobody)]
        BY <1>7, <3>4 DEF Look
      <4>. QED BY <4>1, <2>2 DEF TypeOK
    <3>. QED BY <3>1, <3>2, <3>3, <3>4
  <2>. QED BY <1>7, <2>1, <2>3 DEF TypeOK, Look
<1>8. ASSUME NEW g \in Games, Build(g) PROVE TypeOK'
  BY <1>8, MoveType DEF TypeOK, Build
<1>9. ASSUME NEW g \in Games, Compute(g) PROVE TypeOK'
  BY <1>9, MoveType DEF TypeOK, Compute
<1>10. ASSUME NEW g \in Games, StartSearch(g) PROVE TypeOK'
  <2>1. \A f \in Futures : At("search", task[g].decision, f) \in Task
    BY DEF TypeOK, Task, At
  <2>. QED BY <1>10, <2>1 DEF TypeOK, StartSearch
<1>11. ASSUME NEW g \in Games, QueueTimeout(g) PROVE TypeOK'
  BY <1>11, MoveType DEF TypeOK, QueueTimeout
<1>12. ASSUME NEW g \in Games, SearchEnds(g) PROVE TypeOK'
  <2>1. \A pc \in {"decided", "fallback"} :
          At(pc, task[g].decision, Nobody) \in Task
    BY DEF TypeOK, Task, At
  <2>2. task[g].future \in Futures
    BY <1>12 DEF OwnSearch, TypeOK, Task, SearchEnds
  <2>. QED BY <1>12, <2>1, <2>2 DEF TypeOK, SearchEnds, Release
<1>13. ASSUME NEW g \in Games, SearchTimeout(g) PROVE TypeOK'
  <2>1. At("fallback", task[g].decision, Nobody) \in Task
    BY DEF TypeOK, Task, At
  <2>. QED BY <1>13, <2>1 DEF TypeOK, SearchTimeout
<1>14. ASSUME NEW g \in Games, Fallback(g) PROVE TypeOK'
  <2>1. At("decided", NoDecision, Nobody) \in Task
    BY DEF TypeOK, Task, Decision, At
  <2>. QED BY <1>14, <2>1, MoveType DEF TypeOK, Fallback
<1>15. ASSUME NEW g \in Games, Apply(g) PROVE TypeOK'
  <2>1. task[g].decision.hero \in Heroes
    BY <1>15 DEF Apply, TypeOK, Task, Decision, Heroes
  <2>2. Decide(match[g], task[g].decision.hero) \subseteq Match
    BY <2>1, DecideType DEF TypeOK
  <2>3. CASE ~Runnable(g)
    BY <1>15, <2>3, MoveType DEF TypeOK, Apply
  <2>4. CASE Runnable(g) /\ ~StillValid(match[g], task[g].decision)
    BY <1>15, <2>4, SleepType DEF TypeOK, Apply
  <2>5. CASE Runnable(g) /\ StillValid(match[g], task[g].decision)
    <3>1. \/ \E m \in Decide(match[g], task[g].decision.hero) : Progress(g, m)
          \/ Fail(g) /\ UNCHANGED match
      BY <1>15, <2>5 DEF Apply
    <3>. QED BY <1>15, <3>1, <2>2, MoveType DEF TypeOK, Apply
  <2>. QED BY <2>3, <2>4, <2>5
<1>16. ASSUME NEW g \in Games, PlainAdvance(g) PROVE TypeOK'
  <2>1. Advanced(match[g]) \subseteq Match
    BY AdvancedType DEF TypeOK
  <2>. QED BY <1>16, <2>1, MoveType DEF TypeOK, PlainAdvance
<1>17. ASSUME NEW f \in Futures, LateCompletion(f) PROVE TypeOK'
  BY <1>17 DEF TypeOK, LateCompletion, Release
<1>18. CASE UNCHANGED vars
  BY <1>18 DEF TypeOK, vars
<1>. QED
  BY <1>1, <1>2, <1>3, <1>4, <1>5, <1>6, <1>7, <1>8, <1>9, <1>10, <1>11, <1>12,
     <1>13, <1>14, <1>15, <1>16, <1>17, <1>18 DEF Next, Worker

-----------------------------------------------------------------------------
(* Permits. *)

\* A permit moves only with a search that starts or ends.
LEMMA PermitMoves ==
    ASSUME TypeOK, PermitsKept, IsFiniteSet(Futures),
           NEW f \in Futures, NEW g \in Games, Nobody \notin Games
    PROVE  /\ permits > 0 /\ future[f] = Nobody
                /\ permits' = permits - 1 /\ future' = [future EXCEPT ![f] = g]
                => PermitsKept'
           /\ future[f] # Nobody /\ Release(f) => PermitsKept'
<1>. DEFINE B == {e \in Futures : future[e] # Nobody}
<1>1. IsFiniteSet(B)
  BY FS_Subset
<1>2. permits \in Nat /\ permits + Cardinality(B) = Concurrency
  BY DEF TypeOK, PermitsKept
<1>3. ASSUME permits > 0, future[f] = Nobody,
             permits' = permits - 1, future' = [future EXCEPT ![f] = g]
      PROVE  PermitsKept'
  <2>1. {e \in Futures : future'[e] # Nobody} = B \cup {f}
    BY <1>3 DEF TypeOK
  <2>2. Cardinality(B \cup {f}) = Cardinality(B) + 1
    BY <1>1, <1>3, FS_AddElement
  <2>3. Cardinality(B) \in Nat
    BY <1>1, FS_CardinalityType
  <2>4. permits' + Cardinality(B \cup {f}) = Concurrency
    BY <1>2, <1>3, <2>2, <2>3
  <2>. QED BY <2>1, <2>4 DEF PermitsKept
<1>4. ASSUME future[f] # Nobody, Release(f)
      PROVE  PermitsKept'
  <2>1. {e \in Futures : future'[e] # Nobody} = B \ {f}
    BY <1>4 DEF TypeOK, Release
  <2>2. Cardinality(B \ {f}) = Cardinality(B) - 1
    BY <1>1, <1>4, FS_RemoveElement
  <2>3. Cardinality(B) \in Nat
    BY <1>1, FS_CardinalityType
  <2>4. permits' + Cardinality(B \ {f}) = Concurrency
    BY <1>2, <1>4, <2>2, <2>3 DEF Release
  <2>. QED BY <2>1, <2>4 DEF PermitsKept
<1>. QED BY <1>3, <1>4

\* No worker begins, or goes on to, a search it did not wait for.
Calm ==
    \A k \in Games : \/ task'[k] = task[k]
                     \/ task'[k].pc # "search" /\ task'[k].future = Nobody

\* The searches of a calm step are those of before.
LEMMA CalmKeeps ==
    ASSUME PermitsKept, OwnSearch, Calm, UNCHANGED <<permits, future>>
    PROVE  PermitsKept' /\ OwnSearch'
<1>1. PermitsKept'
  BY DEF PermitsKept
<1>2. ASSUME NEW k \in Games
      PROVE  /\ task'[k].pc = "search" <=> task'[k].future # Nobody
             /\ task'[k].future # Nobody => future'[task'[k].future] = k
  <2>1. CASE task'[k] = task[k]
    BY <2>1 DEF OwnSearch
  <2>2. CASE task'[k].pc # "search" /\ task'[k].future = Nobody
    BY <2>2
  <2>. QED BY <2>1, <2>2 DEF Calm
<1>. QED BY <1>1, <1>2 DEF OwnSearch

\* The worker's moves that are calm: all but the start of a search.
LEMMA CalmMoves ==
    ASSUME TypeOK, OwnSearch, NEW g \in Games
    PROVE  /\ \A t : t.pc # "search" /\ t.future = Nobody
                       /\ task' = [task EXCEPT ![g] = t] => Calm
           /\ UNCHANGED task => Calm
           /\ Exit(g) => Calm
           /\ Fail(g) => Calm
           /\ Schedule(g) => Calm
           /\ \A pc : pc # "search" /\ task[g].pc # "search" /\ Step(g, pc) => Calm
           /\ \A m : Progress(g, m) => Calm
<1>1. ASSUME NEW t, t.pc # "search", t.future = Nobody, task' = [task EXCEPT ![g] = t]
      PROVE  Calm
  <2>. SUFFICES ASSUME NEW k \in Games
                PROVE  \/ task'[k] = task[k]
                       \/ task'[k].pc # "search" /\ task'[k].future = Nobody
    BY DEF Calm
  <2>1. CASE k = g
    BY <1>1, <2>1 DEF TypeOK
  <2>2. CASE k # g
    BY <1>1, <2>2 DEF TypeOK
  <2>. QED BY <2>1, <2>2
<1>2. UNCHANGED task => Calm
  BY DEF Calm
<1>3. /\ Asleep.pc # "search" /\ Asleep.future = Nobody
      /\ Awake.pc # "search" /\ Awake.future = Nobody
  BY DEF Asleep, Awake, At
<1>4. Exit(g) => Calm
  BY <1>1, <1>3 DEF Exit
<1>5. Fail(g) => Calm
  BY <1>4 DEF Fail
<1>6. Schedule(g) => Calm
  BY <1>1, <1>2, <1>3 DEF Schedule
<1>7. ASSUME NEW pc, pc # "search", task[g].pc # "search", Step(g, pc)
      PROVE  Calm
  <2>. DEFINE t == [task[g] EXCEPT !.pc = pc]
  <2>1. t.pc # "search" /\ t.future = Nobody
    BY <1>7 DEF OwnSearch, TypeOK, Task
  <2>2. task' = [task EXCEPT ![g] = t]
    BY <1>7 DEF Step
  <2>. QED BY <1>1, <2>1, <2>2
<1>8. ASSUME NEW m, Progress(g, m)
      PROVE  Calm
  <2>1. CASE m.phase = "GAME_OVER"
    BY <1>1, <1>3, <1>8, <2>1 DEF Progress
  <2>2. CASE m.phase # "GAME_OVER"
    BY <1>1, <1>3, <1>8, <2>2 DEF Progress
  <2>. QED BY <2>1, <2>2
<1>. QED BY <1>1, <1>2, <1>4, <1>5, <1>6, <1>7, <1>8

\* Every step keeps the permits, and each worker to its own search.
LEMMA PermitStep ==
    ASSUME TypeOK, OwnSearch, PermitsKept, [Next]_vars
    PROVE  PermitsKept' /\ OwnSearch'
<1>. USE DriveAssumption
<1>1. ASSUME NEW g \in Games, StartSearch(g) PROVE PermitsKept' /\ OwnSearch'
  <2>1. PICK f \in Futures :
          /\ future[f] = Nobody /\ future' = [future EXCEPT ![f] = g]
          /\ task' = [task EXCEPT ![g] = At("search", task[g].decision, f)]
    BY <1>1 DEF StartSearch
  <2>2. PermitsKept'
    BY <1>1, <2>1, PermitMoves DEF StartSearch
  <2>3. \A k \in Games : k # g => task'[k] = task[k] /\ task[k].future # f
    BY <2>1 DEF TypeOK, OwnSearch
  <2>4. task'[g].pc = "search" /\ task'[g].future = f /\ f # Nobody
    BY <2>1 DEF TypeOK, At
  <2>. QED BY <2>1, <2>2, <2>3, <2>4 DEF OwnSearch, TypeOK
<1>2. ASSUME NEW g \in Games, SearchEnds(g) PROVE PermitsKept' /\ OwnSearch'
  <2>1. task[g].future \in Futures /\ future[task[g].future] = g
    BY <1>2 DEF OwnSearch, TypeOK, Task, SearchEnds
  <2>2. PermitsKept'
    BY <1>2, <2>1, PermitMoves DEF SearchEnds
  <2>3. \A k \in Games : k # g => task'[k] = task[k] /\ task[k].future # task[g].future
    BY <1>2, <2>1 DEF TypeOK, OwnSearch, SearchEnds
  <2>4. task'[g].pc # "search" /\ task'[g].future = Nobody
    BY <1>2 DEF SearchEnds, TypeOK, At
  <2>. QED BY <1>2, <2>1, <2>2, <2>3, <2>4 DEF OwnSearch, TypeOK, SearchEnds, Release
<1>3. ASSUME NEW f \in Futures, LateCompletion(f) PROVE PermitsKept' /\ OwnSearch'
  <2>1. PermitsKept'
    BY <1>3, PermitMoves DEF LateCompletion, TypeOK
  <2>. QED BY <1>3, <2>1 DEF OwnSearch, TypeOK, LateCompletion, Release
<1>4. ASSUME NEW g \in Games,
             \/ HumanActs(g) \/ DeadlineActs(g) \/ Woken(g) \/ Hold(g) \/ Resume(g) \/ Remove(g)
      PROVE  PermitsKept' /\ OwnSearch'
  <2>1. UNCHANGED task \/ Schedule(g) \/ Exit(g)
    BY <1>4 DEF HumanActs, DeadlineActs, Woken, Hold, Resume, Remove, Exit
  <2>2. UNCHANGED <<permits, future>>
    BY <1>4 DEF HumanActs, DeadlineActs, Woken, Hold, Resume, Remove
  <2>3. Calm
    BY <2>1, CalmMoves
  <2>. QED BY <2>2, <2>3, CalmKeeps
<1>5. ASSUME NEW g \in Games, Look(g) PROVE PermitsKept' /\ OwnSearch'
  <2>1. task[g].pc # "search" /\ UNCHANGED <<permits, future>>
    BY <1>5 DEF Look
  <2>2. CASE Exit(g) \/ Step(g, "build") \/ Step(g, "plain")
    BY <2>1, <2>2, CalmMoves, CalmKeeps
  <2>3. CASE \E pc \in {"queue", "plain"} : \E d : task' = [task EXCEPT ![g] = At(pc, d, Nobody)]
    <3>1. PICK pc \in {"queue", "plain"} :
            \E d : task' = [task EXCEPT ![g] = At(pc, d, Nobody)]
      BY <2>3
    <3>2. PICK d : task' = [task EXCEPT ![g] = At(pc, d, Nobody)]
      BY <3>1
    <3>3. At(pc, d, Nobody).pc # "search" /\ At(pc, d, Nobody).future = Nobody
      BY DEF At
    <3>4. Calm
      BY <3>2, <3>3, CalmMoves
    <3>. QED BY <2>1, <3>4, CalmKeeps
  <2>4. \/ Exit(g) \/ Step(g, "build") \/ Step(g, "plain")
        \/ \E pc \in {"queue", "plain"} : \E d : task' = [task EXCEPT ![g] = At(pc, d, Nobody)]
    <3>1. CASE ~Runnable(g)
      BY <1>5, <3>1 DEF Look
    <3>2. CASE Runnable(g) /\ ~agents[g]
      BY <1>5, <3>2 DEF Look
    <3>3. CASE Runnable(g) /\ agents[g] /\ Owners(match[g]) = {}
      BY <1>5, <3>3 DEF Look
    <3>4. CASE Runnable(g) /\ agents[g] /\ Owners(match[g]) # {}
      <4>1. PICK b : task' = [task EXCEPT ![g] =
                       At(IF b \in Searchers THEN "queue" ELSE "plain",
                          [hero |-> b, request |-> match[g].request.id,
                           turn |-> match[g].turn], Nobody)]
        BY <1>5, <3>4 DEF Look
      <4>2. (IF b \in Searchers THEN "queue" ELSE "plain") \in {"queue", "plain"}
        OBVIOUS
      <4>. QED BY <4>1, <4>2
    <3>. QED BY <3>1, <3>2, <3>3, <3>4
  <2>. QED BY <2>2, <2>3, <2>4
<1>6. ASSUME NEW g \in Games, Build(g) \/ Compute(g) \/ QueueTimeout(g)
      PROVE  PermitsKept' /\ OwnSearch'
  <2>1. UNCHANGED <<permits, future>>
    BY <1>6 DEF Build, Compute, QueueTimeout
  <2>2. \/ Exit(g) \/ Fail(g)
        \/ /\ task[g].pc # "search"
           /\ Step(g, "look") \/ Step(g, "decided") \/ Step(g, "fallback")
    BY <1>6 DEF Build, Compute, QueueTimeout
  <2>3. Calm
    BY <2>2, CalmMoves
  <2>. QED BY <2>1, <2>3, CalmKeeps
<1>7. ASSUME NEW g \in Games, SearchTimeout(g) \/ Fallback(g)
      PROVE  PermitsKept' /\ OwnSearch'
  <2>1. UNCHANGED <<permits, future>>
    BY <1>7 DEF SearchTimeout, Fallback
  <2>2. \/ task[g].pc # "search" /\ Step(g, "decided")
        \/ \E pc \in {"fallback", "decided"} : \E d :
             task' = [task EXCEPT ![g] = At(pc, d, Nobody)]
    BY <1>7 DEF SearchTimeout, Fallback
  <2>3. \A pc \in {"fallback", "decided"} : \A d :
          At(pc, d, Nobody).pc # "search" /\ At(pc, d, Nobody).future = Nobody
    BY DEF At
  <2>4. Calm
    BY <2>2, <2>3, CalmMoves
  <2>. QED BY <2>1, <2>4, CalmKeeps
<1>8. ASSUME NEW g \in Games, Apply(g) \/ PlainAdvance(g) PROVE PermitsKept' /\ OwnSearch'
  <2>1. UNCHANGED <<permits, future>>
    BY <1>8 DEF Apply, PlainAdvance
  <2>2. Exit(g) \/ Fail(g) \/ task' = [task EXCEPT ![g] = Awake] \/ \E m : Progress(g, m)
    BY <1>8 DEF Apply, PlainAdvance
  <2>3. Awake.pc # "search" /\ Awake.future = Nobody
    BY DEF Awake, At
  <2>4. Calm
    BY <2>2, <2>3, CalmMoves
  <2>. QED BY <2>1, <2>4, CalmKeeps
<1>9. CASE UNCHANGED vars
  <2>1. Calm /\ UNCHANGED <<permits, future>>
    BY <1>9 DEF vars, Calm
  <2>. QED BY <2>1, CalmKeeps
<1>. QED
  BY <1>1, <1>2, <1>3, <1>4, <1>5, <1>6, <1>7, <1>8, <1>9 DEF Next, Worker

-----------------------------------------------------------------------------
(* Nobody is left waiting. *)

\* A wake-up leaves no work overlooked, or is noted as missed.
LEMMA ScheduleAttends ==
    ASSUME TypeOK, AllAttended, NEW g \in Games, Schedule(g)
    PROVE  Attended(g)'
<1>1. CASE Runnable(g)' /\ task[g].pc = "none"
  <2>1. task'[g] = Awake
    BY <1>1 DEF Schedule, TypeOK
  <2>. QED BY <2>1 DEF Attended, Idling, Awake, At
<1>2. CASE ~(Runnable(g)' /\ task[g].pc = "none")
  <2>1. task' = task /\ lost' = [lost EXCEPT ![g] =
           IF @ = "no" /\ Idling(task[g]) THEN "missed" ELSE @]
    BY <1>2 DEF Schedule
  <2>2. lost'[g] = "no" => ~Idling(task[g])
    BY <2>1 DEF TypeOK
  <2>3. task[g].pc = "none" => ~Owes(g)'
    BY <1>2 DEF Owes
  <2>. QED BY <2>1, <2>2, <2>3 DEF Attended, AllAttended, Idling
<1>. QED BY <1>1, <1>2

\* A worker that stops on a table that owes nothing, or after a failure.
LEMMA StopAttends ==
    ASSUME TypeOK, NEW g \in Games,
           \/ Exit(g) /\ ~Owes(g)'
           \/ Fail(g)
    PROVE  Attended(g)'
<1>1. task'[g] = Asleep
  BY DEF TypeOK, Exit, Fail
<1>2. lost'[g] = "no" => ~Owes(g)'
  BY DEF TypeOK, Exit, Fail
<1>. QED BY <1>1, <1>2 DEF Attended, Asleep, At, Idling

\* A worker that looks (again) overlooks nothing.
LEMMA LookAttends ==
    ASSUME TypeOK, NEW g \in Games, task' = [task EXCEPT ![g] = Awake]
    PROVE  Attended(g)'
<1>1. task'[g] = Awake
  BY DEF TypeOK
<1>. QED BY <1>1 DEF Attended, Awake, At, Idling

\* The engine ran: the worker looks again, unless the match is over.
LEMMA ProgressAttends ==
    ASSUME TypeOK, NEW g \in Games, NEW m, Progress(g, m)
    PROVE  Attended(g)'
<1>1. match'[g] = m
  BY DEF TypeOK, Progress
<1>2. CASE m.phase = "GAME_OVER"
  <2>1. ~Owes(g)'
    BY <1>1, <1>2 DEF Owes, Runnable
  <2>. QED BY <1>2, <2>1, StopAttends DEF Progress, Exit
<1>3. CASE m.phase # "GAME_OVER"
  BY <1>3, LookAttends DEF Progress
<1>. QED BY <1>2, <1>3

\* The step leaves every match but g alone.
Only(g) ==
    \A k \in Games \ {g} :
        /\ match'[k] = match[k] /\ status'[k] = status[k] /\ task'[k] = task[k]
        /\ wake'[k] = wake[k] /\ lost'[k] = lost[k]

\* What a step leaves alone stays attended.
LEMMA OnlyAttended ==
    ASSUME AllAttended, NEW g, Only(g), g \in Games => Attended(g)'
    PROVE  AllAttended'
<1>. SUFFICES ASSUME NEW k \in Games, k # g PROVE Attended(k)'
  BY DEF AllAttended
<1>1. Attended(k)
  BY DEF AllAttended
<1>. QED BY <1>1 DEF Only, Attended, Owes, Runnable, Idling

\* Every step leaves every match attended.
LEMMA AttendStep ==
    ASSUME TypeOK, OwnSearch, AllAttended, [Next]_vars
    PROVE  AllAttended'
<1>. USE DriveAssumption
<1>1. ASSUME NEW g \in Games, HumanActs(g) \/ Woken(g) \/ Resume(g) PROVE AllAttended'
  <2>1. Attended(g)'
    BY <1>1, ScheduleAttends DEF HumanActs, Woken, Resume
  <2>2. Only(g)
    BY <1>1 DEF TypeOK, Only, HumanActs, Woken, Resume, Schedule
  <2>. QED BY <2>1, <2>2, OnlyAttended
<1>2. ASSUME NEW g \in Games, DeadlineActs(g) PROVE AllAttended'
  <2>1. wake'[g] /\ task' = task
    BY <1>2 DEF DeadlineActs, TypeOK
  <2>2. Attended(g)'
    BY <2>1 DEF Attended, AllAttended
  <2>3. Only(g)
    BY <1>2 DEF TypeOK, Only, DeadlineActs
  <2>. QED BY <2>2, <2>3, OnlyAttended
<1>3. ASSUME NEW g \in Games, Hold(g) PROVE AllAttended'
  <2>1. ~Owes(g)'
    BY <1>3 DEF Hold, Owes, Runnable, TypeOK
  <2>2. UNCHANGED <<match, wake, task, lost>>
    BY <1>3 DEF Hold
  <2>3. Attended(g)'
    BY <2>1, <2>2 DEF Attended, AllAttended, Idling
  <2>4. Only(g)
    BY <1>3 DEF TypeOK, Only, Hold
  <2>. QED BY <2>3, <2>4, OnlyAttended
<1>4. ASSUME NEW g \in Games, Remove(g) PROVE AllAttended'
  <2>1. ~Owes(g)'
    BY <1>4 DEF Remove, Owes, Runnable, TypeOK
  <2>2. Attended(g)'
    BY <1>4, <2>1, StopAttends DEF Remove, Exit
  <2>3. Only(g)
    BY <1>4 DEF TypeOK, Only, Remove
  <2>. QED BY <2>2, <2>3, OnlyAttended
<1>5. ASSUME NEW g \in Games, Look(g) PROVE AllAttended'
  <2>1. CASE ~Runnable(g)
    <3>1. ~Owes(g)' /\ Exit(g)
      BY <1>5, <2>1 DEF Look, Owes, Runnable
    <3>2. Only(g)
      BY <1>5, <3>1 DEF TypeOK, Only, Look, Exit
    <3>. QED BY <3>1, <3>2, StopAttends, OnlyAttended
  <2>2. CASE Runnable(g) /\ ~agents[g]
    <3>1. Step(g, "build")
      BY <1>5, <2>2 DEF Look
    <3>2. task'[g].pc = "build"
      BY <3>1 DEF Step, TypeOK, Task
    <3>3. Attended(g)'
      BY <3>2 DEF Attended, Idling
    <3>4. Only(g)
      BY <1>5, <3>1 DEF TypeOK, Only, Look, Step
    <3>. QED BY <3>3, <3>4, OnlyAttended
  <2>3. CASE Runnable(g) /\ agents[g] /\ Owners(match[g]) = {}
    <3>1. Step(g, "plain") /\ UNCHANGED match
      BY <1>5, <2>3 DEF Look
    <3>2. task'[g].pc = "plain" /\ Owners(match[g])' = {}
      BY <3>1, <2>3 DEF Step, TypeOK, Task
    <3>3. Attended(g)'
      BY <3>2 DEF Attended, Idling
    <3>4. Only(g)
      BY <1>5, <3>1 DEF TypeOK, Only, Look, Step
    <3>. QED BY <3>3, <3>4, OnlyAttended
  <2>4. CASE Runnable(g) /\ agents[g] /\ Owners(match[g]) # {}
    <3>1. PICK b \in Owners(match[g]) :
            task' = [task EXCEPT ![g] =
               At(IF b \in Searchers THEN "queue" ELSE "plain",
                  [hero |-> b, request |-> match[g].request.id,
                   turn |-> match[g].turn], Nobody)]
      BY <1>5, <2>4 DEF Look
    <3>2. b # Nobody
      BY DEF Owners, Heroes
    <3>3. /\ task'[g].pc \in {"queue", "plain"}
          /\ task'[g].decision.hero = b
      BY <3>1 DEF TypeOK, At
    <3>4. Attended(g)'
      BY <3>2, <3>3 DEF Attended, Idling, NoDecision
    <3>5. Only(g)
      BY <1>5, <3>1 DEF TypeOK, Only, Look
    <3>. QED BY <3>4, <3>5, OnlyAttended
  <2>. QED BY <2>1, <2>2, <2>3, <2>4
<1>6. ASSUME NEW g \in Games, Build(g) PROVE AllAttended'
  <2>1. Only(g)
    BY <1>6 DEF TypeOK, Only, Build, Fail, Exit, Step
  <2>2. CASE Fail(g)
    BY <2>1, <2>2, StopAttends, OnlyAttended
  <2>3. CASE Runnable(g) /\ Step(g, "look")
    <3>1. task'[g].pc = "look"
      BY <2>3 DEF Step, TypeOK, Task
    <3>2. Attended(g)'
      BY <3>1 DEF Attended, Idling
    <3>. QED BY <2>1, <3>2, OnlyAttended
  <2>4. CASE ~Runnable(g) /\ Exit(g)
    <3>1. ~Owes(g)'
      BY <1>6, <2>4 DEF Build, Owes, Runnable
    <3>. QED BY <2>1, <2>4, <3>1, StopAttends, OnlyAttended
  <2>. QED BY <1>6, <2>2, <2>3, <2>4 DEF Build
<1>7. ASSUME NEW g \in Games, Compute(g) PROVE AllAttended'
  <2>1. Only(g)
    BY <1>7 DEF TypeOK, Only, Compute, Fail, Exit, Step
  <2>2. CASE Fail(g)
    BY <2>1, <2>2, StopAttends, OnlyAttended
  <2>3. CASE Step(g, "decided") /\ UNCHANGED lost
    <3>1. task'[g].pc = "decided" /\ task'[g].decision = task[g].decision
      BY <2>3 DEF Step, TypeOK, Task
    <3>2. task[g].pc = "plain" /\ UNCHANGED <<match, wake, lost>>
      BY <1>7, <2>3 DEF Compute
    <3>3. Attended(g)'
      BY <3>1, <3>2 DEF Attended, AllAttended, Idling
    <3>. QED BY <2>1, <3>3, OnlyAttended
  <2>. QED BY <1>7, <2>2, <2>3 DEF Compute
<1>8. ASSUME NEW g \in Games,
             StartSearch(g) \/ QueueTimeout(g) \/ SearchEnds(g) \/ SearchTimeout(g)
      PROVE  AllAttended'
  <2>1. Only(g)
    BY <1>8 DEF TypeOK, Only, StartSearch, QueueTimeout, SearchEnds, SearchTimeout, Step
  <2>2. /\ task[g].pc \in {"queue", "search"}
        /\ task'[g].pc \in {"search", "fallback", "decided"}
        /\ task'[g].decision = task[g].decision
    BY <1>8 DEF TypeOK, Task, At, StartSearch, QueueTimeout, SearchEnds, SearchTimeout, Step
  <2>3. Attended(g)'
    BY <2>2 DEF Attended, AllAttended, Idling
  <2>. QED BY <2>1, <2>3, OnlyAttended
<1>9. ASSUME NEW g \in Games, Fallback(g) PROVE AllAttended'
  <2>1. Only(g)
    BY <1>9 DEF TypeOK, Only, Fallback, Step
  <2>2. /\ task'[g].pc = "decided"
        /\ task'[g].decision # NoDecision \/ lost'[g] # "no"
    BY <1>9 DEF TypeOK, Task, At, Fallback, Step, Attended, AllAttended
  <2>3. Attended(g)'
    BY <2>2 DEF Attended, Idling
  <2>. QED BY <2>1, <2>3, OnlyAttended
<1>10. ASSUME NEW g \in Games, Apply(g) PROVE AllAttended'
  <2>1. Only(g)
    BY <1>10 DEF TypeOK, Only, Apply, Progress, Fail, Exit
  <2>2. CASE ~Runnable(g)
    <3>1. Exit(g) /\ ~Owes(g)'
      BY <1>10, <2>2 DEF Apply, Owes, Runnable
    <3>. QED BY <2>1, <3>1, StopAttends, OnlyAttended
  <2>3. CASE Runnable(g)
    <3>1. \/ task' = [task EXCEPT ![g] = Awake]
          \/ \E m : Progress(g, m)
          \/ Fail(g)
      BY <1>10, <2>3 DEF Apply
    <3>2. Attended(g)'
      BY <3>1, LookAttends, ProgressAttends, StopAttends
    <3>. QED BY <2>1, <3>2, OnlyAttended
  <2>. QED BY <2>2, <2>3
<1>11. ASSUME NEW g \in Games, PlainAdvance(g) PROVE AllAttended'
  <2>1. Only(g)
    BY <1>11 DEF TypeOK, Only, PlainAdvance, Progress, Fail, Exit
  <2>2. CASE Runnable(g) /\ Stuck(match[g])
    <3>1. (\E m : Progress(g, m)) \/ Fail(g)
      BY <1>11, <2>2 DEF PlainAdvance
    <3>2. Attended(g)'
      BY <3>1, ProgressAttends, StopAttends
    <3>. QED BY <2>1, <3>2, OnlyAttended
  <2>3. CASE ~(Runnable(g) /\ Stuck(match[g]))
    <3>1. Exit(g) /\ UNCHANGED <<match, status, wake, lost>>
      BY <1>11, <2>3 DEF PlainAdvance
    <3>2. lost[g] = "no" /\ ~wake[g] => Owners(match[g]) = {}
      BY <1>11 DEF PlainAdvance, AllAttended, Attended, Idling
    <3>3. lost[g] = "no" /\ ~wake[g] => ~Owes(g)'
      BY <2>3, <3>1, <3>2 DEF Owes, Runnable
    <3>4. task'[g] = Asleep
      BY <3>1 DEF Exit, TypeOK
    <3>5. Attended(g)'
      BY <3>1, <3>3, <3>4 DEF Attended, Asleep, At, Idling
    <3>. QED BY <2>1, <3>5, OnlyAttended
  <2>. QED BY <2>2, <2>3
<1>12. ASSUME NEW f \in Futures, LateCompletion(f) PROVE AllAttended'
  <2>1. UNCHANGED <<match, status, wake, task, lost>>
    BY <1>12 DEF LateCompletion
  <2>. QED BY <2>1 DEF AllAttended, Attended, Owes, Runnable
<1>13. CASE UNCHANGED vars
  BY <1>13 DEF vars, AllAttended, Attended, Owes, Runnable
<1>. QED
  BY <1>1, <1>2, <1>3, <1>4, <1>5, <1>6, <1>7, <1>8, <1>9, <1>10, <1>11, <1>12, <1>13
     DEF Next, Worker

-----------------------------------------------------------------------------
(* An answer belongs to the turn of its request. *)

\* How the engine moves a table on: the request stays in its turn, is gone,
\* or is a new one.
Grows(m, n) ==
    /\ n.ids >= m.ids
    /\ \/ n.request.id = m.request.id /\ n.turn = m.turn
       \/ n.request.id = 0
       \/ n.request.id = n.ids /\ n.ids > m.ids

\* Whatever the engine leaves behind grows out of the table it was given.
LEMMA OutcomesGrow ==
    ASSUME NEW m \in Match
    PROVE  /\ \A n \in Advanced(m) : Grows(m, n)
           /\ \A n \in Outcomes(m) : Grows(m, n)
           /\ \A kind, to : Grows(m, Prompt(m, kind, to))
<1>1. m.ids \in Nat
  BY DEF Match
<1>2. \A kind, to : Grows(m, Prompt(m, kind, to))
  BY <1>1 DEF Grows, Prompt
<1>3. \A phase, turn : Grows(m, Quiet(m, phase, turn))
  BY <1>1 DEF Grows, Quiet, NoRequest
<1>4. \A n \in Prompts(m) : Grows(m, n)
  BY <1>2 DEF Prompts
<1>5. \A n \in Turns(m) : Grows(m, n)
  BY <1>3 DEF Turns
<1>6. Grows(m, Over(m)) /\ Grows(m, Unfinished(m))
  BY <1>3 DEF Over, Unfinished
<1>. QED BY <1>2, <1>4, <1>5, <1>6 DEF Advanced, Outcomes

\* So do the decisions of a hero and the moves of a human.
LEMMA DecideGrows ==
    ASSUME NEW m \in Match
    PROVE  /\ \A h \in Heroes : \A n \in Decide(m, h) : Grows(m, n)
           /\ \A n \in HumanMoves(m) : Grows(m, n)
<1>1. \A P : Grows(m, [m EXCEPT !.planned = P])
  BY DEF Grows, Match
<1>2. \A h \in Heroes : \A n \in Decide(m, h) : Grows(m, n)
  <2>. SUFFICES ASSUME NEW h \in Heroes, NEW n \in Decide(m, h)
                PROVE  Grows(m, n)
    OBVIOUS
  <2>1. CASE m.phase = "PLANNING" /\ h \notin m.planned
    <3>1. \/ n \in Outcomes(m)
          \/ n = [m EXCEPT !.planned = m.planned \cup {h}]
      BY <2>1 DEF Decide
    <3>. QED BY <1>1, <3>1, OutcomesGrow
  <2>2. CASE /\ m.phase = "RESOLUTION" /\ h \in m.request.to
             /\ ~(m.phase = "PLANNING" /\ h \notin m.planned)
    <3>1. \/ n \in Outcomes(m)
          \/ n = Prompt(m, "upgrade", m.request.to \ {h})
      BY <2>2 DEF Decide
    <3>. QED BY <3>1, OutcomesGrow
  <2>3. CASE /\ ~(m.phase = "PLANNING" /\ h \notin m.planned)
             /\ ~(m.phase = "RESOLUTION" /\ h \in m.request.to)
    BY <2>3 DEF Decide
  <2>. QED BY <2>1, <2>2, <2>3
<1>3. Grows(m, m)
  BY DEF Grows, Match
<1>4. \A n \in HumanMoves(m) : Grows(m, n)
  <2>. SUFFICES ASSUME NEW n \in HumanMoves(m)
                PROVE  Grows(m, n)
    OBVIOUS
  <2>1. \/ \E h \in Humans : n \in Decide(m, h)
        \/ \E h \in Humans : n = [m EXCEPT !.planned = @ \ {h}]
        \/ n \in Advanced(m)
        \/ n = m
    BY DEF HumanMoves
  <2>. QED BY <2>1, <1>1, <1>2, <1>3, OutcomesGrow DEF Heroes
<1>. QED BY <1>2, <1>4

\* What one step may do to match g and to the decision its worker carries:
\* the decision stays, is dropped, or is read off a table that stays.
Follows(g) ==
    /\ Grows(match[g], match'[g])
    /\ \/ /\ task'[g].decision = task[g].decision
          /\ task'[g].pc = "none" => task[g].pc = "none"
       \/ task'[g].decision = NoDecision
       \/ /\ match'[g] = match[g] /\ task'[g].pc # "none"
          /\ task'[g].decision.request = match[g].request.id
          /\ task'[g].decision.turn = match[g].turn

\* Such a step keeps the decisions in their turns.
LEMMA FollowsTimely ==
    ASSUME TypeOK, TypeOK', NEW g \in Games, Timely(g), Follows(g)
    PROVE  Timely(g)'
<1>1. /\ match[g].ids \in Nat /\ match[g].request.id \in Nat
      /\ match'[g].ids \in Nat /\ match'[g].request.id \in Nat
  BY DEF TypeOK, Match, Request
<1>2. task[g].decision.request \in Nat /\ task'[g].decision.request \in Nat
  BY DEF TypeOK, Task, Decision, NoDecision
<1>3. (match[g].request.id <= match[g].ids)'
  BY <1>1 DEF Timely, Follows, Grows
<1>4. (task[g].pc = "none" => task[g].decision = NoDecision)'
  BY DEF Timely, Follows
<1>5. ASSUME task'[g].decision.request # 0
      PROVE  /\ task'[g].decision.request <= match'[g].ids
             /\ match'[g].request.id = task'[g].decision.request =>
                  task'[g].decision.turn = match'[g].turn
  <2>1. task'[g].decision # NoDecision
    BY <1>5 DEF NoDecision
  <2>2. CASE task'[g].decision = task[g].decision
    BY <1>1, <1>2, <1>5, <2>2 DEF Timely, Follows, Grows
  <2>3. CASE task'[g].decision # task[g].decision
    BY <1>1, <2>1, <2>3 DEF Timely, Follows
  <2>. QED BY <2>2, <2>3
<1>. QED BY <1>3, <1>4, <1>5 DEF Timely

\* A step that touches neither the table nor the worker of a match.
LEMMA StillFollows ==
    ASSUME TypeOK, NEW g \in Games, match'[g] = match[g], task'[g] = task[g]
    PROVE  Follows(g)
<1>1. Grows(match[g], match'[g])
  BY DEF Grows, TypeOK, Match
<1>. QED BY <1>1 DEF Follows

\* The worker's ways on, as far as its decision goes.
LEMMA WorkerMoves ==
    ASSUME TypeOK, NEW g \in Games
    PROVE  /\ Exit(g) \/ Fail(g) \/ task' = [task EXCEPT ![g] = Awake] =>
                task'[g].decision = NoDecision
           /\ \A m : Progress(g, m) => task'[g].decision = NoDecision
           /\ \A pc : Step(g, pc) => /\ task'[g].decision = task[g].decision
                                     /\ task'[g].pc = pc
           /\ \A pc, d, f : task' = [task EXCEPT ![g] = At(pc, d, f)] =>
                /\ task'[g].decision = d /\ task'[g].pc = pc
           /\ Schedule(g) => task'[g] = task[g] \/ task'[g].decision = NoDecision
<1>1. Asleep.decision = NoDecision /\ Awake.decision = NoDecision
  BY DEF Asleep, Awake, At
<1>2. \A t : task' = [task EXCEPT ![g] = t] => task'[g] = t
  BY DEF TypeOK
<1>3. /\ Exit(g) \/ Fail(g) \/ task' = [task EXCEPT ![g] = Awake] =>
           task'[g].decision = NoDecision
      /\ Schedule(g) => task'[g] = task[g] \/ task'[g].decision = NoDecision
  BY <1>1, <1>2 DEF Exit, Fail, Schedule
<1>4. \A m : Progress(g, m) => task'[g].decision = NoDecision
  BY <1>1, <1>2 DEF Progress
<1>5. \A pc : Step(g, pc) => /\ task'[g].decision = task[g].decision
                             /\ task'[g].pc = pc
  BY DEF TypeOK, Task, Step
<1>6. \A pc, d, f : task' = [task EXCEPT ![g] = At(pc, d, f)] =>
        /\ task'[g].decision = d /\ task'[g].pc = pc
  <2>1. \A pc, d, f : At(pc, d, f).decision = d /\ At(pc, d, f).pc = pc
    BY DEF At
  <2>2. SUFFICES ASSUME NEW pc, NEW d, NEW f, task' = [task EXCEPT ![g] = At(pc, d, f)]
                 PROVE  task'[g].decision = d /\ task'[g].pc = pc
    OBVIOUS
  <2>3. task'[g] = At(pc, d, f)
    BY <1>2, <2>2
  <2>. QED BY <2>1, <2>3
<1>. QED BY <1>3, <1>4, <1>5, <1>6

\* Apart from those of its own worker, no step touches a match and the
\* decision carried for it at once, and the worker applies only what is still
\* valid.
Applied(g) ==
    Applies(g) /\ task[g].decision.request # 0 =>
        match[g].request.id = task[g].decision.request

\* Every step of a match follows on, and applies what is valid.
LEMMA MatchFollows ==
    ASSUME TypeOK, AllTimely, NEW g \in Games,
           \/ Worker(g) \/ Woken(g) \/ HumanActs(g) \/ DeadlineActs(g)
           \/ Hold(g) \/ Resume(g) \/ Remove(g)
    PROVE  Follows(g) /\ Applied(g)
<1>. USE DriveAssumption
<1>0. match[g] \in Match /\ task[g] \in Task /\ Grows(match[g], match[g])
  <2>1. match[g] \in Match /\ task[g] \in Task
    BY DEF TypeOK
  <2>2. match[g].ids \in Nat
    BY <2>1 DEF Match
  <2>. QED BY <2>1, <2>2 DEF Grows
<1>1. CASE HumanActs(g)
  <2>1. PICK m \in HumanMoves(match[g]) : match' = [match EXCEPT ![g] = m]
    BY <1>1 DEF HumanActs
  <2>2. match'[g] = m
    BY <2>1 DEF TypeOK
  <2>3. Grows(match[g], match'[g])
    BY <1>0, <2>2, DecideGrows
  <2>4. task'[g] = task[g] \/ task'[g].decision = NoDecision
    BY <1>1, WorkerMoves DEF HumanActs
  <2>5. task'[g] # task[g] => task[g].decision = NoDecision
    <3>1. task' # task => task[g].pc = "none"
      BY <1>1 DEF HumanActs, Schedule
    <3>. QED BY <3>1 DEF AllTimely, Timely
  <2>. QED BY <2>3, <2>4, <2>5 DEF Follows, Applied, Applies
<1>2. CASE DeadlineActs(g)
  <2>1. PICK h \in Heroes : \E m \in Decide(match[g], h) : match' = [match EXCEPT ![g] = m]
    BY <1>2 DEF DeadlineActs
  <2>2. match'[g] \in Decide(match[g], h)
    BY <2>1 DEF TypeOK
  <2>3. Grows(match[g], match'[g])
    BY <1>0, <2>2, DecideGrows
  <2>4. task'[g] = task[g]
    BY <1>2 DEF DeadlineActs
  <2>. QED BY <2>3, <2>4 DEF Follows, Applied, Applies
<1>3. CASE Woken(g) \/ Resume(g)
  <2>1. match' = match /\ Schedule(g)
    BY <1>3 DEF Woken, Resume
  <2>2. task'[g] = task[g] \/ task'[g].decision = NoDecision
    BY <2>1, WorkerMoves
  <2>. QED BY <1>0, <2>1, <2>2 DEF Follows, Applied, Applies
<1>4. CASE Hold(g)
  BY <1>0, <1>4 DEF Hold, Follows, Applied, Applies
<1>5. CASE Remove(g)
  <2>1. match' = match /\ Exit(g)
    BY <1>5 DEF Remove, Exit
  <2>2. task'[g].decision = NoDecision
    BY <2>1, WorkerMoves
  <2>. QED BY <1>0, <2>1, <2>2 DEF Follows, Applied, Applies
<1>6. CASE Look(g)
  <2>1. match' = match
    BY <1>6 DEF Look
  <2>2. CASE ~Runnable(g)
    <3>1. Exit(g)
      BY <1>6, <2>2 DEF Look
    <3>. QED BY <1>0, <2>1, <3>1, WorkerMoves DEF Follows, Applied, Applies
  <2>3. CASE /\ Runnable(g)
             /\ \/ ~agents[g]
                \/ agents[g] /\ Owners(match[g]) = {}
    <3>1. Step(g, "build") \/ Step(g, "plain")
      BY <1>6, <2>3 DEF Look
    <3>2. task'[g].decision = task[g].decision /\ task'[g].pc # "none"
      BY <3>1, WorkerMoves
    <3>. QED BY <1>0, <2>1, <3>2 DEF Follows, Applied, Applies
  <2>4. CASE Runnable(g) /\ agents[g] /\ Owners(match[g]) # {}
    <3>1. PICK b \in Owners(match[g]) :
            task' = [task EXCEPT ![g] =
               At(IF b \in Searchers THEN "queue" ELSE "plain",
                  [hero |-> b, request |-> match[g].request.id,
                   turn |-> match[g].turn], Nobody)]
      BY <1>6, <2>4 DEF Look
    <3>2. /\ task'[g].decision = [hero |-> b, request |-> match[g].request.id,
                                  turn |-> match[g].turn]
          /\ task'[g].pc = IF b \in Searchers THEN "queue" ELSE "plain"
      BY <3>1, WorkerMoves
    <3>. QED BY <1>0, <2>1, <3>2 DEF Follows, Applied, Applies
  <2>. QED BY <2>2, <2>3, <2>4
<1>7. CASE Build(g) \/ Compute(g) \/ QueueTimeout(g)
  <2>1. match' = match
    BY <1>7 DEF Build, Compute, QueueTimeout
  <2>2. \/ Exit(g) \/ Fail(g)
        \/ Step(g, "look") \/ Step(g, "decided") \/ Step(g, "fallback")
    BY <1>7 DEF Build, Compute, QueueTimeout
  <2>3. \/ task'[g].decision = NoDecision
        \/ task'[g].decision = task[g].decision /\ task'[g].pc # "none"
    BY <2>2, WorkerMoves
  <2>. QED BY <1>0, <2>1, <2>3 DEF Follows, Applied, Applies
<1>8. CASE StartSearch(g) \/ SearchEnds(g) \/ SearchTimeout(g) \/ Fallback(g)
  <2>1. match' = match
    BY <1>8 DEF StartSearch, SearchEnds, SearchTimeout, Fallback
  <2>2. \/ Step(g, "decided")
        \/ task' = [task EXCEPT ![g] = At("decided", NoDecision, Nobody)]
        \/ \E pc \in {"search", "decided", "fallback"} : \E f :
             task' = [task EXCEPT ![g] = At(pc, task[g].decision, f)]
    BY <1>8 DEF StartSearch, SearchEnds, SearchTimeout, Fallback
  <2>3. \/ task'[g].decision = NoDecision
        \/ task'[g].decision = task[g].decision /\ task'[g].pc # "none"
    BY <2>2, WorkerMoves
  <2>. QED BY <1>0, <2>1, <2>3 DEF Follows, Applied, Applies
<1>9. CASE Apply(g)
  <2>1. CASE ~(Runnable(g) /\ StillValid(match[g], task[g].decision))
    <3>1. /\ match' = match
          /\ Exit(g) \/ task' = [task EXCEPT ![g] = Awake]
      BY <1>9, <2>1 DEF Apply
    <3>2. task'[g].decision = NoDecision
      BY <3>1, WorkerMoves
    <3>. QED BY <1>0, <3>1, <3>2 DEF Follows, Applied, Applies
  <2>2. CASE Runnable(g) /\ StillValid(match[g], task[g].decision)
    <3>1. \/ \E m \in Decide(match[g], task[g].decision.hero) : Progress(g, m)
          \/ Fail(g) /\ UNCHANGED match
      BY <1>9, <2>2 DEF Apply
    <3>2. task'[g].decision = NoDecision
      BY <3>1, WorkerMoves
    <3>3. task[g].decision.hero \in Heroes
      BY <1>9 DEF Apply, TypeOK, Task, Decision, Heroes
    <3>4. match'[g] = match[g] \/ match'[g] \in Decide(match[g], task[g].decision.hero)
      BY <3>1 DEF Progress, TypeOK
    <3>5. Grows(match[g], match'[g])
      BY <1>0, <3>3, <3>4, DecideGrows
    <3>6. Applied(g)
      BY <2>2 DEF StillValid, Applied
    <3>. QED BY <3>2, <3>5, <3>6 DEF Follows
  <2>. QED BY <2>1, <2>2
<1>10. CASE PlainAdvance(g)
  <2>1. task[g].decision = NoDecision
    BY <1>10 DEF PlainAdvance
  <2>2. \/ \E m \in Advanced(match[g]) : Progress(g, m)
        \/ (Fail(g) \/ Exit(g)) /\ UNCHANGED match
    BY <1>10 DEF PlainAdvance
  <2>3. task'[g].decision = NoDecision
    BY <2>2, WorkerMoves
  <2>4. match'[g] = match[g] \/ match'[g] \in Advanced(match[g])
    BY <2>2 DEF Progress, TypeOK
  <2>5. Grows(match[g], match'[g])
    BY <1>0, <2>4, OutcomesGrow
  <2>. QED BY <2>1, <2>3, <2>5 DEF Follows, Applied, Applies
<1>. QED
  BY <1>1, <1>2, <1>3, <1>4, <1>5, <1>6, <1>7, <1>8, <1>9, <1>10 DEF Worker

\* A step of one match is none of another.
LEMMA OneMatch ==
    ASSUME TypeOK, NEW g \in Games,
           \/ Worker(g) \/ Woken(g) \/ HumanActs(g) \/ DeadlineActs(g)
           \/ Hold(g) \/ Resume(g) \/ Remove(g),
           NEW k \in Games, k # g
    PROVE  match'[k] = match[k] /\ task'[k] = task[k]
<1>1. CASE HumanActs(g) \/ DeadlineActs(g) \/ Woken(g) \/ Hold(g) \/ Resume(g) \/ Remove(g)
  BY <1>1 DEF TypeOK, HumanActs, DeadlineActs, Woken, Hold, Resume, Remove, Schedule
<1>2. CASE Look(g) \/ Build(g) \/ Compute(g) \/ QueueTimeout(g)
  BY <1>2 DEF TypeOK, Look, Build, Compute, QueueTimeout, Step, Exit, Fail
<1>3. CASE StartSearch(g) \/ SearchEnds(g) \/ SearchTimeout(g) \/ Fallback(g)
  BY <1>3 DEF TypeOK, StartSearch, SearchEnds, SearchTimeout, Fallback, Step
<1>4. CASE Apply(g) \/ PlainAdvance(g)
  BY <1>4 DEF TypeOK, Apply, PlainAdvance, Progress, Exit, Fail
<1>. QED BY <1>1, <1>2, <1>3, <1>4 DEF Worker

\* Every step follows on in every match, and applies only what is valid.
LEMMA AllFollow ==
    ASSUME TypeOK, AllTimely, [Next]_vars, NEW k \in Games
    PROVE  Follows(k) /\ Applied(k)
<1>1. ASSUME NEW g \in Games,
             \/ Worker(g) \/ Woken(g) \/ HumanActs(g) \/ DeadlineActs(g)
             \/ Hold(g) \/ Resume(g) \/ Remove(g)
      PROVE  Follows(k) /\ Applied(k)
  <2>1. CASE k = g
    BY <1>1, <2>1, MatchFollows
  <2>2. CASE k # g
    <3>1. match'[k] = match[k] /\ task'[k] = task[k]
      BY <1>1, <2>2, OneMatch
    <3>. QED BY <3>1, StillFollows DEF Applied, Applies
  <2>. QED BY <2>1, <2>2
<1>2. ASSUME NEW f \in Futures, LateCompletion(f)
      PROVE  Follows(k) /\ Applied(k)
  <2>1. match'[k] = match[k] /\ task'[k] = task[k]
    BY <1>2 DEF LateCompletion
  <2>. QED BY <2>1, StillFollows DEF Applied, Applies
<1>3. CASE UNCHANGED vars
  <2>1. match'[k] = match[k] /\ task'[k] = task[k]
    BY <1>3 DEF vars
  <2>. QED BY <2>1, StillFollows DEF Applied, Applies
<1>. QED BY <1>1, <1>2, <1>3 DEF Next

\* Every step keeps every decision in its turn.
LEMMA TimelyStep ==
    ASSUME TypeOK, TypeOK', AllTimely, [Next]_vars
    PROVE  AllTimely'
<1>. SUFFICES ASSUME NEW k \in Games PROVE Timely(k)'
  BY DEF AllTimely
<1>1. Timely(k) /\ Follows(k)
  BY AllFollow DEF AllTimely
<1>. QED BY <1>1, FollowsTimely

-----------------------------------------------------------------------------
(* The theorems. *)

\* A new match waits for its last player to get ready; no search runs.
LEMMA InitInv == Init => IInv
<1>. SUFFICES ASSUME Init PROVE IInv
  OBVIOUS
<1>. USE DriveAssumption
<1>1. TypeOK
  <2>1. [phase |-> "PLANNING", turn |-> 1, planned |-> {},
         request |-> NoRequest, ids |-> 0] \in Match
    BY DEF Match, Request, NoRequest
  <2>. QED BY <2>1, SleepType DEF Init, TypeOK
<1>2. OwnSearch
  BY DEF Init, OwnSearch, Asleep, At
<1>3. PermitsKept
  <2>1. {f \in Futures : future[f] # Nobody} = {}
    BY DEF Init
  <2>2. Cardinality({}) = 0
    BY FS_EmptySet
  <2>3. permits = Concurrency /\ Concurrency \in Nat
    BY DEF Init
  <2>4. permits + 0 = Concurrency
    BY <2>3
  <2>. QED BY <2>1, <2>2, <2>4 DEF PermitsKept
<1>4. AllAttended
  BY DEF Init, AllAttended, Attended, Owes, Runnable, Idling, Asleep, At
<1>5. AllTimely
  BY DEF Init, AllTimely, Timely, NoRequest, NoDecision, Asleep, At
<1>. QED BY <1>1, <1>2, <1>3, <1>4, <1>5 DEF IInv

\* The inductive invariant.
THEOREM Invariance == Spec => []IInv
<1>1. IInv /\ [Next]_vars => IInv'
  BY TypeStep, PermitStep, AttendStep, TimelyStep DEF IInv
<1>. QED BY InitInv, <1>1, PTL DEF Spec

\* Tables, workers and permits keep their types whatever humans, deadlines,
\* workers and searches do.
THEOREM DriveTypeCorrect == Spec => []TypeOK
<1>1. IInv => TypeOK
  BY DEF IInv
<1>. QED BY Invariance, <1>1, PTL

\* However callers time out or are cancelled, no permit of the bounded
\* searches is lost and none is returned twice.
THEOREM PermitsKeptCorrect == Spec => []PermitsKept
<1>1. IInv => PermitsKept
  BY DEF IInv
<1>. QED BY Invariance, <1>1, PTL

\* A match waits unattended for its bots only after the worker failed, or
\* after a wake-up came while the worker was finding nothing to do.
THEOREM StrandedOnlyIfMissedCorrect == Spec => []StrandedOnlyIfMissed
<1>1. IInv => StrandedOnlyIfMissed
  BY DEF IInv, AllAttended, Attended, StrandedOnlyIfMissed, Unattended
<1>. QED BY Invariance, <1>1, PTL

\* What a worker applies in answer to a request, it computed in the turn in
\* which it is applied, however many requests came and went while it thought.
THEOREM AnswersCorrect == Spec => AnswersItsTurn
<1>1. IInv /\ [Next]_vars =>
        [\A g \in Games : Applies(g) /\ task[g].decision.request # 0 =>
            task[g].decision.turn = match[g].turn]_vars
  <2>. SUFFICES ASSUME IInv, [Next]_vars, NEW g \in Games,
                       Applies(g), task[g].decision.request # 0
                PROVE  task[g].decision.turn = match[g].turn
    OBVIOUS
  <2>1. match[g].request.id = task[g].decision.request
    BY AllFollow DEF IInv, Applied
  <2>. QED BY <2>1 DEF IInv, AllTimely, Timely
<1>. QED BY Invariance, <1>1, PTL DEF Spec, AnswersItsTurn
=============================================================================
