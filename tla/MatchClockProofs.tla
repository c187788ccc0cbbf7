-------------------------- MODULE MatchClockProofs --------------------------
(***************************************************************************)
(* MatchClock for every set of heroes and every configuration: its types,  *)
(* that nobody owns a bank beside a debt, and that the clocks that run are *)
(* those of the players the table waits for.                               *)
(*                                                                         *)
(* The lemmas about the operators of GameClock come first: each preserves  *)
(* the shape of a clock, and leaves no player a bank while owing overrun.  *)
(* The proofs about MatchClock cite them action by action.                 *)
(*                                                                         *)
(* ClockAgrees speaks of the moments when the lock is free.  A handler     *)
(* breaks it between the acceptance of a decision and its finalize, and an *)
(* approved proposal until prepare has reconciled; InSync names the rest   *)
(* of a handler, where it holds too.                                       *)
(***************************************************************************)
EXTENDS MatchClock, TLAPS, WellFoundedInduction

\* One player's pools: a bank within its cap, and none beside a debt; the two
\* allowances that are set rather than added to never exceed their grants.
Solvent(p) == /\ p["overrun"] > 0 => p["bank"] = 0
              /\ p["bank"] <= MaxBank
              /\ p["initiative"] <= InitiativeBonus
              /\ p["upgrade"] <= UpgradeAllowance

GoodPools == {p \in Pools : Solvent(p)}

GoodClock(c) == c \in Clock /\ \A h \in Heroes : Solvent(c.pool[h])

-----------------------------------------------------------------------------
(* One player's pools. *)

\* The pools a match starts with (create_game_clock) are good.
LEMMA NewPoolsGood == NewPools \in GoodPools
  BY ConfigAssumption DEF NewPools, GoodPools, Pools, PoolNames, Solvent

\* Paying (spend_time) keeps the pools good: overrun grows only once the bank
\* is empty.
LEMMA SpendGood ==
  ASSUME NEW p \in GoodPools, NEW kind \in Kinds, NEW e \in Nat
  PROVE  Spend(p, kind, e) \in GoodPools
<1> DEFINE own == Rest(p[OwnPool(kind)], e)
           res == IF SharesResolution(kind) THEN Rest(p["resolution"], own) ELSE own
<1>1. /\ OwnPool(kind) \in {"planning", "initiative", "response", "upgrade"}
      /\ \A n \in PoolNames : p[n] \in Nat
  BY DEF OwnPool, GoodPools, Pools, PoolNames
<1>2. own \in Nat
  BY <1>1 DEF Rest, PoolNames
<1>3. res \in Nat
  BY <1>1, <1>2 DEF Rest, PoolNames
<1> HIDE DEF own, res
<1>4. Spend(p, kind, e) =
        [n \in PoolNames |->
          CASE n = OwnPool(kind) -> Left(p[n], e)
            [] n = "resolution" /\ SharesResolution(kind) -> Left(p[n], own)
            [] n = "bank" -> Left(p[n], res)
            [] n = "overrun" /\ ~EnforceTimeouts -> p[n] + Rest(p["bank"], res)
            [] OTHER -> p[n]]
  BY DEF Spend, own, res
<1> DEFINE q == Spend(p, kind, e)
<1>5. q \in Pools
  BY <1>1, <1>2, <1>3, <1>4 DEF Pools, PoolNames, Left, Rest
<1>6. q["bank"] = Left(p["bank"], res)
  BY <1>1, <1>4 DEF PoolNames
<1>7. q["overrun"] = IF EnforceTimeouts THEN p["overrun"]
                     ELSE p["overrun"] + Rest(p["bank"], res)
  BY <1>1, <1>4, ConfigAssumption DEF PoolNames
<1>8. \A n \in {"initiative", "upgrade"} : q[n] <= p[n]
  BY <1>1, <1>4 DEF PoolNames, Left
<1> HIDE DEF q
<1>9. /\ q["overrun"] > 0 => q["bank"] = 0
      /\ q["bank"] <= MaxBank
  BY <1>1, <1>3, <1>6, <1>7, ConfigAssumption DEF Solvent, GoodPools, PoolNames, Left, Rest
<1>10. q["initiative"] <= InitiativeBonus /\ q["upgrade"] <= UpgradeAllowance
  <2>1. /\ p["initiative"] <= InitiativeBonus /\ p["upgrade"] <= UpgradeAllowance
        /\ InitiativeBonus \in Nat /\ UpgradeAllowance \in Nat
        /\ p["initiative"] \in Nat /\ p["upgrade"] \in Nat
        /\ q["initiative"] \in Nat /\ q["upgrade"] \in Nat
    BY <1>1, <1>5, ConfigAssumption DEF Solvent, GoodPools, Pools, PoolNames
  <2> QED
    BY <1>8, <2>1
<1> QED
  BY <1>5, <1>9, <1>10 DEF GoodPools, Solvent, q

\* A new turn (begin_shared_turn) keeps the pools good: the increment repays
\* the overrun before it reaches the bank.
LEMMA TurnPoolsGood ==
  ASSUME NEW p \in GoodPools
  PROVE  TurnPools(p) \in GoodPools
<1>1. \A n \in PoolNames : p[n] \in Nat
  BY DEF GoodPools, Pools
<1> DEFINE repaid == Least(p["overrun"], BankIncrement)
<1>2. /\ repaid \in Nat /\ repaid <= p["overrun"] /\ repaid <= BankIncrement
      /\ repaid = p["overrun"] \/ repaid = BankIncrement
  BY <1>1, ConfigAssumption DEF Least, PoolNames
<1> HIDE DEF repaid
<1>3. TurnPools(p) =
        [n \in PoolNames |->
          CASE n = "planning"   -> PlanningAllowance
            [] n = "resolution" -> ResolutionAllowance
            [] n = "overrun"    -> p[n] - repaid
            [] n = "bank"       -> Least(MaxBank, p[n] + (BankIncrement - repaid))
            [] OTHER            -> 0]
  BY DEF TurnPools, repaid
<1>4. TurnPools(p) \in Pools
  BY <1>1, <1>2, <1>3, ConfigAssumption DEF Pools, PoolNames, Least
<1>5. Solvent(TurnPools(p))
  BY <1>1, <1>2, <1>3, ConfigAssumption DEF Solvent, GoodPools, PoolNames, Least
<1> QED
  BY <1>4, <1>5 DEF GoodPools

-----------------------------------------------------------------------------
(* The clock. *)

\* A clock is good when each of its players' pools are.
LEMMA GoodClockPools ==
  ASSUME NEW c, GoodClock(c), NEW h \in Heroes
  PROVE  c.pool[h] \in GoodPools
  BY DEF GoodClock, Clock, GoodPools

\* Replacing every player's pools by good ones.
LEMMA ReplacePools ==
  ASSUME NEW c \in Clock, NEW f \in [Heroes -> GoodPools]
  PROVE  GoodClock([c EXCEPT !.pool = f])
  BY DEF GoodClock, Clock, GoodPools

\* create_game_clock makes a good clock.
LEMMA NewClockGood == ASSUME NEW turn \in Nat PROVE GoodClock(NewClock(turn))
<1>1. NewClock(turn).pool = [h \in Heroes |-> NewPools]
  BY DEF NewClock
<1>2. NewClock(turn) \in Clock
  BY NewPoolsGood DEF NewClock, Clock, Statuses, Kinds, GoodPools
<1> QED
  BY <1>1, <1>2, NewPoolsGood DEF GoodClock, GoodPools

\* Settling (settle_clock) changes pools only, and keeps them good.
LEMMA SettleGood ==
  ASSUME NEW c, GoodClock(c), NEW e \in Nat
  PROVE  /\ GoodClock(Settle(c, e))
         /\ \E f \in [Heroes -> GoodPools] : Settle(c, e) = [c EXCEPT !.pool = f]
<1> DEFINE f == [h \in Heroes |-> IF Charging(c) /\ h \in c.active
                                 THEN Spend(c.pool[h], c.kind, e) ELSE c.pool[h]]
<1>1. c \in Clock /\ c.kind \in Kinds
  BY DEF GoodClock, Clock
<1>2. f \in [Heroes -> GoodPools]
  BY <1>1, GoodClockPools, SpendGood
<1>3. Settle(c, e) = [c EXCEPT !.pool = f]
  <2>1. CASE Charging(c)
    BY <2>1 DEF Settle
  <2>2. CASE ~Charging(c)
    <3>1. f = c.pool
      BY <1>1, <2>2 DEF Clock
    <3> HIDE DEF f
    <3>2. c = [c EXCEPT !.pool = c.pool]
      BY <1>1 DEF Clock
    <3> QED
      BY <2>2, <3>1, <3>2 DEF Settle
  <2> QED
    BY <2>1, <2>2
<1> HIDE DEF f
<1> QED
  BY <1>1, <1>2, <1>3, ReplacePools

\* Setting the targets (activate_clocks) sets them and touches nothing else.
LEMMA ActivateGood ==
  ASSUME NEW c, GoodClock(c), NEW kind \in Kinds, NEW active \in SUBSET Heroes,
         NEW deciders \in SUBSET Heroes, NEW request \in Nat
  PROVE  LET d == Activate(c, kind, active, deciders, request)
         IN /\ GoodClock(d)
            /\ d.kind = kind /\ d.active = active
            /\ d.deciders = deciders /\ d.request = request
            /\ d.status = c.status /\ d.turn = c.turn
            /\ d.locked = c.locked /\ d.credited = c.credited /\ d.pool = c.pool
            /\ d.bonus = c.bonus /\ d.levelUp = c.levelUp
            /\ d.human = c.human /\ d.auto = c.auto /\ d.ready = c.ready
  BY DEF Activate, GoodClock, Clock

\* Stopping, finishing, suspending and pausing a clock stop every target.
LEMMA StopsGood ==
  ASSUME NEW c, GoodClock(c)
  PROVE  /\ GoodClock(Stop(c)) /\ GoodClock(Idle(c)) /\ GoodClock(FinishClock(c))
         /\ GoodClock(SuspendClock(c)) /\ GoodClock(PauseClock(c))
         /\ FinishClock(c).status = "FINISHED" /\ FinishClock(c).active = {}
         /\ SuspendClock(c).status = "SUSPENDED_FOR_INACTIVITY" /\ SuspendClock(c).active = {}
         /\ PauseClock(c).status = "PAUSED" /\ PauseClock(c).active = {}
         /\ Idle(c).status = c.status /\ Idle(c).active = {}
<1>1. GoodClock(Stop(c))
  BY DEF Stop, GoodClock, Clock, Kinds
<1>2. GoodClock(Idle(c)) /\ Idle(c).status = c.status /\ Idle(c).active = {}
  BY ActivateGood DEF Idle, Kinds
<1> DEFINE d == Stop(c)
<1>3. GoodClock(d) /\ d.active = {}
  BY <1>1 DEF Stop, GoodClock, Clock
<1> HIDE DEF d
<1>4. ASSUME NEW s \in Statuses
      PROVE  /\ GoodClock([d EXCEPT !.status = s])
             /\ GoodClock([d EXCEPT !.status = s, !.ready = {}])
             /\ [d EXCEPT !.status = s].status = s
             /\ [d EXCEPT !.status = s].active = {}
             /\ [d EXCEPT !.status = s, !.ready = {}].status = s
             /\ [d EXCEPT !.status = s, !.ready = {}].active = {}
  BY <1>3 DEF GoodClock, Clock
<1> QED
  BY <1>1, <1>2, <1>4 DEF d, Statuses, FinishClock, SuspendClock, PauseClock

\* A new shared turn keeps the clock good.
LEMMA BeginSharedTurnGood ==
  ASSUME NEW c, GoodClock(c), NEW turn \in Nat
  PROVE  /\ GoodClock(BeginSharedTurn(c, turn))
         /\ BeginSharedTurn(c, turn).turn = turn
         /\ BeginSharedTurn(c, turn).status = c.status
<1>1. CASE c.turn = turn
  BY <1>1 DEF BeginSharedTurn
<1>2. CASE c.turn # turn
  <2> DEFINE f == [h \in Heroes |-> TurnPools(c.pool[h])]
             d == [Stop(c) EXCEPT !.turn = turn, !.levelUp = FALSE, !.bonus = NoHero,
                                  !.credited = {}, !.human = FALSE, !.locked = {}]
  <2>1. f \in [Heroes -> GoodPools]
    BY GoodClockPools, TurnPoolsGood
  <2>2. d \in Clock /\ d.turn = turn /\ d.status = c.status
    <3>1. Stop(c) \in Clock /\ Stop(c).status = c.status
      BY StopsGood DEF GoodClock, Clock, Stop
    <3>2. \A s \in Clock :
            LET e == [s EXCEPT !.turn = turn, !.levelUp = FALSE, !.bonus = NoHero,
                               !.credited = {}, !.human = FALSE, !.locked = {}]
            IN e \in Clock /\ e.turn = turn /\ e.status = s.status
      BY DEF Clock
    <3> QED
      BY <3>1, <3>2
  <2>3. BeginSharedTurn(c, turn) = [d EXCEPT !.pool = f]
    BY <1>2, StopsGood DEF BeginSharedTurn, GoodClock, Clock
  <2> HIDE DEF d, f
  <2> QED
    BY <2>1, <2>2, <2>3, ReplacePools DEF Clock
<1> QED
  BY <1>1, <1>2

\* The three grants raise allowances only, never the bank or the overrun.
LEMMA RaiseGood ==
  ASSUME NEW p \in GoodPools, NEW n \in {"initiative", "response", "upgrade"},
         NEW amount \in Nat,
         n = "initiative" => amount <= InitiativeBonus,
         n = "upgrade" => amount <= UpgradeAllowance
  PROVE  [p EXCEPT ![n] = amount] \in GoodPools
  BY DEF GoodPools, Pools, PoolNames, Solvent

\* The initiative bonus goes to one player's allowance.
LEMMA GrantInitiativeBonusGood ==
  ASSUME NEW c, GoodClock(c), NEW h \in Heroes
  PROVE  /\ GoodClock(GrantInitiativeBonus(c, h))
         /\ GrantInitiativeBonus(c, h).turn = c.turn
         /\ GrantInitiativeBonus(c, h).status = c.status
<1>1. CASE c.bonus # NoHero
  BY <1>1 DEF GrantInitiativeBonus
<1>2. CASE c.bonus = NoHero
  <2> DEFINE d == [c EXCEPT !.bonus = h, !.moved = TRUE]
             f == [c.pool EXCEPT ![h] = [@ EXCEPT !["initiative"] = InitiativeBonus]]
  <2>1. d \in Clock /\ d.turn = c.turn /\ d.status = c.status
    BY DEF GoodClock, Clock
  <2>2. \A g \in Heroes : c.pool[g] \in GoodPools
    BY GoodClockPools
  <2>3. [c.pool[h] EXCEPT !["initiative"] = InitiativeBonus] \in GoodPools
    BY <2>2, RaiseGood, ConfigAssumption
  <2>4. f \in [Heroes -> GoodPools]
    BY <2>2, <2>3 DEF GoodClock, Clock
  <2>5. GrantInitiativeBonus(c, h) = [d EXCEPT !.pool = f]
    BY <1>2 DEF GrantInitiativeBonus, GoodClock, Clock
  <2> HIDE DEF d, f
  <2> QED
    BY <2>1, <2>4, <2>5, ReplacePools DEF Clock
<1> QED
  BY <1>1, <1>2

\* A response grant is credited to its request.
LEMMA GrantResponseGood ==
  ASSUME NEW c, GoodClock(c), NEW request \in Nat, NEW heroes \in SUBSET Heroes
  PROVE  /\ GoodClock(GrantResponse(c, request, heroes))
         /\ GrantResponse(c, request, heroes).turn = c.turn
         /\ GrantResponse(c, request, heroes).status = c.status
         /\ request \in GrantResponse(c, request, heroes).credited
<1>1. CASE request \in c.credited
  BY <1>1 DEF GrantResponse
<1>2. CASE request \notin c.credited
  <2> DEFINE d == [c EXCEPT !.credited = @ \cup {request}, !.moved = TRUE]
             f == [h \in Heroes |->
                     IF h \in heroes
                     THEN [c.pool[h] EXCEPT !["response"] = @ + ResponseGrant]
                     ELSE c.pool[h]]
  <2>1. d \in Clock /\ d.turn = c.turn /\ d.status = c.status /\ request \in d.credited
    BY DEF GoodClock, Clock
  <2>2. \A h \in Heroes : c.pool[h] \in GoodPools
    BY GoodClockPools
  <2>3. \A h \in Heroes : c.pool[h]["response"] + ResponseGrant \in Nat
    BY <2>2, ConfigAssumption DEF GoodPools, Pools, PoolNames
  <2>4. \A h \in Heroes : [c.pool[h] EXCEPT !["response"] = @ + ResponseGrant] \in GoodPools
    BY <2>2, <2>3, RaiseGood
  <2>5. f \in [Heroes -> GoodPools]
    BY <2>2, <2>4
  <2>6. GrantResponse(c, request, heroes) = [d EXCEPT !.pool = f]
    BY <1>2 DEF GrantResponse, GoodClock, Clock
  <2> HIDE DEF d, f
  <2> QED
    BY <2>1, <2>5, <2>6, ReplacePools DEF Clock
<1> QED
  BY <1>1, <1>2

\* The level-up allowance replaces the old one.
LEMMA BeginLevelUpGood ==
  ASSUME NEW c, GoodClock(c)
  PROVE  /\ GoodClock(BeginLevelUp(c))
         /\ BeginLevelUp(c).turn = c.turn
         /\ BeginLevelUp(c).status = c.status
<1>1. CASE c.levelUp
  BY <1>1 DEF BeginLevelUp
<1>2. CASE ~c.levelUp
  <2> DEFINE d == [c EXCEPT !.levelUp = TRUE, !.moved = TRUE]
             f == [h \in Heroes |-> [c.pool[h] EXCEPT !["upgrade"] = UpgradeAllowance]]
  <2>1. d \in Clock /\ d.turn = c.turn /\ d.status = c.status
    BY DEF GoodClock, Clock
  <2>2. f \in [Heroes -> GoodPools]
    BY GoodClockPools, RaiseGood, ConfigAssumption
  <2>3. BeginLevelUp(c) = [d EXCEPT !.pool = f]
    BY <1>2 DEF BeginLevelUp, GoodClock, Clock
  <2> HIDE DEF d, f
  <2> QED
    BY <2>1, <2>2, <2>3, ReplacePools DEF Clock
<1> QED
  BY <1>1, <1>2

-----------------------------------------------------------------------------
(* What the pools may gain and lose. *)

\* Nothing a pool depends on differs.
SamePools(c, d) == /\ d.pool = c.pool /\ d.turn = c.turn
                   /\ d.credited = c.credited /\ d.bonus = c.bonus
                   /\ d.levelUp = c.levelUp

\* From c to d time was charged, or nothing happened.
Charged(c, d) ==
    /\ d.turn = c.turn /\ d.credited = c.credited /\ d.bonus = c.bonus
    /\ d.levelUp = c.levelUp
    /\ \A h \in Heroes :
         /\ \A n \in PoolNames \ {"overrun"} : d.pool[h][n] <= c.pool[h][n]
         /\ d.pool[h]["overrun"] >= c.pool[h]["overrun"]

\* From c to d the pools of one turn changed by grants alone, each with the mark
\* that keeps it from being repeated.
Granted(c, d) ==
    \A h \in Heroes :
      /\ \A n \in {"planning", "resolution", "bank", "overrun"} :
           d.pool[h][n] = c.pool[h][n]
      /\ \A n \in {"response", "initiative", "upgrade"} : d.pool[h][n] >= c.pool[h][n]
      /\ d.pool[h]["response"] > c.pool[h]["response"] => d.credited # c.credited
      /\ d.pool[h]["initiative"] > c.pool[h]["initiative"] =>
           c.bonus = NoHero /\ d.bonus # NoHero
      /\ d.pool[h]["upgrade"] > c.pool[h]["upgrade"] => ~c.levelUp /\ d.levelUp

\* Pools hold numbers.
LEMMA PoolNumbers ==
  ASSUME NEW c, GoodClock(c), NEW h \in Heroes, NEW n \in PoolNames
  PROVE  c.pool[h][n] \in Nat
  BY DEF GoodClock, Clock, Pools

\* A clock whose pools and marks are the same was neither charged nor granted.
LEMMA SameIsBoth ==
  ASSUME NEW c, GoodClock(c), NEW d, SamePools(c, d)
  PROVE  Charged(c, d) /\ Granted(c, d)
<1>1. \A h \in Heroes : \A n \in PoolNames : c.pool[h][n] \in Nat
  BY PoolNumbers
<1>2. \A h \in Heroes : \A n \in PoolNames :
        d.pool[h][n] <= c.pool[h][n] /\ d.pool[h][n] >= c.pool[h][n]
        /\ ~ (d.pool[h][n] > c.pool[h][n])
  BY <1>1 DEF SamePools
<1> QED
  BY <1>2 DEF SamePools, Charged, Granted, PoolNames

\* settle_clock charges.
LEMMA SettleCharges ==
  ASSUME NEW c, GoodClock(c), NEW e \in Nat
  PROVE  Charged(c, Settle(c, e))
<1>1. c \in Clock /\ c.kind \in Kinds
  BY DEF GoodClock, Clock
<1>2. CASE ~Charging(c)
  BY <1>2, SameIsBoth DEF Settle, SamePools
<1>3. CASE Charging(c)
  <2> DEFINE f == [h \in Heroes |-> IF h \in c.active THEN Spend(c.pool[h], c.kind, e)
                                                     ELSE c.pool[h]]
             d == [c EXCEPT !.pool = f]
  <2>1. Settle(c, e) = d
    BY <1>3 DEF Settle
  <2>2. /\ d.turn = c.turn /\ d.credited = c.credited /\ d.bonus = c.bonus
        /\ d.levelUp = c.levelUp /\ d.pool = f
    BY <1>1 DEF Clock
  <2>3. ASSUME NEW h \in Heroes
        PROVE  /\ \A n \in PoolNames \ {"overrun"} : f[h][n] <= c.pool[h][n]
               /\ f[h]["overrun"] >= c.pool[h]["overrun"]
    <3> DEFINE p == c.pool[h]
               own == Rest(p[OwnPool(c.kind)], e)
               res == IF SharesResolution(c.kind) THEN Rest(p["resolution"], own) ELSE own
               q == Spend(p, c.kind, e)
    <3>1. \A n \in PoolNames : p[n] \in Nat
      BY PoolNumbers
    <3>2. OwnPool(c.kind) \in {"planning", "initiative", "response", "upgrade"}
      BY DEF OwnPool
    <3> HIDE DEF p
    <3>3. own \in Nat
      BY <3>1, <3>2 DEF Rest, PoolNames
    <3>4. res \in Nat
      BY <3>1, <3>3 DEF Rest, PoolNames
    <3> HIDE DEF own, res
    <3>5. q = [n \in PoolNames |->
                CASE n = OwnPool(c.kind) -> Left(p[n], e)
                  [] n = "resolution" /\ SharesResolution(c.kind) -> Left(p[n], own)
                  [] n = "bank" -> Left(p[n], res)
                  [] n = "overrun" /\ ~EnforceTimeouts -> p[n] + Rest(p["bank"], res)
                  [] OTHER -> p[n]]
      BY DEF Spend, own, res
    <3>6. \A n \in PoolNames \ {"overrun"} : q[n] <= p[n]
      BY <3>1, <3>2, <3>3, <3>4, <3>5 DEF PoolNames, Left
    <3>7. q["overrun"] = p["overrun"] \/ q["overrun"] = p["overrun"] + Rest(p["bank"], res)
      BY <3>2, <3>5 DEF PoolNames
    <3>8. Rest(p["bank"], res) \in Nat
      BY <3>1, <3>4 DEF Rest, PoolNames
    <3> HIDE DEF q
    <3>9. q["overrun"] >= p["overrun"]
      BY <3>1, <3>7, <3>8 DEF PoolNames
    <3>10. f[h] = q \/ f[h] = p
      BY DEF p, q
    <3>11. \A n \in PoolNames : p[n] <= p[n] /\ p[n] >= p[n]
      BY <3>1
    <3> HIDE DEF f
    <3> QED
      BY <3>6, <3>9, <3>10, <3>11 DEF PoolNames, p
  <2> HIDE DEF f, d
  <2> QED
    BY <2>1, <2>2, <2>3 DEF Charged
<1> QED
  BY <1>2, <1>3

\* The four operators that stop targets leave the pools alone.
LEMMA StopsKeepPools ==
  ASSUME NEW c, GoodClock(c)
  PROVE  /\ SamePools(c, Stop(c)) /\ SamePools(c, Idle(c)) /\ SamePools(c, FinishClock(c))
         /\ SamePools(c, SuspendClock(c)) /\ SamePools(c, PauseClock(c))
<1>1. SamePools(c, Idle(c))
  BY ActivateGood DEF Idle, Kinds, SamePools
<1> DEFINE d == Stop(c)
<1>2. SamePools(c, d) /\ d \in Clock
  <2>1. d \in Clock
    BY StopsGood DEF GoodClock
  <2> QED
    BY <2>1 DEF SamePools, Stop, GoodClock, Clock
<1> HIDE DEF d
<1>3. \A s : /\ SamePools(c, [d EXCEPT !.status = s])
             /\ SamePools(c, [d EXCEPT !.status = s, !.ready = {}])
  BY <1>2 DEF SamePools, Clock
<1> QED
  BY <1>1, <1>2, <1>3 DEF d, FinishClock, SuspendClock, PauseClock

\* grant_initiative_bonus grants once a turn.
LEMMA InitiativeGrants ==
  ASSUME NEW c, GoodClock(c), NEW h \in Heroes
  PROVE  LET d == GrantInitiativeBonus(c, h)
         IN /\ Granted(c, d) /\ d.bonus # NoHero
            /\ d.credited = c.credited /\ d.levelUp = c.levelUp
            /\ c.bonus # NoHero => d = c
            /\ SamePools(c, d) \/ d.bonus # c.bonus
<1>1. CASE c.bonus # NoHero
  <2>1. SamePools(c, c)
    BY DEF SamePools
  <2> QED
    BY <1>1, <2>1, SameIsBoth DEF GrantInitiativeBonus
<1>2. CASE c.bonus = NoHero
  <2> DEFINE d == [c EXCEPT !.bonus = h, !.moved = TRUE,
                            !.pool[h]["initiative"] = InitiativeBonus]
  <2>1. GrantInitiativeBonus(c, h) = d
    BY <1>2 DEF GrantInitiativeBonus
  <2>2. /\ d.bonus = h /\ d.credited = c.credited /\ d.levelUp = c.levelUp
        /\ d.pool = [c.pool EXCEPT ![h] = [@ EXCEPT !["initiative"] = InitiativeBonus]]
        /\ h # NoHero
    BY ConfigAssumption DEF GoodClock, Clock
  <2> HIDE DEF d
  <2>3. \A g \in Heroes : \A n \in PoolNames :
           d.pool[g][n] = IF g = h /\ n = "initiative" THEN InitiativeBonus ELSE c.pool[g][n]
    BY <2>2 DEF GoodClock, Clock, Pools
  <2>4. \A g \in Heroes : \A n \in PoolNames : c.pool[g][n] \in Nat
    BY PoolNumbers
  <2>5. \A g \in Heroes : c.pool[g]["initiative"] <= InitiativeBonus
    BY DEF GoodClock, Solvent
  <2>6. Granted(c, d)
    BY <1>2, <2>2, <2>3, <2>4, <2>5, ConfigAssumption DEF Granted, PoolNames
  <2> QED
    BY <1>2, <2>1, <2>2, <2>6
<1> QED
  BY <1>1, <1>2

\* grant_response grants once a request.
LEMMA ResponseGrants ==
  ASSUME NEW c, GoodClock(c), NEW request \in Nat, NEW heroes \in SUBSET Heroes
  PROVE  LET d == GrantResponse(c, request, heroes)
         IN /\ Granted(c, d)
            /\ d.bonus = c.bonus /\ d.levelUp = c.levelUp
            /\ request \in c.credited => d = c
            /\ SamePools(c, d) \/ d.credited # c.credited
<1>1. CASE request \in c.credited
  <2>1. SamePools(c, c)
    BY DEF SamePools
  <2> QED
    BY <1>1, <2>1, SameIsBoth DEF GrantResponse
<1>2. CASE request \notin c.credited
  <2> DEFINE f == [h \in Heroes |->
                     IF h \in heroes
                     THEN [c.pool[h] EXCEPT !["response"] = @ + ResponseGrant]
                     ELSE c.pool[h]]
             d == [c EXCEPT !.credited = @ \cup {request}, !.moved = TRUE, !.pool = f]
  <2>1. GrantResponse(c, request, heroes) = d
    BY <1>2 DEF GrantResponse
  <2>2. /\ d.bonus = c.bonus /\ d.levelUp = c.levelUp /\ d.pool = f
        /\ d.credited = c.credited \cup {request}
    BY DEF GoodClock, Clock
  <2>3. \A g \in Heroes : \A n \in PoolNames :
           f[g][n] = IF g \in heroes /\ n = "response" THEN c.pool[g][n] + ResponseGrant
                                                       ELSE c.pool[g][n]
    BY DEF GoodClock, Clock, Pools
  <2> HIDE DEF d, f
  <2>4. \A g \in Heroes : \A n \in PoolNames : c.pool[g][n] \in Nat
    BY PoolNumbers
  <2>5. d.credited # c.credited
    BY <1>2, <2>2
  <2>6. Granted(c, d)
    BY <2>2, <2>3, <2>4, <2>5, ConfigAssumption DEF Granted, PoolNames
  <2> QED
    BY <1>2, <2>1, <2>2, <2>5, <2>6
<1> QED
  BY <1>1, <1>2

\* begin_level_up grants once a round.
LEMMA LevelUpGrants ==
  ASSUME NEW c, GoodClock(c)
  PROVE  LET d == BeginLevelUp(c)
         IN /\ Granted(c, d) /\ d.levelUp
            /\ d.bonus = c.bonus /\ d.credited = c.credited
            /\ c.levelUp => d = c
            /\ SamePools(c, d) \/ d.levelUp # c.levelUp
<1>1. CASE c.levelUp
  <2>1. SamePools(c, c)
    BY DEF SamePools
  <2> QED
    BY <1>1, <2>1, SameIsBoth DEF BeginLevelUp
<1>2. CASE ~c.levelUp
  <2> DEFINE f == [h \in Heroes |-> [c.pool[h] EXCEPT !["upgrade"] = UpgradeAllowance]]
             d == [c EXCEPT !.levelUp = TRUE, !.moved = TRUE, !.pool = f]
  <2>1. BeginLevelUp(c) = d
    BY <1>2 DEF BeginLevelUp
  <2>2. /\ d.bonus = c.bonus /\ d.credited = c.credited /\ d.pool = f /\ d.levelUp = TRUE
    BY DEF GoodClock, Clock
  <2>3. \A g \in Heroes : \A n \in PoolNames :
           f[g][n] = IF n = "upgrade" THEN UpgradeAllowance ELSE c.pool[g][n]
    BY DEF GoodClock, Clock, Pools
  <2> HIDE DEF d, f
  <2>4. \A g \in Heroes : \A n \in PoolNames : c.pool[g][n] \in Nat
    BY PoolNumbers
  <2>5. \A g \in Heroes : c.pool[g]["upgrade"] <= UpgradeAllowance
    BY DEF GoodClock, Solvent
  <2>6. Granted(c, d)
    BY <1>2, <2>2, <2>3, <2>4, <2>5, ConfigAssumption DEF Granted, PoolNames
  <2>7. d.levelUp # c.levelUp
    BY <1>2, <2>2
  <2> QED
    BY <1>2, <2>1, <2>2, <2>6, <2>7
<1> QED
  BY <1>1, <1>2

\* Neither a grant nor a new target touches what counts the automatic turns.
SameCount(c, d) == /\ d.human = c.human /\ d.auto = c.auto /\ d.ready = c.ready
                   /\ d.turn = c.turn /\ d.status = c.status

\* The three grants.
LEMMA GrantsKeepCount ==
  ASSUME NEW c, GoodClock(c)
  PROVE  /\ \A h : SameCount(c, GrantInitiativeBonus(c, h))
         /\ \A r, H : SameCount(c, GrantResponse(c, r, H))
         /\ SameCount(c, BeginLevelUp(c))
<1>0. c \in Clock
  BY DEF GoodClock
<1>1. ASSUME NEW h PROVE SameCount(c, GrantInitiativeBonus(c, h))
  BY <1>0 DEF SameCount, GrantInitiativeBonus, Clock
<1>2. ASSUME NEW r, NEW H PROVE SameCount(c, GrantResponse(c, r, H))
  BY <1>0 DEF SameCount, GrantResponse, Clock
<1>3. SameCount(c, BeginLevelUp(c))
  BY <1>0 DEF SameCount, BeginLevelUp, Clock
<1> QED
  BY <1>1, <1>2, <1>3

-----------------------------------------------------------------------------
(* Deadlines. *)

\* What a player can still spend is a number of ticks.
LEMMA UsableType ==
  ASSUME NEW c \in Clock, NEW h \in Heroes, NEW kind \in Kinds
  PROVE  Usable(c.pool[h], kind) \in Nat
<1>1. c.pool[h] \in Pools /\ OwnPool(kind) \in PoolNames
  BY DEF Clock, OwnPool, PoolNames
<1> QED
  BY <1>1 DEF Usable, Pools, PoolNames

\* milliseconds_until_next_exhaustion: the delay is a number of ticks, and no
\* running target runs dry earlier.
LEMMA DelayIsLeast ==
  ASSUME NEW c \in Clock, c.active # {}
  PROVE  /\ Delay(c) \in Nat
         /\ \A h \in c.active : Delay(c) <= Usable(c.pool[h], c.kind)
         /\ \E h \in c.active : Delay(c) = Usable(c.pool[h], c.kind)
<1> DEFINE T == {Usable(c.pool[h], c.kind) : h \in c.active}
<1>1. c.active \subseteq Heroes /\ c.kind \in Kinds
  BY DEF Clock
<1>2. T \subseteq Nat /\ T # {}
  BY <1>1, UsableType
<1>3. \E d \in T : \A y \in T : d <= y
  <2> DEFINE R == OpToRel(<, Nat)
  <2>1. \A x, y \in Nat : x < y => <<x, y>> \in R
    BY Zenon DEF OpToRel
  <2>2. IsWellFoundedOn(R, Nat)
    BY NatLessThanWellFounded, Zenon
  <2> HIDE DEF R, T
  <2>3. PICK d \in T : \A y \in T : ~ (<<y, d>> \in R)
    BY <1>2, <2>2, WFMin, Zenon
  <2>4. d \in Nat /\ \A y \in T : y \in Nat
    BY <1>2
  <2>5. \A y \in T : ~ (y < d)
    BY <2>1, <2>3, <2>4, Zenon
  <2>6. \A y \in T : d <= y
    BY <2>4, <2>5
  <2> QED
    BY <2>6
<1>4. \E x \in T : \A h \in c.active : x <= Usable(c.pool[h], c.kind)
  BY <1>3
<1>5. Delay(c) \in T /\ \A h \in c.active : Delay(c) <= Usable(c.pool[h], c.kind)
  BY <1>4 DEF Delay
<1> QED
  BY <1>2, <1>5

-----------------------------------------------------------------------------
(* The inductive invariant of MatchClock. *)

\* A prompt in Resolution, and one a rollback returns to, is addressed to somebody.
GoodTables == {t \in Table : /\ t.phase = "RESOLUTION" => t.request.to # {}
                             /\ t.anchor # NoRequest => t.anchor.to # {}}

\* Every grant that the phase and the pending request call for was made.
Paid(c, t) ==
    /\ t.phase = "LEVEL_UP" => c.levelUp
    /\ t.phase = "RESOLUTION" =>
         /\ t.request.team \/ t.request.owner \notin t.request.to \cup {NoHero} =>
              t.request.id \in c.credited
         /\ ~t.request.team /\ t.request.owner \in t.request.to => c.bonus # NoHero

\* ClockAgrees of any clock and table, whoever holds the lock.
Sync(c, t, open) ==
    /\ c.status = "RUNNING" /\ ~open => Agrees(c, t) /\ Paid(c, t)
    /\ c.status # "UNTIMED" /\ (c.status # "RUNNING" \/ open) => c.active = {}

\* A finished match has no running target.
Rested(c) == c.status = "FINISHED" => c.active = {}

InSync == \/ job.pc \in {"idle", "apply", "rewind"}
          \/ job.pc \in {"due", "prepared"} /\ job.who # "vote"

\* The file a restart loads.
GoodFile(f) == /\ f \in [table : Table, clock : Clock]
               /\ f.table \in GoodTables /\ GoodClock(f.clock) /\ Rested(f.clock)

\* A client's handler works for a hero.
GoodJobs == {j \in Job : j.who = "client" => j.hero \in Heroes}

\* The variables that carry no more than their type.
RestTyped == /\ lag \in Nat
             /\ proposal \in {"none", "pause", "patch", "rewind", "reveal_player"}
             /\ timer \in [on : BOOLEAN, left : Nat]
             /\ job \in GoodJobs /\ crashes \in Nat /\ lastHuman \in Nat

\* The inductive invariant: types, solvency, and ClockAgrees wherever the
\* handlers keep it.
IInv ==
    /\ table \in GoodTables /\ GoodClock(clock) /\ Rested(clock)
    /\ GoodFile(saved) /\ RestTyped
    /\ InSync => Sync(clock, table, Open)

-----------------------------------------------------------------------------
(* The engine's tables. *)

\* The constants of the table have their types.
LEMMA TableConstants ==
  /\ NoRequest \in Request
  /\ Fresh \in [Heroes -> Plans]
  /\ \A who \in Addressees : who.to \in SUBSET Heroes /\ who.to # {} /\ who.team \in BOOLEAN
<1>1. NoRequest \in Request
  BY DEF NoRequest, Request
<1>2. Fresh \in [Heroes -> Plans]
  BY DEF Fresh, Plans
<1>3. ASSUME NEW who \in Addressees
      PROVE  who.to \in SUBSET Heroes /\ who.to # {} /\ who.team \in BOOLEAN
  <2>1. CASE \E h \in Heroes : who = [to |-> {h}, team |-> FALSE]
    BY <2>1
  <2>2. CASE \E T \in Teams : who = [to |-> T, team |-> TRUE]
    <3>1. PICK T \in Teams : who = [to |-> T, team |-> TRUE]
      BY <2>2
    <3>2. T \in SUBSET Heroes /\ T # {}
      BY MatchAssumption
    <3> QED
      BY <3>1, <3>2
  <2> QED
    BY <2>1, <2>2 DEF Addressees
<1> QED
  BY <1>1, <1>2, <1>3

\* A table whose fields are good is good.
LEMMA GoodFields ==
  ASSUME NEW t \in GoodTables, NEW phase \in Phases, NEW turn \in Nat,
         NEW plan \in [Heroes -> Plans], NEW upgrades \in SUBSET Heroes,
         NEW request \in Request, NEW anchor \in Request, NEW nextId \in Nat,
         phase = "RESOLUTION" => request.to # {},
         anchor # NoRequest => anchor.to # {}
  PROVE  [t EXCEPT !.phase = phase, !.turn = turn, !.plan = plan,
                   !.upgrades = upgrades, !.request = request, !.anchor = anchor,
                   !.nextId = nextId]
           \in GoodTables
  BY DEF GoodTables, Table

\* Whatever the engine does next (process_stack, EndPhaseStep), the table is
\* a good one.
LEMMA EngineNextGood ==
  ASSUME NEW t \in GoodTables
  PROVE  /\ EngineNext(t) \subseteq GoodTables
         /\ NewTurns(t) \cup Ends(t) \subseteq GoodTables
         /\ \A U \in SUBSET Heroes : Upgrades(t, U) \subseteq GoodTables
<1>0. /\ t \in Table /\ t.turn \in Nat /\ t.nextId \in Nat /\ t.nextId + 1 \in Nat
      /\ t.upgrades \in SUBSET Heroes /\ t.request \in Request
      /\ t.anchor \in Request /\ (t.anchor # NoRequest => t.anchor.to # {})
      /\ t.plan \in [Heroes -> Plans]
  BY DEF GoodTables, Table
<1>1. Prompts(t) \subseteq GoodTables
  <2>1. ASSUME NEW p \in NewRequests(t), NEW a \in Anchors(t, p)
        PROVE  Ask(t, p, a) \in GoodTables
    <3>1. p \in Request /\ p.to # {}
      BY <1>0, TableConstants DEF Request, NewRequests
    <3>2. a \in Request /\ (a # NoRequest => a.to # {})
      BY <1>0, <3>1, TableConstants DEF Anchors
    <3>3. Ask(t, p, a) =
            [t EXCEPT !.phase = "RESOLUTION", !.turn = t.turn, !.plan = Fresh,
                      !.upgrades = t.upgrades, !.request = p, !.anchor = a,
                      !.nextId = t.nextId + 1]
      BY <1>0 DEF Ask, Table
    <3>4. [t EXCEPT !.phase = "RESOLUTION", !.turn = t.turn, !.plan = Fresh,
                    !.upgrades = t.upgrades, !.request = p, !.anchor = a,
                    !.nextId = t.nextId + 1]
            \in GoodTables
      BY <1>0, <3>1, <3>2, TableConstants, GoodFields DEF Phases
    <3> QED
      BY <3>3, <3>4, Zenon
  <2> QED
    BY <2>1 DEF Prompts
<1>2. NewTurns(t) \subseteq GoodTables
  <2>1. ASSUME NEW n \in t.turn + 1 .. MaxTurn, NEW E \in SUBSET Heroes
        PROVE  NewTurn(t, n, E) \in GoodTables
    <3> DEFINE plan == [h \in Heroes |-> IF h \in E THEN "passed" ELSE "none"]
    <3>1. n \in Nat /\ plan \in [Heroes -> Plans]
      BY <1>0, MatchAssumption DEF Plans
    <3>2. NewTurn(t, n, E) =
            [t EXCEPT !.phase = "PLANNING", !.turn = n, !.plan = plan,
                      !.upgrades = {}, !.request = NoRequest,
                      !.anchor = NoRequest, !.nextId = t.nextId]
      BY <1>0 DEF NewTurn, Table
    <3> HIDE DEF plan
    <3>3. [t EXCEPT !.phase = "PLANNING", !.turn = n, !.plan = plan,
                    !.upgrades = {}, !.request = NoRequest,
                    !.anchor = NoRequest, !.nextId = t.nextId]
            \in GoodTables
      BY <1>0, <3>1, TableConstants DEF Phases, GoodTables, Table
    <3> QED
      BY <3>2, <3>3, Zenon
  <2> QED
    BY <2>1 DEF NewTurns
<1>3. Ends(t) \subseteq GoodTables
  <2>1. [t EXCEPT !.phase = "GAME_OVER", !.plan = Fresh, !.upgrades = {},
                  !.request = NoRequest, !.anchor = NoRequest]
          = [t EXCEPT !.phase = "GAME_OVER", !.turn = t.turn, !.plan = Fresh,
                      !.upgrades = {}, !.request = NoRequest,
                      !.anchor = NoRequest, !.nextId = t.nextId]
    BY <1>0 DEF Table
  <2>2. [t EXCEPT !.phase = "GAME_OVER", !.turn = t.turn, !.plan = Fresh,
                  !.upgrades = {}, !.request = NoRequest,
                  !.anchor = NoRequest, !.nextId = t.nextId]
          \in GoodTables
    BY <1>0, TableConstants DEF Phases, GoodTables, Table
  <2> QED
    BY <2>1, <2>2 DEF Ends
<1>4. ASSUME NEW U \in SUBSET Heroes
      PROVE  Upgrades(t, U) \subseteq GoodTables
  <2> DEFINE r == [NoRequest EXCEPT !.id = t.nextId]
  <2>1. r \in Request
    BY <1>0, TableConstants DEF Request
  <2>2. [t EXCEPT !.phase = "LEVEL_UP", !.plan = Fresh, !.upgrades = U,
                  !.nextId = @ + 1, !.anchor = NoRequest, !.request = r]
          = [t EXCEPT !.phase = "LEVEL_UP", !.turn = t.turn, !.plan = Fresh,
                      !.upgrades = U, !.request = r,
                      !.anchor = NoRequest, !.nextId = t.nextId + 1]
    BY <1>0 DEF Table
  <2> HIDE DEF r
  <2>3. [t EXCEPT !.phase = "LEVEL_UP", !.turn = t.turn, !.plan = Fresh,
                  !.upgrades = U, !.request = r,
                  !.anchor = NoRequest, !.nextId = t.nextId + 1]
          \in GoodTables
    BY <1>0, <2>1, TableConstants, GoodFields DEF Phases
  <2> QED
    BY <2>2, <2>3 DEF Upgrades, r
<1> QED
  BY <1>1, <1>2, <1>3, <1>4 DEF EngineNext

\* A planning decision of one hero (_check_phase_transition).
LEMMA PlanGood ==
  ASSUME NEW t \in GoodTables, NEW h \in Heroes, NEW plan \in Plans
  PROVE  Plan(t, h, plan) \subseteq GoodTables
<1> DEFINE u == [t EXCEPT !.plan[h] = plan]
<1>1. u \in GoodTables
  BY DEF GoodTables, Table
<1> QED
  BY <1>1, EngineNextGood DEF Plan

\* One upgrade, or all that a hero owes.
LEMMA TakeUpgradeGood ==
  ASSUME NEW t \in GoodTables, NEW h \in Heroes
  PROVE  TakeUpgrade(t, h) \cup TakeAllUpgrades(t, h) \subseteq GoodTables
<1>1. t.upgrades \in SUBSET Heroes /\ t.upgrades \ {h} \in SUBSET Heroes
  BY DEF GoodTables, Table
<1> QED
  BY <1>1, EngineNextGood DEF TakeUpgrade, TakeAllUpgrades

\* An automatic answer only takes the way back.
LEMMA FinalGood ==
  ASSUME NEW t \in GoodTables
  PROVE  /\ Final(t) \in GoodTables
         /\ Final(t).phase = t.phase /\ Final(t).turn = t.turn /\ Final(t).plan = t.plan
         /\ Final(t).request = t.request /\ Final(t).upgrades = t.upgrades
         /\ Final(t).anchor = NoRequest
  BY TableConstants DEF Final, GoodTables, Table

\* Every decision the engine accepts leads to good tables.
LEMMA DecideGood ==
  ASSUME NEW t \in GoodTables, NEW locked, NEW h \in Heroes, NEW msg, NEW req
  PROVE  Decide(t, locked, h, msg, req) \subseteq GoodTables
<1>1. t.plan[h] \in Plans /\ \A p \in Plans : Plan(t, h, p) \subseteq GoodTables
  BY PlanGood DEF GoodTables, Table
<1>2. {"none", "open", "one", "two", "passed"} \subseteq Plans
  BY DEF Plans
<1>3. [t EXCEPT !.plan[h] = IF @ = "two" THEN "open" ELSE "none"] \in GoodTables
  BY <1>2 DEF GoodTables, Table
<1> DEFINE commit == {"one"} \cup (IF h \in TwoCard THEN {"open"} ELSE {})
           closed == IF t.plan[h] = "open" THEN "one" ELSE t.plan[h]
<1>4. UNION {Plan(t, h, p) : p \in commit} \subseteq GoodTables
  BY <1>1, <1>2
<1>5. Plan(t, h, closed) \subseteq GoodTables
  BY <1>1, <1>2
<1>6. EngineNext(t) \subseteq GoodTables /\ TakeUpgrade(t, h) \subseteq GoodTables
  BY EngineNextGood, TakeUpgradeGood
<1>7. t.anchor # NoRequest => [t EXCEPT !.request = t.anchor] \in GoodTables
  BY DEF GoodTables, Table
<1> HIDE DEF GoodTables
<1> QED
  BY <1>1, <1>2, <1>3, <1>4, <1>5, <1>6, <1>7 DEF Decide

-----------------------------------------------------------------------------
(* The clock follows the table. *)

\* The parts of a good table.
LEMMA TableParts ==
  ASSUME NEW t \in GoodTables
  PROVE  /\ t \in Table /\ t.phase \in Phases /\ t.turn \in Nat
         /\ t.upgrades \in SUBSET Heroes /\ t.plan \in [Heroes -> Plans]
         /\ t.request.id \in Nat /\ t.request.to \in SUBSET Heroes
         /\ t.request.team \in BOOLEAN /\ t.request.owner \in Heroes \cup {NoHero}
         /\ t.phase = "RESOLUTION" => t.request.to # {}
<1>1. t \in Table /\ t.request \in Request /\ (t.phase = "RESOLUTION" => t.request.to # {})
  BY DEF GoodTables, Table
<1> QED
  BY <1>1 DEF Table, Request

\* The targets that reconcile_game_clock sets are those the table waits for.
LEMMA SetTargetsAgrees ==
  ASSUME NEW c, GoodClock(c), NEW t \in GoodTables, c.turn = t.turn,
         t.phase # "GAME_OVER"
  PROVE  /\ GoodClock(SetTargets(c, t))
         /\ SetTargets(c, t).status = c.status
         /\ Agrees(SetTargets(c, t), t) /\ Paid(SetTargets(c, t), t)
<1> DEFINE d == SetTargets(c, t)
           to == t.request.to
           id == t.request.id
           owner == t.request.owner
<1>1. CASE t.phase = "PLANNING"
  <2> DEFINE active == {h \in Heroes : ~PlanningComplete(t, h) /\ h \notin c.locked}
  <2>1. d = Activate(c, "PLANNING", active, active, 0)
    BY <1>1 DEF SetTargets
  <2>2. active \in SUBSET Heroes /\ "PLANNING" \in Kinds
    BY DEF Kinds
  <2>3. active = {h \in Heroes \ c.locked : t.plan[h] \in {"none", "open"}}
    BY TableParts DEF PlanningComplete
  <2> HIDE DEF active
  <2>4. /\ GoodClock(d) /\ d.status = c.status /\ d.turn = t.turn
        /\ d.kind = "PLANNING" /\ d.request = 0 /\ d.locked = c.locked
        /\ d.active = active /\ d.deciders = active
    BY <2>1, <2>2, ActivateGood
  <2> HIDE DEF d
  <2> QED
    BY <1>1, <2>3, <2>4 DEF Agrees, Paid, d
<1>2. CASE t.phase = "LEVEL_UP"
  <2>1. d = Activate(BeginLevelUp(c), "LEVEL_UP", t.upgrades, t.upgrades, id)
    BY <1>2 DEF SetTargets
  <2>2. /\ GoodClock(d) /\ d.status = c.status /\ d.turn = t.turn
        /\ d.kind = "LEVEL_UP" /\ d.request = id
        /\ d.active = t.upgrades /\ d.deciders = t.upgrades /\ d.levelUp
    BY <2>1, ActivateGood, BeginLevelUpGood, LevelUpGrants, TableParts DEF Kinds
  <2> HIDE DEF d
  <2> QED
    BY <1>2, <2>2 DEF Agrees, Paid, d
<1>3. CASE t.phase = "RESOLUTION" /\ t.request.team
  <2> DEFINE g == GrantResponse(c, id, to)
             running == {h \in to : Usable(g.pool[h], "RESPONSE") > 0}
             active == IF running = {} THEN to ELSE running
  <2>1. d = Activate(g, "RESPONSE", active, to, id)
    BY <1>3 DEF SetTargets
  <2>2. GoodClock(g) /\ g.turn = c.turn /\ g.status = c.status /\ id \in g.credited
    BY GrantResponseGood, TableParts
  <2>3. active \in SUBSET Heroes /\ active \subseteq to /\ active # {}
    BY <1>3, TableParts
  <2> HIDE DEF g, active
  <2>4. /\ GoodClock(d) /\ d.status = c.status /\ d.turn = t.turn
        /\ d.kind = "RESPONSE" /\ d.request = id
        /\ d.active = active /\ d.deciders = to /\ id \in d.credited
    BY <2>1, <2>2, <2>3, ActivateGood, TableParts DEF Kinds
  <2> HIDE DEF d
  <2> QED
    BY <1>3, <2>3, <2>4 DEF Agrees, Paid, d
<1>4. CASE t.phase = "RESOLUTION" /\ ~t.request.team /\ owner \notin to \cup {NoHero}
  <2> DEFINE g == GrantResponse(c, id, to)
  <2>1. d = Activate(g, "RESPONSE", to, to, id)
    BY <1>4 DEF SetTargets
  <2>2. GoodClock(g) /\ g.turn = c.turn /\ g.status = c.status /\ id \in g.credited
    BY GrantResponseGood, TableParts
  <2> HIDE DEF g
  <2>3. /\ GoodClock(d) /\ d.status = c.status /\ d.turn = t.turn
        /\ d.kind = "RESPONSE" /\ d.request = id
        /\ d.active = to /\ d.deciders = to /\ id \in d.credited
    BY <2>1, <2>2, ActivateGood, TableParts DEF Kinds
  <2> HIDE DEF d
  <2> QED
    BY <1>4, <2>3, TableParts DEF Agrees, Paid, d
<1>5. CASE t.phase = "RESOLUTION" /\ ~t.request.team /\ owner \in to \cup {NoHero}
  <2> DEFINE g == IF owner \in to THEN GrantInitiativeBonus(c, owner) ELSE c
  <2>1. d = Activate(g, "RESOLUTION", to, to, id)
    BY <1>5 DEF SetTargets
  <2>2. /\ GoodClock(g) /\ g.turn = c.turn /\ g.status = c.status
        /\ owner \in to => g.bonus # NoHero
    <3>1. owner \in to => owner \in Heroes
      BY TableParts
    <3> QED
      BY <3>1, GrantInitiativeBonusGood, InitiativeGrants
  <2> HIDE DEF g
  <2>3. /\ GoodClock(d) /\ d.status = c.status /\ d.turn = t.turn
        /\ d.kind = "RESOLUTION" /\ d.request = id
        /\ d.active = to /\ d.deciders = to
        /\ owner \in to => d.bonus # NoHero
    BY <2>1, <2>2, ActivateGood, TableParts DEF Kinds
  <2> HIDE DEF d
  <2> QED
    BY <1>5, <2>3, TableParts DEF Agrees, Paid, d
<1> QED
  BY <1>1, <1>2, <1>3, <1>4, <1>5, TableParts DEF Phases

\* reconcile_game_clock, whatever happened to clock and table before it: the
\* clocks that run are those of the players the table waits for.
LEMMA ReconcileSync ==
  ASSUME NEW c, GoodClock(c), Rested(c), NEW t \in GoodTables, NEW open \in BOOLEAN
  PROVE  /\ GoodClock(Reconcile(c, t, open))
         /\ Rested(Reconcile(c, t, open))
         /\ Sync(Reconcile(c, t, open), t, open)
<1> DEFINE d == Reconcile(c, t, open)
<1>1. c \in Clock /\ c.status \in Statuses
  BY DEF GoodClock, Clock
<1>2. CASE c.status \in {"FINISHED", "UNTIMED"}
  <2>1. d = c
    BY <1>2 DEF Reconcile, Held
  <2> HIDE DEF d
  <2> QED
    BY <1>2, <2>1 DEF Rested, Sync, d
<1>3. CASE Held(c)
  <2>1. d = Idle(c)
    BY <1>3 DEF Reconcile, Held
  <2>2. GoodClock(d) /\ d.status = c.status /\ d.active = {}
    BY <2>1, StopsGood
  <2> HIDE DEF d
  <2> QED
    BY <1>3, <2>2 DEF Rested, Sync, Held, d
<1>4. CASE c.status = "RUNNING" /\ t.phase = "GAME_OVER"
  <2>1. d = FinishClock(c)
    BY <1>4 DEF Reconcile, Held
  <2>2. GoodClock(d) /\ d.status = "FINISHED" /\ d.active = {}
    BY <2>1, StopsGood
  <2> HIDE DEF d
  <2> QED
    BY <2>2 DEF Rested, Sync, d
<1>5. CASE c.status = "RUNNING" /\ t.phase # "GAME_OVER" /\ open
  <2>1. d = Idle(c)
    BY <1>5 DEF Reconcile, Held
  <2>2. GoodClock(d) /\ d.status = c.status /\ d.active = {}
    BY <2>1, StopsGood
  <2> HIDE DEF d
  <2> QED
    BY <1>5, <2>2 DEF Rested, Sync, d
<1>6. CASE c.status = "RUNNING" /\ t.phase # "GAME_OVER" /\ ~open
  <2> DEFINE counted == [c EXCEPT !.auto = AutomaticTurns(c, t)]
             begun == BeginSharedTurn(counted, t.turn)
  <2>1. d = IF Abandoned(c, t) THEN SuspendClock(counted) ELSE SetTargets(begun, t)
    BY <1>6 DEF Reconcile, Held
  <2>2. GoodClock(counted) /\ counted.status = "RUNNING"
    <3>1. c.auto \in Nat
      BY <1>1 DEF Clock
    <3>2. AutomaticTurns(c, t) \in Nat
      BY <3>1 DEF AutomaticTurns
    <3> QED
      BY <1>6, <3>2 DEF GoodClock, Clock
  <2> HIDE DEF counted
  <2>3. CASE Abandoned(c, t)
    <3>1. /\ GoodClock(d) /\ d.status = "SUSPENDED_FOR_INACTIVITY" /\ d.active = {}
      BY <2>1, <2>2, <2>3, StopsGood
    <3> HIDE DEF d
    <3> QED
      BY <3>1 DEF Rested, Sync, d
  <2>4. CASE ~Abandoned(c, t)
    <3>1. GoodClock(begun) /\ begun.turn = t.turn /\ begun.status = "RUNNING"
      BY <2>2, BeginSharedTurnGood, TableParts
    <3> HIDE DEF begun
    <3>2. GoodClock(d) /\ d.status = "RUNNING" /\ Agrees(d, t) /\ Paid(d, t)
      BY <1>6, <2>1, <2>4, <3>1, SetTargetsAgrees
    <3> HIDE DEF d
    <3> QED
      BY <1>6, <3>2 DEF Rested, Sync, d
  <2> QED
    BY <2>3, <2>4
<1> QED
  BY <1>1, <1>2, <1>3, <1>4, <1>5, <1>6 DEF Statuses, Held

\* The marks that keep a grant from being repeated.
Marks(c) == <<c.levelUp, c.credited, c.bonus>>

\* Setting the targets makes at most the one grant the table calls for, and none
\* that was made.
LEMMA SetTargetsGrants ==
  ASSUME NEW c, GoodClock(c), NEW t \in GoodTables
  PROVE  LET d == SetTargets(c, t)
         IN /\ GoodClock(d) /\ Granted(c, d) /\ SameCount(c, d)
            /\ SamePools(c, d) \/ Marks(d) # Marks(c)
            /\ Paid(c, t) => SamePools(c, d)
<1> DEFINE d == SetTargets(c, t)
           to == t.request.to
           id == t.request.id
           owner == t.request.owner
<1>1. ASSUME NEW g, GoodClock(g), Granted(c, g), SameCount(c, g),
             SamePools(c, g) \/ Marks(g) # Marks(c),
             Paid(c, t) => g = c,
             NEW kind \in Kinds, NEW active \in SUBSET Heroes,
             NEW deciders \in SUBSET Heroes, NEW request \in Nat,
             d = Activate(g, kind, active, deciders, request)
      PROVE  /\ GoodClock(d) /\ Granted(c, d) /\ SameCount(c, d)
             /\ SamePools(c, d) \/ Marks(d) # Marks(c)
             /\ Paid(c, t) => SamePools(c, d)
  <2> HIDE DEF d
  <2>1. /\ GoodClock(d) /\ d.status = g.status /\ d.turn = g.turn
        /\ d.credited = g.credited /\ d.pool = g.pool
        /\ d.bonus = g.bonus /\ d.levelUp = g.levelUp
        /\ d.human = g.human /\ d.auto = g.auto /\ d.ready = g.ready
    BY <1>1, ActivateGood
  <2>2. Granted(c, d) /\ SameCount(c, d)
    BY <1>1, <2>1 DEF Granted, SameCount
  <2>3. SamePools(c, d) \/ Marks(d) # Marks(c)
    BY <1>1, <2>1 DEF SamePools, Marks
  <2>4. Paid(c, t) => SamePools(c, d)
    BY <1>1, <2>1 DEF SamePools
  <2> QED
    BY <2>1, <2>2, <2>3, <2>4
<1>2. SamePools(c, c) /\ SameCount(c, c) /\ Granted(c, c)
  BY SameIsBoth DEF SamePools, SameCount
<1>3. CASE t.phase = "PLANNING"
  <2> DEFINE active == {h \in Heroes : ~PlanningComplete(t, h) /\ h \notin c.locked}
  <2>1. d = Activate(c, "PLANNING", active, active, 0) /\ "PLANNING" \in Kinds
    BY <1>3 DEF SetTargets, Kinds
  <2>2. active \in SUBSET Heroes
    OBVIOUS
  <2> HIDE DEF active, d
  <2>3. d = Activate(c, "PLANNING", active, active, 0)
    BY <2>1
  <2> QED
    BY <1>1, <1>2, <2>1, <2>2 DEF d
<1>4. CASE t.phase = "LEVEL_UP"
  <2> DEFINE g == BeginLevelUp(c)
  <2>1. d = Activate(g, "LEVEL_UP", t.upgrades, t.upgrades, id) /\ "LEVEL_UP" \in Kinds
    BY <1>4 DEF SetTargets, Kinds
  <2>2. GoodClock(g) /\ Granted(c, g) /\ SameCount(c, g)
    BY BeginLevelUpGood, LevelUpGrants, GrantsKeepCount
  <2>3. SamePools(c, g) \/ Marks(g) # Marks(c)
    BY LevelUpGrants DEF Marks
  <2>4. Paid(c, t) => g = c
    BY <1>4, LevelUpGrants DEF Paid
  <2> HIDE DEF g, d
  <2> QED
    BY <1>1, <2>1, <2>2, <2>3, <2>4, TableParts DEF d
<1>5. CASE /\ t.phase = "RESOLUTION"
           /\ t.request.team \/ owner \notin to \cup {NoHero}
  <2> DEFINE g == GrantResponse(c, id, to)
             running == {h \in to : Usable(g.pool[h], "RESPONSE") > 0}
             some == IF running = {} THEN to ELSE running
             active == IF t.request.team THEN some ELSE to
  <2>1. d = Activate(g, "RESPONSE", active, to, id) /\ "RESPONSE" \in Kinds
    BY <1>5 DEF SetTargets, Kinds
  <2>2. GoodClock(g) /\ Granted(c, g) /\ SameCount(c, g)
    BY GrantResponseGood, ResponseGrants, GrantsKeepCount, TableParts
  <2>3. SamePools(c, g) \/ Marks(g) # Marks(c)
    BY ResponseGrants, TableParts DEF Marks
  <2>4. Paid(c, t) => g = c
    BY <1>5, ResponseGrants, TableParts DEF Paid
  <2>5. active \in SUBSET Heroes
    BY TableParts
  <2> HIDE DEF g, active, d
  <2> QED
    BY <1>1, <2>1, <2>2, <2>3, <2>4, <2>5, TableParts DEF d
<1>6. CASE t.phase = "RESOLUTION" /\ ~t.request.team /\ owner \in to \cup {NoHero}
  <2> DEFINE g == IF owner \in to THEN GrantInitiativeBonus(c, owner) ELSE c
  <2>1. d = Activate(g, "RESOLUTION", to, to, id) /\ "RESOLUTION" \in Kinds
    BY <1>6 DEF SetTargets, Kinds
  <2>2. /\ GoodClock(g) /\ Granted(c, g) /\ SameCount(c, g)
        /\ SamePools(c, g) \/ Marks(g) # Marks(c)
        /\ Paid(c, t) => g = c
    <3>1. CASE owner \in to
      <4>1. owner \in Heroes /\ g = GrantInitiativeBonus(c, owner)
        BY <3>1, TableParts
      <4>2. GoodClock(g) /\ Granted(c, g) /\ SameCount(c, g)
        BY <4>1, GrantInitiativeBonusGood, InitiativeGrants, GrantsKeepCount
      <4>3. SamePools(c, g) \/ Marks(g) # Marks(c)
        BY <4>1, InitiativeGrants DEF Marks
      <4>4. Paid(c, t) => g = c
        BY <1>6, <3>1, <4>1, InitiativeGrants DEF Paid
      <4> QED
        BY <4>2, <4>3, <4>4
    <3>2. CASE owner \notin to
      BY <1>2, <3>2
    <3> QED
      BY <3>1, <3>2
  <2> HIDE DEF g, d
  <2> QED
    BY <1>1, <2>1, <2>2, TableParts DEF d
<1>7. CASE t.phase = "GAME_OVER"
  <2>1. d = Activate(c, "NONE", {}, {}, 0) /\ "NONE" \in Kinds
    BY <1>7 DEF SetTargets, Idle, Kinds
  <2> HIDE DEF d
  <2> QED
    BY <1>1, <1>2, <2>1 DEF d
<1> QED
  BY <1>3, <1>4, <1>5, <1>6, <1>7, TableParts DEF Phases

\* What a reconcile does to the pools: it opens the table's turn or makes grants,
\* and does neither to a clock that does not run or was paid already.
Reconciled(c, t, d) ==
    /\ d.turn \in {c.turn, t.turn}
    /\ d.turn = c.turn => Granted(c, d) /\ (SamePools(c, d) \/ Marks(d) # Marks(c))
    /\ (c.status = "RUNNING" =>
          t.phase # "GAME_OVER" /\ c.turn = t.turn /\ Paid(c, t)) =>
         SamePools(c, d) /\ d.status = c.status /\ d.ready = c.ready

\* reconcile_game_clock.
LEMMA ReconcileGrants ==
  ASSUME NEW c, GoodClock(c), NEW t \in GoodTables, NEW open \in BOOLEAN
  PROVE  Reconciled(c, t, Reconcile(c, t, open))
<1> DEFINE d == Reconcile(c, t, open)
<1>1. c \in Clock /\ c.status \in Statuses
  BY DEF GoodClock, Clock
<1>2. ASSUME SamePools(c, d)
      PROVE  d.turn = c.turn /\ Granted(c, d)
  BY <1>2, SameIsBoth DEF SamePools
<1>3. CASE c.status \in {"FINISHED", "UNTIMED"}
  <2>1. d = c
    BY <1>3 DEF Reconcile, Held
  <2>2. SamePools(c, d)
    BY <2>1 DEF SamePools
  <2> HIDE DEF d
  <2> QED
    BY <1>2, <2>1, <2>2 DEF Reconciled, d
<1>4. CASE \/ Held(c)
           \/ c.status = "RUNNING" /\ t.phase # "GAME_OVER" /\ open
  <2>1. d = Idle(c)
    BY <1>4 DEF Reconcile, Held
  <2>2. SamePools(c, d) /\ d.status = c.status /\ d.ready = c.ready
    BY <2>1, StopsKeepPools, ActivateGood DEF Idle, Kinds
  <2> HIDE DEF d
  <2> QED
    BY <1>2, <2>2 DEF Reconciled, d
<1>5. CASE c.status = "RUNNING" /\ t.phase = "GAME_OVER"
  <2>1. d = FinishClock(c)
    BY <1>5 DEF Reconcile, Held
  <2>2. SamePools(c, d)
    BY <2>1, StopsKeepPools
  <2> HIDE DEF d
  <2> QED
    BY <1>2, <1>5, <2>2 DEF Reconciled, d
<1>6. CASE c.status = "RUNNING" /\ t.phase # "GAME_OVER" /\ ~open
  <2> DEFINE counted == [c EXCEPT !.auto = AutomaticTurns(c, t)]
             begun == BeginSharedTurn(counted, t.turn)
  <2>1. d = IF Abandoned(c, t) THEN SuspendClock(counted) ELSE SetTargets(begun, t)
    BY <1>6 DEF Reconcile, Held
  <2>2. GoodClock(counted) /\ SamePools(c, counted)
    <3>1. c.auto \in Nat
      BY <1>1 DEF Clock
    <3>2. AutomaticTurns(c, t) \in Nat
      BY <3>1 DEF AutomaticTurns
    <3> QED
      BY <3>2 DEF GoodClock, Clock, SamePools
  <2>3. c.turn = t.turn => counted = c
    BY <1>1 DEF AutomaticTurns, Clock
  <2> HIDE DEF counted
  <2>4. CASE Abandoned(c, t)
    <3>1. SamePools(counted, d) /\ c.turn # t.turn
      BY <2>1, <2>2, <2>4, StopsKeepPools DEF Abandoned
    <3>2. SamePools(c, d)
      BY <2>2, <3>1 DEF SamePools
    <3> HIDE DEF d
    <3> QED
      BY <1>2, <1>6, <3>1, <3>2 DEF Reconciled, SamePools, d
  <2>5. CASE ~Abandoned(c, t) /\ c.turn = t.turn
    <3>1. d = SetTargets(c, t)
      BY <2>1, <2>3, <2>5 DEF BeginSharedTurn
    <3>2. /\ Granted(c, d) /\ SameCount(c, d)
          /\ SamePools(c, d) \/ Marks(d) # Marks(c)
          /\ Paid(c, t) => SamePools(c, d)
      BY <3>1, SetTargetsGrants
    <3> HIDE DEF d
    <3> QED
      BY <1>6, <2>5, <3>2 DEF SameCount, Reconciled, d
  <2>6. CASE ~Abandoned(c, t) /\ c.turn # t.turn
    <3>1. GoodClock(begun) /\ begun.turn = t.turn
      BY <2>2, BeginSharedTurnGood, TableParts
    <3> HIDE DEF begun
    <3>2. d.turn = t.turn
      BY <2>1, <2>6, <3>1, SetTargetsGrants DEF SameCount
    <3> HIDE DEF d
    <3> QED
      BY <1>6, <2>6, <3>2 DEF Reconciled, d
  <2> QED
    BY <2>4, <2>5, <2>6
<1>7. \/ c.status \in {"FINISHED", "UNTIMED"}
      \/ Held(c)
      \/ c.status = "RUNNING" /\ t.phase # "GAME_OVER" /\ open
      \/ c.status = "RUNNING" /\ t.phase = "GAME_OVER"
      \/ c.status = "RUNNING" /\ t.phase # "GAME_OVER" /\ ~open
  BY <1>1 DEF Statuses, Held
<1> QED
  BY <1>3, <1>4, <1>5, <1>6, <1>7

-----------------------------------------------------------------------------
(* The steps of the handlers. *)

\* Settling a clock changes neither its status nor its targets.
LEMMA SettleKeeps ==
  ASSUME NEW c, GoodClock(c), Rested(c), NEW e \in Nat
  PROVE  /\ GoodClock(Settle(c, e)) /\ Rested(Settle(c, e))
         /\ Settle(c, e).status = c.status
         /\ \A t, open : Sync(c, t, open) => Sync(Settle(c, e), t, open)
<1>1. PICK f \in [Heroes -> GoodPools] : Settle(c, e) = [c EXCEPT !.pool = f]
  BY SettleGood
<1> DEFINE d == [c EXCEPT !.pool = f]
<1>2. /\ d.status = c.status /\ d.active = c.active /\ d.turn = c.turn
      /\ d.kind = c.kind /\ d.request = c.request /\ d.locked = c.locked
      /\ d.deciders = c.deciders /\ d.credited = c.credited
      /\ d.bonus = c.bonus /\ d.levelUp = c.levelUp
  BY DEF GoodClock, Clock
<1> HIDE DEF d
<1>3. \A t, open : Sync(c, t, open) => Sync(d, t, open)
  BY <1>2 DEF Sync, Agrees, Paid
<1>4. GoodClock(d)
  BY <1>1, SettleGood DEF d
<1> QED
  BY <1>1, <1>2, <1>3, <1>4 DEF Rested, d

\* Saving and scheduling (save_game, schedule_deadline) keep the clock.
LEMMA ScheduleGood ==
  ASSUME NEW c, GoodClock(c), Rested(c), NEW t \in GoodTables, SaveAndSchedule(c, t)
  PROVE  /\ GoodClock(clock') /\ Rested(clock') /\ GoodFile(saved')
         /\ timer' \in [on : BOOLEAN, left : Nat]
         /\ \A open : Sync(c, t, open) => Sync(clock', t, open)
<1> DEFINE d == [c EXCEPT !.moved = FALSE]
<1>1. clock' = d /\ saved' = [table |-> t, clock |-> d] /\ timer' = Deadline(d)
  BY DEF SaveAndSchedule
<1>2. /\ d.status = c.status /\ d.active = c.active /\ d.turn = c.turn
      /\ d.kind = c.kind /\ d.request = c.request /\ d.locked = c.locked
      /\ d.deciders = c.deciders /\ d.credited = c.credited
      /\ d.bonus = c.bonus /\ d.levelUp = c.levelUp
      /\ GoodClock(d) /\ d \in Clock
  BY DEF GoodClock, Clock
<1> HIDE DEF d
<1>3. Deadline(d) \in [on : BOOLEAN, left : Nat]
  BY <1>2, DelayIsLeast DEF Deadline, NoTimer, NeedsDeadline
<1>4. \A open : Sync(c, t, open) => Sync(d, t, open)
  BY <1>2 DEF Sync, Agrees, Paid
<1>5. Rested(d)
  BY <1>2 DEF Rested
<1>6. t \in Table
  BY DEF GoodTables
<1> QED
  BY <1>1, <1>2, <1>3, <1>4, <1>5, <1>6 DEF GoodFile

\* Stopping for a decision and noting a human one keep the clock good.
LEMMA StopForDecisionGood ==
  ASSUME NEW c, GoodClock(c), Rested(c), NEW h, NEW msg, NEW req
  PROVE  LET d == StopForDecision(c, h, msg, req)
         IN /\ GoodClock(d) /\ Rested(d)
            /\ GoodClock(MarkHuman(d)) /\ Rested(MarkHuman(d))
<1> DEFINE a == Activate(c, c.kind, {}, c.deciders, c.request)
           d == StopForDecision(c, h, msg, req)
<1>1. GoodClock(a) /\ a.active = {}
  <2>1. c.kind \in Kinds /\ c.deciders \in SUBSET Heroes /\ c.request \in Nat
    BY DEF GoodClock, Clock
  <2> QED
    BY <2>1, ActivateGood
<1>2. d = a \/ d = c
  BY DEF StopForDecision
<1>3. GoodClock(d) /\ Rested(d)
  BY <1>1, <1>2 DEF Rested
<1> HIDE DEF d
<1>4. MarkHuman(d) = d \/ MarkHuman(d) = [d EXCEPT !.human = TRUE, !.moved = TRUE]
  BY DEF MarkHuman
<1>5. LET m == [d EXCEPT !.human = TRUE, !.moved = TRUE]
      IN GoodClock(m) /\ m.status = d.status /\ m.active = d.active
  BY <1>3 DEF GoodClock, Clock
<1>6. GoodClock(MarkHuman(d)) /\ Rested(MarkHuman(d))
  BY <1>3, <1>4, <1>5 DEF Rested
<1> QED
  BY <1>3, <1>6 DEF d

\* The jobs the handlers leave behind are jobs.
LEMMA Jobs ==
  /\ IdleJob \in GoodJobs
  /\ [IdleJob EXCEPT !.pc = "finish"] \in GoodJobs
  /\ [IdleJob EXCEPT !.pc = "due", !.who = "worker"] \in GoodJobs
  /\ \A accepted \in BOOLEAN :
       [IdleJob EXCEPT !.pc = "finish", !.accepted = accepted] \in GoodJobs
  /\ \A h \in Heroes, msg \in PlanningMsgs \cup {"edit", "input", "rollback"}, req \in Nat,
        dry \in BOOLEAN :
       [IdleJob EXCEPT !.pc = "due", !.who = "client", !.hero = h, !.msg = msg,
                       !.req = req, !.dry = dry] \in GoodJobs
  /\ \A msg \in {"pause", "patch", "rewind"} :
       [IdleJob EXCEPT !.pc = "due", !.who = "vote", !.msg = msg] \in GoodJobs
  BY DEF IdleJob, GoodJobs, Job, PlanningMsgs

\* Neither a settlement nor the end of a deadline's sleep breaks the invariant:
\* the moment a handler takes the lock, or a worker wakes up.
LEMMA BeginStep ==
  ASSUME IInv,
         \/ \E h \in Heroes, msg \in PlanningMsgs \cup {"edit", "input", "rollback"}, req \in Nat :
              ClientBegin(h, msg, req)
         \/ DeadlineFire \/ DeadlineStale \/ SetReadyRefused
  PROVE  IInv'
<1>0. /\ GoodClock(Settled) /\ Rested(Settled)
      /\ Sync(clock, table, Open) => Sync(Settled, table, Open)
  BY SettleKeeps DEF Settled, IInv, RestTyped
<1>1. ASSUME NEW h \in Heroes, NEW msg \in PlanningMsgs \cup {"edit", "input", "rollback"},
             NEW req \in Nat, ClientBegin(h, msg, req)
      PROVE  IInv'
  <2>1. AnswersDryClock(Settled, h, msg, req) \in BOOLEAN
    BY DEF AnswersDryClock
  <2>2. job' \in GoodJobs
    BY <1>1, <2>1, Jobs DEF ClientBegin
  <2>3. InSync /\ Open' = Open
    BY <1>1 DEF ClientBegin, Free, InSync, Open
  <2> QED
    BY <1>0, <1>1, <2>2, <2>3 DEF ClientBegin, IInv, RestTyped
<1>2. CASE DeadlineFire
  <2>1. job' \in GoodJobs /\ InSync /\ Open' = Open
    BY <1>2, Jobs DEF DeadlineFire, Free, InSync, Open
  <2> QED
    BY <1>0, <1>2, <2>1 DEF DeadlineFire, IInv, RestTyped
<1>3. CASE DeadlineStale
  <2>1. timer' \in [on : BOOLEAN, left : Nat] /\ Open' = Open /\ InSync' = InSync
    BY <1>3 DEF DeadlineStale, NoTimer, Open, InSync
  <2> QED
    BY <1>3, <2>1 DEF DeadlineStale, IInv, RestTyped
<1>4. CASE SetReadyRefused
  <2>1. job' \in GoodJobs /\ ~InSync'
    BY <1>4, Jobs DEF SetReadyRefused, InSync, IdleJob
  <2> QED
    BY <1>4, <2>1 DEF SetReadyRefused, IInv, RestTyped
<1> QED
  BY <1>1, <1>2, <1>3, <1>4

\* One automatic decision and its reconcile (apply_due_timeouts).
LEMMA AfterTimeoutGood ==
  ASSUME IInv, job.pc = "due",
         NEW c, GoodClock(c), Rested(c), NEW t \in GoodTables,
         NEW lost \in BOOLEAN, NEW again \in BOOLEAN, AfterTimeout(c, t, lost, again)
  PROVE  IInv'
<1>1. Open \in BOOLEAN /\ Open' = Open
  BY DEF AfterTimeout, Open
<1>2. GoodClock(clock') /\ Rested(clock') /\ Sync(clock', t, Open')
  BY <1>1, ReconcileSync DEF AfterTimeout
<1>3. job' \in GoodJobs
  <2>1. /\ job \in GoodJobs
        /\ job' = [job EXCEPT !.lost = @ \/ lost, !.timed = TRUE,
                              !.pc = IF again THEN "due" ELSE "prepared"]
    BY DEF AfterTimeout, IInv, RestTyped
  <2> QED
    BY <2>1 DEF GoodJobs, Job
<1> QED
  BY <1>2, <1>3 DEF AfterTimeout, IInv, RestTyped

\* What happens to a handler while timeouts are due.
LEMMA TimeoutsStep ==
  ASSUME IInv, Timeouts
  PROVE  IInv'
<1>0. /\ table \in GoodTables /\ GoodClock(clock) /\ Rested(clock) /\ job \in GoodJobs
      /\ Open \in BOOLEAN /\ clock \in Clock
  BY DEF IInv, RestTyped, Open, GoodClock
<1>1. ASSUME NEW h \in Heroes, PlanningTimeout(h)
      PROVE  IInv'
  <2> DEFINE c == [clock EXCEPT !.locked = @ \cup {h}]
  <2>1. GoodClock(c) /\ Rested(c)
    BY <1>0 DEF GoodClock, Clock, Rested
  <2>2. TimeoutPlanning(h) \subseteq GoodTables
    BY <1>0, PlanGood DEF TimeoutPlanning, Plans
  <2>3. Loses("PLANNING", h) \in BOOLEAN
    BY DEF Loses
  <2>4. PICK t \in TimeoutPlanning(h) :
            AfterTimeout(c, t, Loses("PLANNING", h),
                         Reconcile(c, t, Open).kind = "PLANNING")
    BY <1>1 DEF PlanningTimeout
  <2> HIDE DEF c
  <2> QED
    BY <1>1, <2>1, <2>2, <2>3, <2>4, AfterTimeoutGood DEF PlanningTimeout
<1>2. ASSUME NEW h \in Heroes, LevelUpTimeout(h)
      PROVE  IInv'
  <2>1. Loses("LEVEL_UP", h) \in BOOLEAN
    BY DEF Loses
  <2>2. PICK t \in TakeAllUpgrades(table, h) :
            AfterTimeout(clock, t, Loses("LEVEL_UP", h),
                         Reconcile(clock, t, Open).kind = "LEVEL_UP")
    BY <1>2 DEF LevelUpTimeout
  <2> QED
    BY <1>0, <1>2, <2>1, <2>2, TakeUpgradeGood, AfterTimeoutGood DEF LevelUpTimeout
<1>3. CASE InputTimeout
  <2>1. Loses(clock.kind, NoHero) \in BOOLEAN
    BY DEF Loses
  <2>2. PICK t \in EngineNext(Final(table)) :
            AfterTimeout(clock, t, Loses(clock.kind, NoHero),
                         /\ t.phase = "RESOLUTION"
                         /\ t.request.to = table.request.to
                         /\ t.request.team = table.request.team)
    BY <1>3 DEF InputTimeout
  <2> QED
    BY <1>0, <1>3, <2>1, <2>2, FinalGood, EngineNextGood, AfterTimeoutGood
    DEF InputTimeout
<1>4. CASE TeamPartlyDry
  <2>1. /\ GoodClock(clock') /\ Rested(clock') /\ Sync(clock', table, Open)
        /\ Open' = Open
    BY <1>0, <1>4, ReconcileSync DEF TeamPartlyDry, Open
  <2>2. job' \in GoodJobs
    BY <1>0, <1>4 DEF TeamPartlyDry, GoodJobs, Job
  <2> QED
    BY <1>4, <2>1, <2>2 DEF TeamPartlyDry, IInv, RestTyped
<1>5. CASE NothingDue
  <2>1. job' \in GoodJobs /\ Open' = Open /\ (InSync' => InSync)
    BY <1>0, <1>5 DEF NothingDue, GoodJobs, Job, Open, InSync
  <2> QED
    BY <1>5, <2>1 DEF NothingDue, IInv, RestTyped
<1> QED
  BY <1>1, <1>2, <1>3, <1>4, <1>5 DEF Timeouts

\* The end of prepare, and the end of a deadline worker.
LEMMA PreparedStep ==
  ASSUME IInv, Prepared \/ DeadlineDone
  PROVE  IInv'
<1>0. /\ table \in GoodTables /\ GoodClock(clock) /\ Rested(clock) /\ job \in GoodJobs
      /\ Open \in BOOLEAN
  BY DEF IInv, RestTyped, Open
<1>1. CASE Prepared
  <2> DEFINE c == Reconcile(clock, table, Open)
  <2>1. GoodClock(c) /\ Rested(c) /\ Sync(c, table, Open)
    BY <1>0, ReconcileSync
  <2>2. job' \in GoodJobs /\ Open' = Open
    BY <1>0, <1>1 DEF Prepared, GoodJobs, Job, Open
  <2>3. \/ SaveAndSchedule(c, table)
        \/ clock' = c /\ UNCHANGED <<timer, saved>>
    BY <1>1 DEF Prepared
  <2> HIDE DEF c
  <2>4. /\ GoodClock(clock') /\ Rested(clock') /\ Sync(clock', table, Open)
        /\ GoodFile(saved') /\ timer' \in [on : BOOLEAN, left : Nat]
    BY <1>0, <2>1, <2>3, ScheduleGood DEF IInv, RestTyped
  <2> QED
    BY <1>1, <2>2, <2>4 DEF Prepared, IInv, RestTyped
<1>2. CASE DeadlineDone
  <2>1. Sync(clock, table, Open) /\ SaveAndSchedule(clock, table)
    BY <1>2 DEF DeadlineDone, IInv, InSync
  <2>2. job' \in GoodJobs /\ Open' = Open
    BY <1>2, Jobs DEF DeadlineDone, Open
  <2>3. /\ GoodClock(clock') /\ Rested(clock') /\ Sync(clock', table, Open)
        /\ GoodFile(saved') /\ timer' \in [on : BOOLEAN, left : Nat]
    BY <1>0, <2>1, ScheduleGood
  <2> QED
    BY <1>2, <2>2, <2>3 DEF DeadlineDone, IInv, RestTyped
<1> QED
  BY <1>1, <1>2

\* A client's decision is lost, accepted or refused; a bot's is accepted.
LEMMA DecisionStep ==
  ASSUME IInv,
         \/ DecisionLost \/ DecisionAccepted \/ DecisionRefused
         \/ \E h \in Heroes, msg \in PlanningMsgs \cup {"input"}, req \in Nat :
              BotDecide(h, msg, req)
  PROVE  IInv'
<1>0. /\ table \in GoodTables /\ GoodClock(clock) /\ Rested(clock) /\ job \in GoodJobs
      /\ lastHuman \in Nat /\ table.turn \in Nat
  BY TableParts DEF IInv, RestTyped
<1>1. CASE DecisionLost
  <2>1. job' \in GoodJobs /\ InSync /\ Open' = Open
    BY <1>1, Jobs DEF DecisionLost, InSync, Open
  <2> QED
    BY <1>1, <2>1 DEF DecisionLost, IInv, RestTyped
<1>2. CASE DecisionAccepted
  <2>1. job' \in GoodJobs /\ ~InSync'
    <3>1. (job.msg # "edit") \in BOOLEAN
      OBVIOUS
    <3> QED
      BY <1>2, <3>1, Jobs DEF DecisionAccepted, InSync, IdleJob
  <2>2. job.hero \in Heroes
    BY <1>0, <1>2 DEF DecisionAccepted, GoodJobs
  <2>3. table' \in GoodTables
    BY <1>0, <1>2, <2>2, DecideGood DEF DecisionAccepted
  <2>4. GoodClock(clock') /\ Rested(clock')
    BY <1>0, <1>2, StopForDecisionGood DEF DecisionAccepted
  <2>5. lastHuman' \in Nat
    BY <1>0, <1>2 DEF DecisionAccepted
  <2> QED
    BY <1>2, <2>1, <2>3, <2>4, <2>5 DEF DecisionAccepted, IInv, RestTyped
<1>3. CASE DecisionRefused
  <2>1. job' \in GoodJobs /\ ~InSync'
    BY <1>3, Jobs DEF DecisionRefused, InSync, IdleJob
  <2>2. GoodClock(clock') /\ Rested(clock')
    BY <1>0, <1>3, StopForDecisionGood DEF DecisionRefused
  <2> QED
    BY <1>3, <2>1, <2>2 DEF DecisionRefused, IInv, RestTyped
<1>4. ASSUME NEW h \in Heroes, NEW msg \in PlanningMsgs \cup {"input"}, NEW req \in Nat,
             BotDecide(h, msg, req)
      PROVE  IInv'
  <2>1. job' \in GoodJobs /\ ~InSync'
    BY <1>4, Jobs DEF BotDecide, InSync, IdleJob
  <2>2. table' \in GoodTables
    <3>1. PICK t \in {table, Final(table)} :
            table' \in Decide(t, clock.locked, h, msg, req)
      BY <1>4 DEF BotDecide
    <3> QED
      BY <1>0, <3>1, FinalGood, DecideGood
  <2>3. GoodClock(clock') /\ Rested(clock')
    BY <1>0, <1>4, StopForDecisionGood DEF BotDecide
  <2> QED
    BY <1>4, <2>1, <2>2, <2>3 DEF BotDecide, IInv, RestTyped
<1> QED
  BY <1>1, <1>2, <1>3, <1>4

\* Whatever a handler did to the clock, its finalize restores the invariant.
LEMMA FinishStep ==
  ASSUME IInv, Finish
  PROVE  IInv'
<1> DEFINE c == Reconcile(Settled, table, Open)
<1>1. GoodClock(Settled) /\ Rested(Settled) /\ table \in GoodTables /\ Open \in BOOLEAN
  BY SettleKeeps DEF Settled, IInv, RestTyped, Open
<1>2. GoodClock(c) /\ Rested(c) /\ Sync(c, table, Open)
  BY <1>1, ReconcileSync
<1>3. SaveAndSchedule(c, table)
  BY DEF Finish
<1> HIDE DEF c
<1>4. /\ GoodClock(clock') /\ Rested(clock') /\ Sync(clock', table, Open)
      /\ GoodFile(saved') /\ timer' \in [on : BOOLEAN, left : Nat]
  BY <1>1, <1>2, <1>3, ScheduleGood
<1>5. job' \in GoodJobs /\ Open' = Open
  BY Jobs DEF Finish, Open
<1> QED
  BY <1>4, <1>5 DEF Finish, IInv, RestTyped

\* A ready check (set_player_ready) resumes a clock as good as it was.
LEMMA SetReadyStep ==
  ASSUME IInv, NEW h \in Heroes, NEW ready \in BOOLEAN, SetReady(h, ready)
  PROVE  IInv'
<1> DEFINE now  == IF ready THEN clock.ready \cup {h} \cup Bots ELSE clock.ready \ {h}
           c    == [clock EXCEPT !.ready = now, !.moved = TRUE]
           done == IF now = Heroes THEN Resume(c, table) ELSE c
           d    == Reconcile(done, table, Open)
<1>0. /\ table \in GoodTables /\ GoodClock(clock) /\ clock \in Clock
      /\ Open \in BOOLEAN /\ Held(clock) /\ table.turn \in Nat
  BY TableParts DEF IInv, GoodClock, Open, SetReady
<1>1. now \in SUBSET Heroes
  BY <1>0, MatchAssumption DEF Clock
<1> HIDE DEF now
<1>2. GoodClock(c) /\ Held(c) /\ c.turn = clock.turn
  BY <1>0, <1>1 DEF GoodClock, Clock, Held
<1> HIDE DEF c
<1>3. GoodClock(Resume(c, table)) /\ Resume(c, table).status = "RUNNING"
  <2> DEFINE running == [c EXCEPT !.status = "RUNNING", !.moved = TRUE]
             cleared == [running EXCEPT !.auto = 0]
  <2>1. GoodClock(running) /\ running.status = "RUNNING"
    BY <1>2 DEF GoodClock, Clock, Statuses
  <2>2. GoodClock(cleared) /\ cleared.status = "RUNNING"
    BY <2>1 DEF GoodClock, Clock
  <2>3. Resume(c, table) = running \/ Resume(c, table) = BeginSharedTurn(cleared, table.turn)
    BY DEF Resume
  <2> HIDE DEF running, cleared
  <2> QED
    BY <1>0, <2>1, <2>2, <2>3, BeginSharedTurnGood
<1>4. GoodClock(done) /\ Rested(done)
  BY <1>2, <1>3 DEF Rested, Held
<1> HIDE DEF done
<1>5. GoodClock(d) /\ Rested(d) /\ Sync(d, table, Open)
  BY <1>0, <1>4, ReconcileSync
<1>6. SaveAndSchedule(d, table)
  BY DEF SetReady, d, done, c, now
<1> HIDE DEF d
<1>7. /\ GoodClock(clock') /\ Rested(clock') /\ Sync(clock', table, Open)
      /\ GoodFile(saved') /\ timer' \in [on : BOOLEAN, left : Nat]
  BY <1>0, <1>5, <1>6, ScheduleGood
<1>8. Open' = Open
  BY DEF SetReady, Open
<1> QED
  BY <1>7, <1>8 DEF SetReady, IInv, RestTyped

\* A proposal opens, is dropped, or is approved; an approved reveal_player
\* only reconciles.
LEMMA ProposalStep ==
  ASSUME IInv, Proposals
  PROVE  IInv'
<1>0. /\ table \in GoodTables /\ GoodClock(clock) /\ Rested(clock) /\ GoodFile(saved)
      /\ GoodClock(Settled) /\ Rested(Settled)
  BY SettleKeeps DEF IInv, RestTyped, Settled
<1>1. ASSUME NEW f \in Families, Propose(f)
      PROVE  IInv'
  <2>1. f \in {"pause", "patch", "rewind", "reveal_player"}
    BY MatchAssumption
  <2>2. Open' /\ proposal' = f
    BY <1>1, <2>1 DEF Propose, Open
  <2>3. GoodClock(clock') /\ Rested(clock') /\ Sync(clock', table, TRUE)
    BY <1>0, <1>1, ReconcileSync DEF Propose
  <2> QED
    BY <1>1, <2>1, <2>2, <2>3 DEF Propose, IInv, RestTyped
<1>2. CASE ProposalDropped
  <2>1. Open' = FALSE
    BY <1>2 DEF ProposalDropped, Open
  <2>2. GoodClock(clock') /\ Rested(clock') /\ Sync(clock', table, FALSE)
    BY <1>0, <1>2, ReconcileSync DEF ProposalDropped
  <2> DEFINE d == [clock' EXCEPT !.moved = FALSE]
  <2>3. GoodClock(d) /\ Rested(d) /\ d \in Clock
    BY <2>2 DEF GoodClock, Clock, Rested
  <2>4. saved' = [table |-> table, clock |-> d]
    BY <1>2 DEF ProposalDropped
  <2> HIDE DEF d
  <2>5. GoodFile(saved')
    BY <1>0, <2>3, <2>4 DEF GoodFile, GoodTables
  <2> QED
    BY <1>2, <2>1, <2>2, <2>5 DEF ProposalDropped, IInv, RestTyped
<1>3. CASE PlayerRevealed
  <2>1. Open' = FALSE
    BY <1>3 DEF PlayerRevealed, Open
  <2>2. GoodClock(clock') /\ Rested(clock') /\ Sync(clock', table, FALSE)
    BY <1>0, <1>3, ReconcileSync DEF PlayerRevealed
  <2> QED
    BY <1>3, <2>1, <2>2 DEF PlayerRevealed, IInv, RestTyped
<1>4. CASE ProposalApproved
  <2>1. CASE Held(clock)
    <3>1. UNCHANGED <<table, clock, lag, timer, job, saved, crashes, lastHuman>>
      BY <1>4, <2>1 DEF ProposalApproved
    <3>2. Open' = FALSE /\ Open /\ InSync /\ proposal' = "none"
      BY <1>4 DEF ProposalApproved, Free, Open, InSync
    <3>3. Sync(clock, table, FALSE)
      BY <2>1, <3>2 DEF IInv, Sync, Held
    <3> QED
      BY <3>1, <3>2, <3>3 DEF IInv, RestTyped
  <2>2. CASE ~Held(clock)
    <3>1. /\ clock' = Settled /\ lag' = 0 /\ proposal' = "none"
          /\ job' = [IdleJob EXCEPT !.pc = "due", !.who = "vote", !.msg = proposal]
          /\ UNCHANGED <<table, timer, saved, crashes, lastHuman>>
      BY <1>4, <2>2 DEF ProposalApproved
    <3>2. proposal \in {"pause", "patch", "rewind"}
      BY <1>4 DEF ProposalApproved, Open, IInv, RestTyped
    <3>3. job' \in GoodJobs /\ ~InSync'
      BY <3>1, <3>2, Jobs DEF InSync, IdleJob
    <3> QED
      BY <1>0, <3>1, <3>3 DEF IInv, RestTyped
  <2> QED
    BY <2>1, <2>2
<1> QED
  BY <1>1, <1>2, <1>3, <1>4 DEF Proposals

\* What an approved proposal does under the lock.
LEMMA ApplyStep ==
  ASSUME IInv, ApplyPause \/ ApplyPatch \/ RewindDone \/ RewindFailed
  PROVE  IInv'
<1>0. /\ table \in GoodTables /\ GoodClock(clock) /\ Rested(clock) /\ clock \in Clock
  BY DEF IInv, GoodClock
<1>1. job' = [IdleJob EXCEPT !.pc = "finish"]
  BY DEF ApplyPause, ApplyPatch, RewindDone, RewindFailed
<1>2. job' \in GoodJobs /\ ~InSync'
  BY <1>1, Jobs DEF InSync, IdleJob
<1>3. CASE ApplyPause
  <2>1. GoodClock(clock') /\ Rested(clock')
    BY <1>0, <1>3, StopsGood DEF ApplyPause, Rested
  <2> QED
    BY <1>2, <1>3, <2>1 DEF ApplyPause, IInv, RestTyped
<1>4. CASE ApplyPatch
  <2>1. Upgrades(table, table.upgrades) \subseteq GoodTables
    BY <1>0, EngineNextGood, TableParts
  <2>2. table' \in GoodTables
    BY <1>0, <1>4, <2>1, EngineNextGood DEF ApplyPatch
  <2> QED
    BY <1>2, <1>4, <2>2 DEF ApplyPatch, IInv, RestTyped
<1>5. CASE RewindDone
  <2>1. StartTable \in GoodTables
    BY TableConstants DEF StartTable, GoodTables, Table, Phases
  <2>2. GoodClock(clock') /\ Rested(clock')
    BY <1>0, <1>5 DEF RewindDone, GoodClock, Clock, Statuses, Rested
  <2> QED
    BY <1>2, <1>5, <2>1, <2>2 DEF RewindDone, IInv, RestTyped
<1>6. CASE RewindFailed
  BY <1>2, <1>6 DEF RewindFailed, IInv, RestTyped
<1> QED
  BY <1>3, <1>4, <1>5, <1>6

\* A restart (resume_timers) reconciles what the file holds.
LEMMA RestartStep ==
  ASSUME IInv, Crash \/ Shutdown
  PROVE  IInv'
<1>1. ASSUME NEW file, GoodFile(file), RestartFrom(file)
      PROVE  IInv'
  <2> DEFINE c == Reconcile(file.clock, file.table, FALSE)
  <2>1. GoodClock(c) /\ Rested(c) /\ Sync(c, file.table, FALSE) /\ file.table \in GoodTables
    BY <1>1, ReconcileSync DEF GoodFile
  <2>2. SaveAndSchedule(c, file.table)
    BY <1>1 DEF RestartFrom
  <2> HIDE DEF c
  <2>3. /\ GoodClock(clock') /\ Rested(clock') /\ Sync(clock', file.table, FALSE)
        /\ GoodFile(saved') /\ timer' \in [on : BOOLEAN, left : Nat]
    BY <2>1, <2>2, ScheduleGood
  <2>4. job' \in GoodJobs /\ Open' = FALSE
    BY <1>1, Jobs DEF RestartFrom, Open
  <2>5. crashes' \in Nat
    BY <1>1 DEF RestartFrom, IInv, RestTyped
  <2> QED
    BY <1>1, <2>1, <2>3, <2>4, <2>5 DEF RestartFrom, IInv, RestTyped
<1>2. CASE Crash
  BY <1>1, <1>2 DEF Crash, IInv
<1>3. CASE Shutdown
  <2> DEFINE file == [table |-> table, clock |-> Settled]
  <2>1. GoodFile(file)
    <3>1. table \in GoodTables /\ table \in Table
      BY DEF IInv, GoodTables
    <3>2. GoodClock(Settled) /\ Rested(Settled) /\ Settled \in Clock
      BY SettleKeeps DEF IInv, RestTyped, Settled, GoodClock
    <3> QED
      BY <3>1, <3>2 DEF GoodFile
  <2> HIDE DEF file
  <2> QED
    BY <1>1, <1>3, <2>1 DEF Shutdown, file
<1> QED
  BY <1>2, <1>3

\* Time passes between handlers, or while one waits.
LEMMA TickStep ==
  ASSUME IInv, Tick
  PROVE  IInv'
<1>1. lag' \in Nat
  BY DEF Tick, IInv, RestTyped
<1>2. timer' \in [on : BOOLEAN, left : Nat]
  <2>1. /\ timer \in [on : BOOLEAN, left : Nat]
        /\ timer' = [timer EXCEPT !.left = IF @ > 0 THEN @ - 1 ELSE 0]
    BY DEF Tick, IInv, RestTyped
  <2> QED
    BY <2>1
<1>3. InSync' = InSync /\ Open' = Open
  BY DEF Tick, InSync, Open
<1> QED
  BY <1>1, <1>2, <1>3 DEF Tick, IInv, RestTyped

-----------------------------------------------------------------------------
(* The theorems. *)

\* The invariant holds at the start of a match.
LEMMA InitIInv == Init => IInv
<1> SUFFICES ASSUME Init PROVE IInv
  OBVIOUS
<1>1. StartTable \in GoodTables
  BY TableConstants DEF StartTable, GoodTables, Table, Phases
<1>2. GoodClock(NewClock(1)) /\ NewClock(1) \in Clock
  BY NewClockGood DEF GoodClock
<1>3. NewClock(1).status = "WAITING_FOR_PLAYERS" /\ NewClock(1).active = {}
  BY DEF NewClock
<1>4. Rested(NewClock(1)) /\ Sync(NewClock(1), StartTable, Open)
  BY <1>3 DEF Rested, Sync
<1>5. GoodFile(saved)
  BY <1>1, <1>2, <1>4 DEF Init, GoodFile, GoodTables
<1>6. timer \in [on : BOOLEAN, left : Nat] /\ job \in GoodJobs
  BY Jobs DEF Init, NoTimer
<1> QED
  BY <1>1, <1>2, <1>4, <1>5, <1>6 DEF Init, IInv, RestTyped

\* Every step of every handler keeps it.
LEMMA NextIInv == IInv /\ [Next]_vars => IInv'
<1> SUFFICES ASSUME IInv, [Next]_vars PROVE IInv'
  OBVIOUS
<1>1. CASE Client
  <2>1. \A req \in 1 .. table.nextId - 1 : req \in Nat
    BY DEF IInv, GoodTables, Table
  <2> QED
    BY <1>1, <2>1, BeginStep DEF Client
<1>2. CASE Bot
  <2>1. table.request.id \in Nat
    BY TableParts DEF IInv
  <2> QED
    BY <1>2, <2>1, MatchAssumption, DecisionStep DEF Bot, PlanningMsgs
<1>3. CASE Ready
  BY <1>3, BeginStep, SetReadyStep DEF Ready
<1>4. CASE Proposals
  BY <1>4, ProposalStep
<1>5. CASE Proceed
  BY <1>5, TimeoutsStep, PreparedStep, DecisionStep, FinishStep, ApplyStep DEF Proceed
<1>6. CASE DeadlineStale \/ DeadlineFire
  BY <1>6, BeginStep
<1>7. CASE Crash \/ Shutdown
  BY <1>7, RestartStep
<1>8. CASE Tick
  BY <1>8, TickStep
<1>9. CASE UNCHANGED vars
  <2>1. InSync' = InSync /\ Open' = Open
    BY <1>9 DEF vars, InSync, Open
  <2> QED
    BY <1>9, <2>1 DEF vars, IInv, RestTyped
<1> QED
  BY <1>1, <1>2, <1>3, <1>4, <1>5, <1>6, <1>7, <1>8, <1>9 DEF Next

\* The inductive invariant holds in every reachable state.
THEOREM Invariance == Spec => []IInv
  BY InitIInv, NextIInv, PTL DEF Spec

\* Every variable keeps its type, for every set of heroes and configuration:
\* in particular no pool is ever charged below zero.
THEOREM TypeCorrect == Spec => []TypeOK
<1>1. IInv => TypeOK
  BY DEF IInv, RestTyped, TypeOK, GoodTables, GoodClock, GoodFile, GoodJobs
<1> QED
  BY <1>1, Invariance, PTL

\* Nobody ever owes overrun while owning a bank, and no bank exceeds its cap
\* (spend_time, begin_shared_turn).
THEOREM DebtOrBankCorrect == Spec => []DebtOrBank
<1>1. IInv => DebtOrBank
  BY DEF IInv, GoodClock, Solvent, DebtOrBank
<1> QED
  BY <1>1, Invariance, PTL

\* Whenever the lock is free, the clocks that run are those of the players the
\* table waits for, through timeouts, proposals, bots and restarts
\* (reconcile_game_clock and every handler that must call it).
THEOREM ClockAgreesCorrect == Spec => []ClockAgrees
<1>1. IInv => ClockAgrees
  BY DEF IInv, InSync, Sync, ClockAgrees, Free
<1> QED
  BY <1>1, Invariance, PTL

-----------------------------------------------------------------------------
(* What a step does to the pools. *)

\* The pools of d are those of c after a charge and then grants, or a new turn's.
Moves(c, d) ==
    \E s : /\ GoodClock(s) /\ Charged(c, s)
           /\ d.turn = c.turn => Granted(s, d)

\* A clock that keeps its pools, one that is settled, and a reconciled one move.
LEMMA Moved ==
  ASSUME NEW c, GoodClock(c)
  PROVE  /\ \A d : SamePools(c, d) => Moves(c, d)
         /\ \A s : GoodClock(s) /\ Charged(c, s) => Moves(c, s)
         /\ \A s, t, open :
              GoodClock(s) /\ Charged(c, s) /\ t \in GoodTables /\ open \in BOOLEAN =>
                Moves(c, Reconcile(s, t, open))
         /\ \A d, e : Moves(c, d) /\ SamePools(d, e) => Moves(c, e)
<1>1. ASSUME NEW d, SamePools(c, d)
      PROVE  Moves(c, d)
  <2>1. SamePools(c, c)
    BY DEF SamePools
  <2>2. Charged(c, c) /\ Granted(c, d)
    BY <1>1, <2>1, SameIsBoth
  <2> QED
    BY <2>2 DEF Moves
<1>2. ASSUME NEW s, GoodClock(s), Charged(c, s)
      PROVE  Moves(c, s)
  <2>1. SamePools(s, s)
    BY DEF SamePools
  <2>2. Granted(s, s)
    BY <1>2, <2>1, SameIsBoth
  <2> QED
    BY <1>2, <2>2 DEF Moves
<1>3. ASSUME NEW s, GoodClock(s), Charged(c, s), NEW t \in GoodTables, NEW open \in BOOLEAN
      PROVE  Moves(c, Reconcile(s, t, open))
  <2> DEFINE d == Reconcile(s, t, open)
  <2>1. Reconciled(s, t, d)
    BY <1>3, ReconcileGrants
  <2> HIDE DEF d
  <2>2. d.turn = c.turn => Granted(s, d)
    BY <1>3, <2>1 DEF Reconciled, Charged
  <2>3. Moves(c, d)
    BY <1>3, <2>2 DEF Moves
  <2> QED
    BY <2>3 DEF d
<1>4. ASSUME NEW d, NEW e, Moves(c, d), SamePools(d, e)
      PROVE  Moves(c, e)
  <2>1. PICK s : GoodClock(s) /\ Charged(c, s) /\ (d.turn = c.turn => Granted(s, d))
    BY <1>4 DEF Moves
  <2>2. e.turn = c.turn => Granted(s, e)
    BY <1>4, <2>1 DEF SamePools, Granted
  <2> QED
    BY <2>1, <2>2 DEF Moves
<1> QED
  BY <1>1, <1>2, <1>3, <1>4

\* Saving, stopping for a decision and noting a human one keep the pools.
LEMMA SaveKeepsPools ==
  ASSUME NEW c, GoodClock(c), NEW t, SaveAndSchedule(c, t)
  PROVE  SamePools(c, clock') /\ clock'.status = c.status /\ clock'.ready = c.ready
  BY DEF SaveAndSchedule, SamePools, GoodClock, Clock

LEMMA DecisionKeepsPools ==
  ASSUME NEW c, GoodClock(c), NEW h, NEW msg, NEW req
  PROVE  LET d == StopForDecision(c, h, msg, req)
         IN SamePools(c, d) /\ SamePools(c, MarkHuman(d))
<1> DEFINE d == StopForDecision(c, h, msg, req)
<1>1. GoodClock(d) /\ SamePools(c, d)
  <2>1. c.kind \in Kinds /\ c.deciders \in SUBSET Heroes /\ c.request \in Nat
    BY DEF GoodClock, Clock
  <2> DEFINE a == Activate(c, c.kind, {}, c.deciders, c.request)
  <2>2. GoodClock(a) /\ SamePools(c, a)
    BY <2>1, ActivateGood DEF SamePools
  <2>3. d = a \/ d = c
    BY DEF StopForDecision
  <2> HIDE DEF a, d
  <2> QED
    BY <2>2, <2>3 DEF SamePools
<1> HIDE DEF d
<1>2. SamePools(c, MarkHuman(d))
  BY <1>1 DEF SamePools, MarkHuman, GoodClock, Clock
<1> QED
  BY <1>1, <1>2 DEF d

\* A client's or a worker's handler charges first and makes grants last.
LEMMA HandlersMove ==
  ASSUME IInv, Proceed \/ DeadlineFire \/ DeadlineStale
                 \/ \E h, msg, req : ClientBegin(h, msg, req) \/ BotDecide(h, msg, req)
  PROVE  Moves(clock, clock')
<1>0. /\ table \in GoodTables /\ GoodClock(clock) /\ clock \in Clock /\ Open \in BOOLEAN
      /\ GoodClock(Settled) /\ Charged(clock, Settled)
      /\ SamePools(clock, clock) /\ Charged(clock, clock)
  <2>1. SamePools(clock, clock)
    BY DEF SamePools
  <2> QED
    BY <2>1, SettleGood, SettleCharges, SameIsBoth DEF IInv, RestTyped, Settled, Open, GoodClock
<1>1. CASE clock' = clock
  BY <1>0, <1>1, Moved
<1>2. CASE clock' = Settled
  BY <1>0, <1>2, Moved
<1>3. ASSUME NEW t \in GoodTables, NEW c, GoodClock(c), SamePools(clock, c),
             clock' = Reconcile(c, t, Open)
      PROVE  Moves(clock, clock')
  <2>1. Charged(clock, c)
    BY <1>0, <1>3, SameIsBoth
  <2> QED
    BY <1>0, <1>3, <2>1, Moved
<1>4. ASSUME NEW h \in Heroes, PlanningTimeout(h)
      PROVE  Moves(clock, clock')
  <2> DEFINE c == [clock EXCEPT !.locked = @ \cup {h}]
  <2>1. GoodClock(c) /\ SamePools(clock, c)
    BY <1>0 DEF GoodClock, Clock, SamePools
  <2>2. TimeoutPlanning(h) \subseteq GoodTables
    BY <1>0, PlanGood DEF TimeoutPlanning, Plans
  <2>3. PICK t \in TimeoutPlanning(h) :
            AfterTimeout(c, t, Loses("PLANNING", h),
                         Reconcile(c, t, Open).kind = "PLANNING")
    BY <1>4 DEF PlanningTimeout
  <2> HIDE DEF c
  <2> QED
    BY <1>3, <2>1, <2>2, <2>3 DEF AfterTimeout
<1>5. ASSUME NEW h \in Heroes, LevelUpTimeout(h)
      PROVE  Moves(clock, clock')
  BY <1>0, <1>3, <1>5, TakeUpgradeGood DEF LevelUpTimeout, AfterTimeout
<1>6. CASE InputTimeout
  BY <1>0, <1>3, <1>6, FinalGood, EngineNextGood DEF InputTimeout, AfterTimeout
<1>7. CASE TeamPartlyDry
  BY <1>0, <1>3, <1>7 DEF TeamPartlyDry
<1>8. CASE Prepared
  <2> DEFINE c == Reconcile(clock, table, Open)
  <2>1. Moves(clock, c) /\ GoodClock(c)
    BY <1>0, Moved, ReconcileSync DEF IInv
  <2>2. clock' = c \/ SaveAndSchedule(c, table)
    BY <1>8 DEF Prepared
  <2> HIDE DEF c
  <2> QED
    BY <1>0, <2>1, <2>2, Moved, SaveKeepsPools
<1>9. CASE DeadlineDone
  BY <1>0, <1>9, Moved, SaveKeepsPools DEF DeadlineDone
<1>10. CASE Finish
  <2> DEFINE c == Reconcile(Settled, table, Open)
  <2>1. Moves(clock, c) /\ GoodClock(c)
    <3>1. Rested(Settled)
      BY SettleKeeps DEF Settled, IInv, RestTyped
    <3> QED
      BY <1>0, <3>1, Moved, ReconcileSync
  <2>2. SaveAndSchedule(c, table)
    BY <1>10 DEF Finish
  <2> HIDE DEF c
  <2> QED
    BY <1>0, <2>1, <2>2, Moved, SaveKeepsPools
<1>11. CASE DecisionAccepted \/ DecisionRefused
              \/ \E h, msg, req : BotDecide(h, msg, req)
  BY <1>0, <1>11, Moved, DecisionKeepsPools
     DEF DecisionAccepted, DecisionRefused, BotDecide
<1>12. CASE ApplyPause
  BY <1>0, <1>12, Moved, StopsKeepPools DEF ApplyPause
<1>13. CASE RewindDone
  <2>1. SamePools(clock, clock')
    BY <1>0, <1>13 DEF RewindDone, SamePools, Clock
  <2> QED
    BY <1>0, <2>1, Moved
<1>14. CASE NothingDue \/ DecisionLost \/ ApplyPatch \/ RewindFailed \/ DeadlineStale
  BY <1>1, <1>14 DEF NothingDue, DecisionLost, ApplyPatch, RewindFailed, DeadlineStale
<1>15. CASE DeadlineFire \/ \E h, msg, req : ClientBegin(h, msg, req)
  BY <1>2, <1>15 DEF DeadlineFire, ClientBegin
<1> QED
  BY <1>4, <1>5, <1>6, <1>7, <1>8, <1>9, <1>10, <1>11, <1>12, <1>13, <1>14, <1>15
     DEF Proceed, Timeouts

\* A ready check resumes the clock in the turn it stopped in, or opens the next.
LEMMA ReadyMoves ==
  ASSUME IInv, NEW h \in Heroes, NEW ready \in BOOLEAN, SetReady(h, ready)
  PROVE  Moves(clock, clock')
<1> DEFINE now  == IF ready THEN clock.ready \cup {h} \cup Bots ELSE clock.ready \ {h}
           c    == [clock EXCEPT !.ready = now, !.moved = TRUE]
           done == IF now = Heroes THEN Resume(c, table) ELSE c
           d    == Reconcile(done, table, Open)
<1>0. /\ table \in GoodTables /\ GoodClock(clock) /\ clock \in Clock
      /\ Open \in BOOLEAN /\ Held(clock) /\ table.turn \in Nat
  BY TableParts DEF IInv, GoodClock, Open, SetReady
<1>1. now \in SUBSET Heroes
  BY <1>0, MatchAssumption DEF Clock
<1> HIDE DEF now
<1>2. GoodClock(c) /\ Held(c) /\ SamePools(clock, c)
  BY <1>0, <1>1 DEF GoodClock, Clock, Held, SamePools
<1> HIDE DEF c
<1>3. /\ GoodClock(done) /\ Rested(done)
      /\ \/ SamePools(clock, done)
         \/ done.turn = table.turn /\ clock.turn # table.turn
  <2> DEFINE running == [c EXCEPT !.status = "RUNNING", !.moved = TRUE]
             cleared == [running EXCEPT !.auto = 0]
  <2>1. GoodClock(running) /\ running.status = "RUNNING" /\ SamePools(clock, running)
    BY <1>2 DEF GoodClock, Clock, Statuses, SamePools
  <2>2. GoodClock(cleared) /\ cleared.status = "RUNNING" /\ SamePools(clock, cleared)
    BY <2>1 DEF GoodClock, Clock, SamePools
  <2>3. \/ done = c \/ done = running \/ done = BeginSharedTurn(cleared, table.turn)
    BY DEF Resume
  <2> HIDE DEF running, cleared, done
  <2>4. CASE done = c
    BY <1>2, <2>4 DEF Rested, Held
  <2>5. CASE done = running
    BY <2>1, <2>5 DEF Rested
  <2>6. CASE done = BeginSharedTurn(cleared, table.turn)
    <3>1. GoodClock(done) /\ Rested(done) /\ done.turn = table.turn
      BY <1>0, <2>2, <2>6, BeginSharedTurnGood DEF Rested
    <3>2. cleared.turn = table.turn => done = cleared
      BY <2>6 DEF BeginSharedTurn
    <3> QED
      BY <2>2, <3>1, <3>2 DEF SamePools
  <2> QED
    BY <2>3, <2>4, <2>5, <2>6
<1>4. SaveAndSchedule(d, table)
  BY DEF SetReady, d, done, c, now
<1> HIDE DEF done
<1>5. GoodClock(d)
  BY <1>0, <1>3, ReconcileSync
<1>6. Moves(clock, d)
  <2>1. CASE SamePools(clock, done)
    <3>1. Charged(clock, done)
      BY <1>0, <2>1, SameIsBoth
    <3> QED
      BY <1>0, <1>3, <3>1, Moved
  <2>2. CASE done.turn = table.turn /\ clock.turn # table.turn
    <3>1. d.turn # clock.turn
      BY <1>0, <1>3, <2>2, ReconcileGrants DEF Reconciled
    <3>2. Charged(clock, clock)
      BY <1>0, SameIsBoth DEF SamePools
    <3> QED
      BY <1>0, <3>1, <3>2 DEF Moves
  <2> QED
    BY <1>3, <2>1, <2>2
<1> HIDE DEF d
<1> QED
  BY <1>0, <1>4, <1>5, <1>6, Moved, SaveKeepsPools

\* So does every step that is not a restart.
LEMMA StepMoves ==
  ASSUME IInv, [Next]_vars, crashes' = crashes
  PROVE  Moves(clock, clock')
<1>0. /\ table \in GoodTables /\ GoodClock(clock) /\ crashes \in Nat
      /\ GoodClock(Settled) /\ Charged(clock, Settled)
  BY SettleGood, SettleCharges DEF IInv, RestTyped, Settled
<1>1. CASE clock' = clock
  BY <1>0, <1>1, Moved DEF SamePools
<1>2. CASE Ready
  BY <1>1, <1>2, ReadyMoves DEF Ready, SetReadyRefused
<1>3. CASE Proposals
  <2>1. /\ \A f : Propose(f) => clock' = Reconcile(Settled, table, TRUE)
        /\ ProposalDropped \/ PlayerRevealed => clock' = Reconcile(Settled, table, FALSE)
        /\ ProposalApproved => clock' = clock \/ clock' = Settled
    BY DEF Propose, ProposalDropped, PlayerRevealed, ProposalApproved
  <2>2. CASE \E open \in BOOLEAN : clock' = Reconcile(Settled, table, open)
    BY <1>0, <2>2, Moved
  <2>3. CASE clock' = Settled
    BY <1>0, <2>3, Moved
  <2> QED
    BY <1>1, <1>3, <2>1, <2>2, <2>3 DEF Proposals
<1>4. ~ (Crash \/ Shutdown)
  <2>1. \A file : RestartFrom(file) => crashes' # crashes
    BY <1>0 DEF RestartFrom
  <2> QED
    BY <2>1 DEF Crash, Shutdown
<1>5. CASE Tick \/ UNCHANGED vars
  BY <1>1, <1>5 DEF Tick, vars
<1>6. CASE Client \/ Bot \/ Proceed \/ DeadlineStale \/ DeadlineFire
  BY <1>6, HandlersMove DEF Client, Bot
<1> QED
  BY <1>2, <1>3, <1>4, <1>5, <1>6 DEF Next

\* Within a turn no pool is refilled except by the grant that names it, and every
\* grant is made once: spend_time and the begin_/grant_ functions, whatever the
\* order in which handlers settle, reconcile and resume.
THEOREM NoRefundCorrect == Spec => NoRefund
<1>1. ASSUME IInv, [Next]_vars, IInv', crashes' = crashes, clock'.turn = clock.turn,
             NEW h \in Heroes
      PROVE  LET old == clock.pool[h]
                 new == clock'.pool[h]
             IN /\ \A n \in {"planning", "resolution", "bank"} : new[n] <= old[n]
                /\ new["overrun"] >= old["overrun"]
                /\ new["response"] > old["response"] => clock'.credited # clock.credited
                /\ new["initiative"] > old["initiative"] => clock.bonus = NoHero
                /\ new["upgrade"] > old["upgrade"] => ~clock.levelUp
  <2>1. PICK s : GoodClock(s) /\ Charged(clock, s) /\ Granted(s, clock')
    BY <1>1, StepMoves DEF Moves
  <2>2. \A n \in PoolNames :
          clock.pool[h][n] \in Nat /\ clock'.pool[h][n] \in Nat /\ s.pool[h][n] \in Nat
    BY <1>1, <2>1, PoolNumbers DEF IInv
  <2> QED
    BY <2>1, <2>2 DEF Charged, Granted, PoolNames
<1>2. IInv /\ [Next]_vars /\ IInv' =>
        [crashes' = crashes /\ clock'.turn = clock.turn =>
          \A h \in Heroes :
            LET old == clock.pool[h]
                new == clock'.pool[h]
            IN /\ \A n \in {"planning", "resolution", "bank"} : new[n] <= old[n]
               /\ new["overrun"] >= old["overrun"]
               /\ new["response"] > old["response"] => clock'.credited # clock.credited
               /\ new["initiative"] > old["initiative"] => clock.bonus = NoHero
               /\ new["upgrade"] > old["upgrade"] => ~clock.levelUp]_vars
  BY <1>1
<1> QED
  BY <1>2, Invariance, PTL DEF Spec, NoRefund

-----------------------------------------------------------------------------
(* Who holds the lock. *)

\* A client's handler works on a message, an approved proposal's on the family it
\* was approved for, with no proposal left open; a deadline worker does no more
\* than prepare.  No time passes while a handler prepares or applies.
HoldersFit ==
    /\ job.who = "nobody" <=> job.pc \in {"idle", "finish"}
    /\ job.who = "client" => job.msg \in PlanningMsgs \cup {"edit", "input", "rollback"}
    /\ job.who = "worker" => job.pc \in {"due", "prepared"}
    /\ job.who = "vote" => ~Open /\ job.msg \in {"pause", "patch", "rewind"}
    /\ job.pc = "rewind" => job.msg = "rewind"
    /\ job.lost => job.timed
    /\ job.pc \in {"due", "prepared", "apply"} => lag = 0

LEMMA InitHolders == Init => HoldersFit
  BY DEF Init, HoldersFit, IdleJob, Open

\* A handler that ends leaves the lock to nobody, or to its finalize.
Releases == \/ job' = IdleJob
            \/ job' = [IdleJob EXCEPT !.pc = "finish"]
            \/ \E accepted \in BOOLEAN :
                 job' = [IdleJob EXCEPT !.pc = "finish", !.accepted = accepted]

\* The holders fit again once it did.
LEMMA Released ==
  ASSUME Releases
  PROVE  HoldersFit' /\ job'.pc \in {"idle", "finish"}
<1>1. /\ job'.who = "nobody" /\ job'.msg = "none" /\ job'.lost = FALSE
      /\ job'.pc \in {"idle", "finish"}
  <2>1. CASE job' = IdleJob \/ job' = [IdleJob EXCEPT !.pc = "finish"]
    BY <2>1 DEF IdleJob
  <2>2. ASSUME NEW accepted \in BOOLEAN,
               job' = [IdleJob EXCEPT !.pc = "finish", !.accepted = accepted]
        PROVE  /\ job'.who = "nobody" /\ job'.msg = "none" /\ job'.lost = FALSE
               /\ job'.pc = "finish"
    BY <2>2 DEF IdleJob
  <2> QED
    BY <2>1, <2>2 DEF Releases
<1> QED
  BY <1>1 DEF HoldersFit

\* The holder of the lock goes on, or ends.
LEMMA HoldersGoOn ==
  ASSUME IInv, HoldersFit, Proceed
  PROVE  HoldersFit'
<1>0. job \in Job
  BY DEF IInv, RestTyped, GoodJobs
<1>1. ASSUME NEW c, NEW t, NEW lost \in BOOLEAN, NEW again \in BOOLEAN, job.pc = "due",
             AfterTimeout(c, t, lost, again)
      PROVE  HoldersFit'
  <2>1. /\ job'.who = job.who /\ job'.msg = job.msg /\ job'.timed
        /\ job'.pc \in {"due", "prepared"}
        /\ lag' = lag /\ proposal' = proposal
    BY <1>0, <1>1 DEF AfterTimeout, Job
  <2> QED
    BY <1>1, <2>1 DEF HoldersFit, Open
<1>2. CASE Timeouts
  <2>1. /\ \A h : Loses("PLANNING", h) \in BOOLEAN /\ Loses("LEVEL_UP", h) \in BOOLEAN
        /\ Loses(clock.kind, NoHero) \in BOOLEAN
    BY DEF Loses
  <2>2. ASSUME NEW h \in Heroes, PlanningTimeout(h) \/ LevelUpTimeout(h) PROVE HoldersFit'
    BY <1>1, <2>1, <2>2 DEF PlanningTimeout, LevelUpTimeout
  <2>3. CASE InputTimeout
    BY <1>1, <2>1, <2>3 DEF InputTimeout
  <2>4. CASE TeamPartlyDry \/ NothingDue
    <3>1. /\ job' = [job EXCEPT !.pc = "prepared"] /\ job.pc = "due"
          /\ lag' = lag /\ proposal' = proposal
      BY <2>4 DEF TeamPartlyDry, NothingDue
    <3>2. /\ job'.who = job.who /\ job'.msg = job.msg /\ job'.timed = job.timed
          /\ job'.lost = job.lost /\ job'.pc = "prepared"
      BY <1>0, <3>1 DEF Job
    <3> QED
      BY <3>1, <3>2 DEF HoldersFit, Open
  <2> QED
    BY <1>2, <2>2, <2>3, <2>4 DEF Timeouts
<1>3. CASE Prepared
  <2>1. /\ job' = [job EXCEPT !.pc = IF job.msg = "rewind" THEN "rewind" ELSE "apply"]
        /\ job.pc = "prepared" /\ job.who \in {"client", "vote"}
        /\ lag' = lag /\ proposal' = proposal
    BY <1>3 DEF Prepared
  <2>2. /\ job'.who = job.who /\ job'.msg = job.msg /\ job'.timed = job.timed
        /\ job'.lost = job.lost
        /\ job'.pc = IF job.msg = "rewind" THEN "rewind" ELSE "apply"
    BY <1>0, <2>1 DEF Job
  <2> QED
    BY <2>1, <2>2 DEF HoldersFit, Open
<1>4. CASE \/ DecisionLost \/ DecisionAccepted \/ DecisionRefused
           \/ DeadlineDone \/ Finish
           \/ ApplyPause \/ ApplyPatch \/ RewindDone \/ RewindFailed
  <2>1. (job.msg # "edit") \in BOOLEAN
    OBVIOUS
  <2>2. Releases
    BY <1>4, <2>1 DEF Releases, DecisionLost, DecisionAccepted, DecisionRefused,
                      DeadlineDone, Finish, ApplyPause, ApplyPatch, RewindDone, RewindFailed
  <2> QED
    BY <2>2, Released
<1> QED
  BY <1>2, <1>3, <1>4 DEF Proceed

\* So does every other step: a handler begins, or the lock stays free.
LEMMA NextHolders ==
  ASSUME IInv, HoldersFit, [Next]_vars
  PROVE  HoldersFit'
<1>1. ASSUME NEW h, NEW msg \in PlanningMsgs \cup {"edit", "input", "rollback"}, NEW req,
             ClientBegin(h, msg, req)
      PROVE  HoldersFit'
  <2>1. /\ job'.who = "client" /\ job'.msg = msg /\ job'.pc = "due" /\ ~job'.lost
        /\ lag' = 0
    BY <1>1 DEF ClientBegin, IdleJob
  <2> QED
    BY <1>1, <2>1 DEF HoldersFit
<1>2. ASSUME NEW h, NEW msg, NEW req, BotDecide(h, msg, req)
      PROVE  HoldersFit'
  <2>1. Releases
    BY <1>2 DEF BotDecide, Releases
  <2> QED
    BY <2>1, Released
<1>3. CASE DeadlineFire
  <2>1. job'.who = "worker" /\ job'.pc = "due" /\ ~job'.lost /\ lag' = 0
    BY <1>3 DEF DeadlineFire, IdleJob
  <2>2. job'.msg = "none"
    BY <1>3 DEF DeadlineFire, IdleJob
  <2> QED
    BY <2>1, <2>2 DEF HoldersFit
<1>4. CASE SetReadyRefused \/ Crash \/ Shutdown
  <2>1. Releases
    BY <1>4 DEF Releases, SetReadyRefused, Crash, Shutdown, RestartFrom
  <2> QED
    BY <2>1, Released
<1>5. CASE /\ Free /\ job' = job
           /\ (\E f \in Families : Propose(f)) \/ ProposalDropped \/ PlayerRevealed
                \/ ProposalApproved \/ DeadlineStale
                \/ \E h, r : SetReady(h, r)
  BY <1>5 DEF HoldersFit, Free
<1>6. CASE ProposalApproved /\ job' # job
  <2>1. /\ job'.who = "vote" /\ job'.msg = proposal /\ job'.pc = "due" /\ ~job'.lost
        /\ lag' = 0 /\ proposal' = "none" /\ proposal \in {"pause", "patch", "rewind"}
    BY <1>6 DEF ProposalApproved, IdleJob, Open, IInv, RestTyped
  <2> QED
    BY <2>1 DEF HoldersFit, Open
<1>7. CASE Tick
  <2>1. job' = job /\ proposal' = proposal /\ job.pc \in {"idle", "rewind", "finish"}
    BY <1>7 DEF Tick
  <2> QED
    BY <2>1 DEF HoldersFit, Open
<1>8. CASE Client
  BY <1>1, <1>8 DEF Client
<1>9. CASE Bot
  BY <1>2, <1>9 DEF Bot
<1>10. CASE Ready
  BY <1>4, <1>5, <1>10 DEF Ready, SetReady
<1>11. CASE Proposals
  BY <1>5, <1>6, <1>11 DEF Proposals, Propose, ProposalDropped, PlayerRevealed, ProposalApproved
<1>12. CASE DeadlineStale
  BY <1>5, <1>12 DEF DeadlineStale
<1>13. CASE UNCHANGED vars
  BY <1>13 DEF vars, HoldersFit, Open
<1> QED
  BY <1>3, <1>4, <1>7, <1>8, <1>9, <1>10, <1>11, <1>12, <1>13, HoldersGoOn DEF Next

\* Every reachable state has such holders.
THEOREM LockHolders == Spec => []HoldersFit
<1>1. IInv /\ HoldersFit /\ [Next]_vars => HoldersFit'
  BY NextHolders
<1> QED
  BY <1>1, InitHolders, Invariance, PTL DEF Spec

-----------------------------------------------------------------------------
(* What is on disk. *)

\* The file holds the table the players see, except while a handler has applied
\* something that its finalize, or the end of prepare, has yet to save.
SavedFits ==
    \/ job.pc \in {"idle", "apply", "rewind"}
    \/ job.pc \in {"due", "prepared"} /\ ~job.timed
    => saved.table = table

\* registry.save_game writes the table it is given.
LEMMA SaveWrites ==
  ASSUME NEW c, NEW t, SaveAndSchedule(c, t)
  PROVE  saved'.table = t
  BY DEF SaveAndSchedule

LEMMA InitSaved == Init => SavedFits
  BY DEF Init, SavedFits

\* Every step keeps the file up to date.
LEMMA NextSaved ==
  ASSUME IInv, SavedFits, [Next]_vars
  PROVE  SavedFits'
<1>0. job \in Job
  BY DEF IInv, RestTyped, GoodJobs
<1>1. ASSUME job'.pc = "finish"
      PROVE  SavedFits'
  BY <1>1 DEF SavedFits
<1>2. ASSUME saved'.table = table'
      PROVE  SavedFits'
  BY <1>2 DEF SavedFits
<1>3. CASE UNCHANGED <<table, saved, job>>
  BY <1>3 DEF SavedFits
<1>4. CASE Client \/ DeadlineFire
  <2>1. /\ Free /\ UNCHANGED <<table, saved>>
    BY <1>4 DEF Client, ClientBegin, DeadlineFire
  <2> QED
    BY <2>1, <1>2 DEF SavedFits, Free
<1>5. CASE Bot \/ SetReadyRefused
  <2>1. job'.pc = "finish"
    BY <1>5 DEF Bot, BotDecide, SetReadyRefused, IdleJob
  <2> QED
    BY <2>1, <1>1
<1>6. CASE Ready
  <2>1. CASE \E h, r : SetReady(h, r)
    <3>1. saved'.table = table /\ table' = table
      BY <2>1, SaveWrites DEF SetReady
    <3> QED
      BY <3>1, <1>2
  <2> QED
    BY <1>5, <1>6, <2>1 DEF Ready
<1>7. CASE Proposals
  <2>1. Free /\ table' = table
    BY <1>7 DEF Proposals, Propose, ProposalDropped, PlayerRevealed, ProposalApproved
  <2>2. saved'.table = saved.table \/ saved'.table = table
    <3>1. ProposalDropped => saved'.table = table
      BY DEF ProposalDropped
    <3>2. (\E f \in Families : Propose(f)) \/ PlayerRevealed \/ ProposalApproved =>
            saved' = saved
      BY DEF Propose, PlayerRevealed, ProposalApproved
    <3> QED
      BY <1>7, <3>1, <3>2 DEF Proposals
  <2> QED
    BY <2>1, <2>2, <1>2 DEF SavedFits, Free
<1>8. CASE Timeouts
  <2>1. ASSUME NEW c, NEW t, NEW lost, NEW again, job.pc = "due", AfterTimeout(c, t, lost, again)
        PROVE  SavedFits'
    <3>1. job'.timed /\ job'.pc \in {"due", "prepared"}
      BY <1>0, <2>1 DEF AfterTimeout, Job
    <3> QED
      BY <3>1 DEF SavedFits
  <2>2. CASE TeamPartlyDry \/ NothingDue
    <3>1. /\ job' = [job EXCEPT !.pc = "prepared"] /\ job.pc = "due"
          /\ UNCHANGED <<table, saved>>
      BY <2>2 DEF TeamPartlyDry, NothingDue
    <3>2. job'.pc = "prepared" /\ job'.timed = job.timed
      BY <1>0, <3>1 DEF Job
    <3> QED
      BY <3>1, <3>2 DEF SavedFits
  <2> QED
    BY <1>8, <2>1, <2>2 DEF Timeouts, PlanningTimeout, LevelUpTimeout, InputTimeout
<1>9. CASE Prepared
  <2>1. /\ table' = table /\ job.pc = "prepared"
        /\ job.timed => saved'.table = table
        /\ ~job.timed => saved' = saved
    BY <1>9, SaveWrites DEF Prepared
  <2> QED
    BY <2>1, <1>2 DEF SavedFits
<1>10. CASE DeadlineDone \/ Finish
  <2>1. saved'.table = table /\ table' = table
    BY <1>10, SaveWrites DEF DeadlineDone, Finish
  <2> QED
    BY <2>1, <1>2
<1>11. CASE DecisionLost
  <2>1. job.pc = "apply" /\ UNCHANGED <<table, saved>>
    BY <1>11 DEF DecisionLost
  <2> QED
    BY <2>1, <1>2 DEF SavedFits
<1>12. CASE \/ DecisionAccepted \/ DecisionRefused
            \/ ApplyPause \/ ApplyPatch \/ RewindDone \/ RewindFailed
  <2>1. job'.pc = "finish"
    BY <1>12 DEF DecisionAccepted, DecisionRefused, ApplyPause, ApplyPatch, RewindDone,
                 RewindFailed, IdleJob
  <2> QED
    BY <2>1, <1>1
<1>13. CASE Crash \/ Shutdown
  <2>1. \A file : RestartFrom(file) => saved'.table = table'
    BY SaveWrites DEF RestartFrom
  <2> QED
    BY <1>2, <1>13, <2>1 DEF Crash, Shutdown
<1>14. CASE DeadlineStale \/ Tick \/ UNCHANGED vars
  BY <1>3, <1>14 DEF DeadlineStale, Tick, vars
<1> QED
  BY <1>4, <1>5, <1>6, <1>7, <1>8, <1>9, <1>10, <1>11, <1>12, <1>13, <1>14
     DEF Next, Proceed

\* With the lock free, only a crash or a shutdown counts as one.
LEMMA FreeRestarts ==
  ASSUME [Next]_vars, crashes' # crashes, Free
  PROVE  Crash \/ Shutdown
<1>1. CASE Client \/ Bot \/ Ready \/ Proposals \/ DeadlineStale \/ DeadlineFire \/ Tick
  BY <1>1 DEF Client, ClientBegin, Bot, BotDecide, Ready, SetReady, SetReadyRefused,
              Proposals, Propose, ProposalDropped, PlayerRevealed, ProposalApproved,
              DeadlineStale, DeadlineFire, Tick
<1>2. ~Proceed
  BY DEF Free, Proceed, Timeouts, PlanningTimeout, LevelUpTimeout, InputTimeout,
         TeamPartlyDry, NothingDue, Prepared, DecisionLost, DecisionAccepted,
         DecisionRefused, DeadlineDone, Finish, ApplyPause, ApplyPatch, RewindDone,
         RewindFailed
<1> QED
  BY <1>1, <1>2 DEF Next, vars

\* A restart while no handler holds the lock takes back no decision, a player's or
\* an automatic one: every handler saves before it lets go (finalize and the end
\* of prepare), and resume_timers starts from that file.
THEOREM RestartCorrect == Spec => RestartKeepsDecisions
<1>1. IInv /\ SavedFits /\ [Next]_vars => SavedFits'
  BY NextSaved
<1>2. IInv /\ SavedFits /\ [Next]_vars => [crashes' # crashes /\ Free => table' = table]_vars
  <2> SUFFICES ASSUME IInv, SavedFits, [Next]_vars, crashes' # crashes, Free
               PROVE  table' = table
    OBVIOUS
  <2>1. CASE Crash
    BY <2>1 DEF Crash, RestartFrom, SavedFits, Free
  <2>2. CASE Shutdown
    BY <2>2 DEF Shutdown, RestartFrom
  <2> QED
    BY <2>1, <2>2, FreeRestarts
<1> QED
  BY <1>1, <1>2, InitSaved, Invariance, PTL DEF Spec, RestartKeepsDecisions

-----------------------------------------------------------------------------
(* The engine's time. *)

\* Once a decision is accepted no target runs until its finalize.
Stopped == job.pc = "finish" /\ job.accepted => ~Charging(clock) \/ clock.active = {}

LEMMA InitStopped == Init => Stopped
  BY DEF Init, Stopped, IdleJob

\* stop_clock_for_accepted_decision finds the decision among those the clock
\* waits for: it answers the request, or the planning, whose targets run, or
\* takes the request back.
LEMMA AcceptedStops ==
  ASSUME GoodClock(clock), table \in GoodTables, Sync(clock, table, Open),
         NEW t \in {table, Final(table)},
         NEW h \in Heroes, NEW msg \in PlanningMsgs \cup {"input", "rollback"}, NEW req,
         Decide(t, clock.locked, h, msg, req) # {}
  PROVE  LET d == StopForDecision(clock, h, msg, req)
         IN ~Charging(d) \/ d.active = {}
<1> DEFINE d == StopForDecision(clock, h, msg, req)
           a == Activate(clock, clock.kind, {}, clock.deciders, clock.request)
           stops == /\ Charging(clock)
                    /\ \/ clock.kind = "PLANNING" /\ msg \in PlanningMsgs
                       \/ clock.kind # "PLANNING" /\ msg = "input" /\ req = clock.request
                            /\ h \in clock.deciders
                       \/ clock.kind # "PLANNING" /\ msg = "rollback"
                            /\ h \in clock.deciders
<1>1. d = IF stops THEN a ELSE clock
  BY DEF StopForDecision
<1>2. a.active = {}
  <2>1. clock.kind \in Kinds /\ clock.deciders \in SUBSET Heroes /\ clock.request \in Nat
    BY DEF GoodClock, Clock
  <2> QED
    BY <2>1, ActivateGood
<1>3. \/ msg \in PlanningMsgs /\ table.phase = "PLANNING"
      \/ msg = "input" /\ table.phase = "RESOLUTION" /\ req = table.request.id
           /\ h \in table.request.to
      \/ msg = "input" /\ table.phase = "LEVEL_UP" /\ req = table.request.id
           /\ h \in table.upgrades
      \/ msg = "rollback" /\ table.phase = "RESOLUTION" /\ h \in table.request.to
  <2>1. /\ t.phase = table.phase /\ t.request = table.request
        /\ t.upgrades = table.upgrades
    BY FinalGood
  <2> QED
    BY <2>1 DEF Decide, PlanningMsgs, Responds
<1>4. CASE clock.status = "RUNNING" /\ ~Open
  <2>1. Agrees(clock, table)
    BY <1>4 DEF Sync
  <2>2. stops \/ ~Charging(clock)
    BY <1>3, <2>1 DEF Agrees, PlanningMsgs
  <2> HIDE DEF stops, a, d
  <2> QED
    BY <1>1, <1>2, <2>2 DEF d
<1>5. CASE clock.status # "RUNNING"
  <2>1. ~Charging(clock)
    BY <1>5 DEF Charging
  <2> QED
    BY <1>1, <2>1
<1>6. CASE clock.status = "RUNNING" /\ Open
  <2>1. clock.active = {}
    BY <1>6 DEF Sync
  <2> HIDE DEF stops, a, d
  <2> QED
    BY <1>1, <1>2, <2>1 DEF d
<1> QED
  BY <1>4, <1>5, <1>6

\* While a finalize is due nothing else moves.
LEMMA OnlyFinish ==
  ASSUME [Next]_vars, job.pc = "finish"
  PROVE  Finish \/ Crash \/ UNCHANGED <<table, clock, job>>
<1>1. CASE Client \/ Bot \/ Ready \/ Proposals \/ DeadlineStale \/ DeadlineFire \/ Shutdown
  BY <1>1 DEF Free, Client, ClientBegin, Bot, BotDecide, Ready, SetReady, SetReadyRefused,
              Proposals, Propose, ProposalDropped, PlayerRevealed, ProposalApproved,
              DeadlineStale, DeadlineFire, Shutdown
<1>2. CASE Proceed
  BY <1>2 DEF Proceed, Timeouts, PlanningTimeout, LevelUpTimeout, InputTimeout,
              TeamPartlyDry, NothingDue, Prepared, DecisionLost, DecisionAccepted,
              DecisionRefused, DeadlineDone, ApplyPause, ApplyPatch, RewindDone,
              RewindFailed
<1>3. CASE Tick \/ UNCHANGED vars
  BY <1>3 DEF Tick, vars
<1> QED
  BY <1>1, <1>2, <1>3 DEF Next

\* Every step keeps the targets of an accepted decision stopped.
LEMMA NextStopped ==
  ASSUME IInv, HoldersFit, Stopped, [Next]_vars
  PROVE  Stopped'
<1>0. GoodClock(clock) /\ table \in GoodTables /\ job \in GoodJobs /\ job \in Job
  BY DEF IInv, RestTyped, GoodJobs
<1>1. ASSUME job'.pc # "finish" \/ ~job'.accepted
      PROVE  Stopped'
  BY <1>1 DEF Stopped
<1>2. CASE job.pc = "finish"
  <2>1. CASE Finish \/ Crash
    <3>1. job' = IdleJob
      BY <2>1 DEF Finish, Crash, RestartFrom
    <3> QED
      BY <3>1, <1>1 DEF IdleJob
  <2>2. CASE UNCHANGED <<table, clock, job>>
    BY <2>2 DEF Stopped, Charging
  <2> QED
    BY <1>2, <2>1, <2>2, OnlyFinish
<1>3. ASSUME job.pc # "finish", job'.pc = "finish", job'.accepted,
             NEW h \in Heroes, NEW msg \in PlanningMsgs \cup {"input", "rollback"}, NEW req,
             BotDecide(h, msg, req)
      PROVE  Stopped'
  <2>1. Sync(clock, table, Open)
    BY <1>3 DEF BotDecide, Free, InSync, IInv
  <2>2. PICK t \in {table, Final(table)} : Decide(t, clock.locked, h, msg, req) # {}
    BY <1>3 DEF BotDecide
  <2>3. clock' = StopForDecision(clock, h, msg, req)
    BY <1>3 DEF BotDecide
  <2> QED
    BY <1>0, <2>1, <2>2, <2>3, AcceptedStops DEF Stopped
<1>4. ASSUME DecisionAccepted, job.pc # "finish", job'.pc = "finish", job'.accepted
      PROVE  Stopped'
  <2>1. /\ job.pc = "apply" /\ job.who = "client" /\ job.hero \in Heroes
        /\ Decide(table, clock.locked, job.hero, job.msg, job.req) # {}
        /\ clock' = MarkHuman(StopForDecision(clock, job.hero, job.msg, job.req))
        /\ job' = [IdleJob EXCEPT !.pc = "finish", !.accepted = job.msg # "edit"]
    BY <1>0, <1>4 DEF DecisionAccepted, GoodJobs
  <2>2. job.msg \in PlanningMsgs \cup {"input", "rollback"}
    <3>1. job'.accepted = (job.msg # "edit")
      BY <2>1 DEF IdleJob
    <3> QED
      BY <1>4, <2>1, <3>1 DEF HoldersFit
  <2>3. Sync(clock, table, Open)
    BY <2>1 DEF InSync, IInv
  <2> DEFINE d == StopForDecision(clock, job.hero, job.msg, job.req)
  <2>4. ~Charging(d) \/ d.active = {}
    BY <1>0, <2>1, <2>2, <2>3, AcceptedStops
  <2>5. GoodClock(d)
    BY <1>0, StopForDecisionGood DEF IInv
  <2>6. clock' = MarkHuman(d)
    BY <2>1
  <2> HIDE DEF d
  <2>7. ~Charging(MarkHuman(d)) \/ MarkHuman(d).active = {}
    BY <2>4, <2>5 DEF MarkHuman, Charging, GoodClock, Clock
  <2> QED
    BY <2>6, <2>7 DEF Stopped
<1>5. ASSUME job.pc # "finish", job'.pc = "finish", job'.accepted
      PROVE  \/ DecisionAccepted
             \/ \E h \in Heroes, msg \in PlanningMsgs \cup {"input"} :
                  \E req : BotDecide(h, msg, req)
  <2>1. CASE Bot
    BY <2>1, MatchAssumption DEF Bot, PlanningMsgs
  <2>2. CASE Client \/ DeadlineFire \/ ProposalApproved
    BY <1>5, <2>2 DEF Client, ClientBegin, DeadlineFire, ProposalApproved, IdleJob
  <2>3. CASE SetReadyRefused \/ Crash \/ Shutdown
    <3>1. job' = IdleJob \/ job' = [IdleJob EXCEPT !.pc = "finish"]
      BY <2>3 DEF SetReadyRefused, Crash, Shutdown, RestartFrom
    <3>2. job'.accepted = FALSE
      BY <3>1 DEF IdleJob
    <3> QED
      BY <1>5, <3>2
  <2>4. CASE \/ \E h, r : SetReady(h, r)
             \/ \E f : Propose(f)
             \/ ProposalDropped \/ PlayerRevealed \/ DeadlineStale
             \/ Tick \/ UNCHANGED vars
    BY <1>5, <2>4 DEF SetReady, Propose, ProposalDropped, PlayerRevealed, DeadlineStale,
                      Tick, vars
  <2>5. ~Timeouts
    <3>1. ASSUME NEW c, NEW t, NEW lost, NEW again, AfterTimeout(c, t, lost, again)
          PROVE  FALSE
      BY <1>0, <1>5, <3>1 DEF AfterTimeout, Job
    <3>2. ~ (TeamPartlyDry \/ NothingDue)
      BY <1>0, <1>5 DEF TeamPartlyDry, NothingDue, Job
    <3> QED
      BY <3>1, <3>2 DEF Timeouts, PlanningTimeout, LevelUpTimeout, InputTimeout
  <2>6. ~Prepared
    BY <1>0, <1>5 DEF Prepared, Job
  <2>7. ~ (DecisionLost \/ DecisionRefused \/ DeadlineDone \/ Finish
             \/ ApplyPause \/ ApplyPatch \/ RewindDone \/ RewindFailed)
    BY <1>5 DEF DecisionLost, DecisionRefused, DeadlineDone, Finish, ApplyPause,
                ApplyPatch, RewindDone, RewindFailed, IdleJob
  <2> QED
    BY <2>1, <2>2, <2>3, <2>4, <2>5, <2>6, <2>7 DEF Next, Proceed, Ready, Proposals
<1> QED
  BY <1>1, <1>2, <1>3, <1>4, <1>5

\* The time the engine takes after it accepted a decision is charged to nobody:
\* the finalize may only add grants (stop_clock_for_accepted_decision).
THEOREM AcceptedCorrect == Spec => AcceptedDecisionIsFree
<1>1. IInv /\ HoldersFit /\ Stopped /\ [Next]_vars => Stopped'
  BY NextStopped
<1>2. ASSUME IInv, IInv', Stopped, [Next]_vars, crashes' = crashes, job.pc = "finish",
             job.accepted, NEW h \in Heroes, NEW n \in PoolNames, clock'.turn = clock.turn
      PROVE  IF n = "overrun" THEN clock'.pool[h][n] <= clock.pool[h][n]
                              ELSE clock'.pool[h][n] >= clock.pool[h][n]
  <2>0. /\ GoodClock(clock) /\ GoodClock(clock') /\ table \in GoodTables
        /\ GoodClock(Settled) /\ Rested(Settled) /\ Open \in BOOLEAN
    BY <1>2, SettleKeeps DEF IInv, RestTyped, Settled, Open
  <2>1. clock.pool[h][n] \in Nat /\ clock'.pool[h][n] \in Nat
    BY <2>0, PoolNumbers
  <2>2. CASE UNCHANGED <<table, clock, job>>
    BY <2>1, <2>2
  <2>3. CASE Finish
    <3>1. Settled = clock
      <4>1. [g \in Heroes |-> IF g \in {} THEN Spend(clock.pool[g], clock.kind, lag)
                              ELSE clock.pool[g]] = clock.pool
        BY <2>0 DEF GoodClock, Clock
      <4>2. [clock EXCEPT !.pool = clock.pool] = clock
        BY <2>0 DEF GoodClock, Clock
      <4> QED
        BY <1>2, <4>1, <4>2 DEF Settled, Settle, Stopped
    <3> DEFINE c == Reconcile(Settled, table, Open)
    <3>2. Reconciled(clock, table, c) /\ GoodClock(c)
      BY <2>0, <3>1, ReconcileGrants, ReconcileSync
    <3>3. SaveAndSchedule(c, table)
      BY <2>3 DEF Finish
    <3> HIDE DEF c
    <3>4. SamePools(c, clock')
      BY <3>2, <3>3, SaveKeepsPools
    <3>5. Granted(clock, clock')
      BY <1>2, <3>2, <3>4 DEF Reconciled, SamePools, Granted
    <3> QED
      BY <2>1, <3>5 DEF Granted, PoolNames
  <2>4. CASE Crash
    BY <1>2, <2>4 DEF Crash, RestartFrom, IInv, RestTyped
  <2> QED
    BY <1>2, <2>2, <2>3, <2>4, OnlyFinish
<1>3. IInv /\ IInv' /\ Stopped /\ [Next]_vars =>
        [crashes' = crashes /\ job.pc = "finish" /\ job.accepted =>
          \A h \in Heroes, n \in PoolNames :
            clock'.turn = clock.turn =>
              IF n = "overrun" THEN clock'.pool[h][n] <= clock.pool[h][n]
                               ELSE clock'.pool[h][n] >= clock.pool[h][n]]_vars
  BY <1>2
<1> QED
  BY <1>1, <1>3, InitStopped, LockHolders, Invariance, PTL DEF Spec, AcceptedDecisionIsFree

-----------------------------------------------------------------------------
(* A paused match. *)

\* A paused match can go on where it stopped: in the turn of its table, with
\* every grant made, so that resuming it refills nothing.
Resumable(c, t) ==
    c.status = "PAUSED" => t.phase # "GAME_OVER" /\ c.turn = t.turn /\ Paid(c, t)

\* No handler that could change the table runs in a paused match.
Frozen ==
    /\ Resumable(clock, table)
    /\ clock.status = "PAUSED" => job.pc \in {"idle", "finish"} \/ job.who = "worker"
    /\ Resumable(saved.clock, saved.table)

\* What neither a charge nor a change of targets touches.
LEMMA SameStaysResumable ==
  ASSUME NEW c, NEW d, NEW t, Resumable(c, t), d.status = c.status,
         SamePools(c, d) \/ Charged(c, d)
  PROVE  Resumable(d, t)
  BY DEF Resumable, Paid, SamePools, Charged

\* Only pause_clock pauses: a reconcile does not.
LEMMA ReconcileStatus ==
  ASSUME NEW c, GoodClock(c), NEW t \in GoodTables, NEW open \in BOOLEAN,
         c.status = "RUNNING"
  PROVE  LET d == Reconcile(c, t, open)
         IN /\ d.status \in {"RUNNING", "FINISHED", "SUSPENDED_FOR_INACTIVITY"}
            /\ d.status = "SUSPENDED_FOR_INACTIVITY" => Abandoned(c, t)
<1> DEFINE d == Reconcile(c, t, open)
<1>1. CASE t.phase = "GAME_OVER"
  <2>1. d = FinishClock(c)
    BY <1>1 DEF Reconcile, Held
  <2>2. d.status = "FINISHED"
    BY <2>1, StopsGood
  <2> HIDE DEF d
  <2> QED
    BY <2>2 DEF d
<1>2. CASE t.phase # "GAME_OVER" /\ open
  <2>1. d = Idle(c)
    BY <1>2 DEF Reconcile, Held
  <2>2. d.status = "RUNNING"
    BY <2>1, StopsGood
  <2> HIDE DEF d
  <2> QED
    BY <2>2 DEF d
<1>3. CASE t.phase # "GAME_OVER" /\ ~open
  <2> DEFINE counted == [c EXCEPT !.auto = AutomaticTurns(c, t)]
             begun == BeginSharedTurn(counted, t.turn)
  <2>1. d = IF Abandoned(c, t) THEN SuspendClock(counted) ELSE SetTargets(begun, t)
    BY <1>3 DEF Reconcile, Held
  <2>2. GoodClock(counted) /\ counted.status = "RUNNING"
    <3>1. c.auto \in Nat
      BY DEF GoodClock, Clock
    <3>2. AutomaticTurns(c, t) \in Nat
      BY <3>1 DEF AutomaticTurns
    <3> QED
      BY <3>2 DEF GoodClock, Clock
  <2> HIDE DEF counted
  <2>3. CASE Abandoned(c, t)
    <3>1. d.status = "SUSPENDED_FOR_INACTIVITY"
      BY <2>1, <2>2, <2>3, StopsGood
    <3> HIDE DEF d
    <3> QED
      BY <2>3, <3>1 DEF d
  <2>4. CASE ~Abandoned(c, t)
    <3>1. GoodClock(begun) /\ begun.status = "RUNNING"
      BY <2>2, BeginSharedTurnGood, TableParts
    <3> HIDE DEF begun
    <3>2. d.status = "RUNNING"
      BY <2>1, <2>4, <3>1, SetTargetsGrants DEF SameCount
    <3> HIDE DEF d
    <3> QED
      BY <3>2 DEF d
  <2> QED
    BY <2>3, <2>4
<1> QED
  BY <1>1, <1>2, <1>3

\* Reconciling what can be resumed leaves it so.
LEMMA ReconcileResumable ==
  ASSUME NEW c, GoodClock(c), NEW t \in GoodTables, NEW open \in BOOLEAN, Resumable(c, t)
  PROVE  /\ Resumable(Reconcile(c, t, open), t)
         /\ Reconcile(c, t, open).status = "PAUSED" => c.status = "PAUSED"
<1> DEFINE d == Reconcile(c, t, open)
<1>1. CASE c.status = "RUNNING"
  <2>1. d.status # "PAUSED"
    BY <1>1, ReconcileStatus
  <2> HIDE DEF d
  <2> QED
    BY <2>1 DEF Resumable, d
<1>2. CASE c.status # "RUNNING"
  <2>1. SamePools(c, d) /\ d.status = c.status
    BY <1>2, ReconcileGrants DEF Reconciled
  <2> HIDE DEF d
  <2>2. Resumable(d, t)
    BY <2>1, SameStaysResumable
  <2> QED
    BY <2>1, <2>2 DEF d
<1> QED
  BY <1>1, <1>2

\* The clock a save writes can be resumed if the one it is given can.
LEMMA SaveResumable ==
  ASSUME NEW c, GoodClock(c), NEW t \in GoodTables, Resumable(c, t), SaveAndSchedule(c, t)
  PROVE  /\ Resumable(clock', t) /\ Resumable(saved'.clock, saved'.table)
         /\ clock'.status = c.status
<1>1. SamePools(c, clock') /\ clock'.status = c.status
  BY SaveKeepsPools
<1>2. saved'.clock = clock' /\ saved'.table = t
  BY DEF SaveAndSchedule
<1> QED
  BY <1>1, <1>2, SameStaysResumable

\* Stopping for a decision keeps the status.
LEMMA DecisionKeepsStatus ==
  ASSUME NEW c, GoodClock(c), NEW h, NEW msg, NEW req
  PROVE  LET d == StopForDecision(c, h, msg, req)
         IN d.status = c.status /\ MarkHuman(d).status = c.status
<1> DEFINE d == StopForDecision(c, h, msg, req)
           a == Activate(c, c.kind, {}, c.deciders, c.request)
<1>1. GoodClock(a) /\ a.status = c.status
  <2>1. c.kind \in Kinds /\ c.deciders \in SUBSET Heroes /\ c.request \in Nat
    BY DEF GoodClock, Clock
  <2> QED
    BY <2>1, ActivateGood
<1>2. d = a \/ d = c
  BY DEF StopForDecision
<1> HIDE DEF a, d
<1>3. GoodClock(d) /\ d.status = c.status
  BY <1>1, <1>2
<1>4. MarkHuman(d).status = d.status
  BY <1>3 DEF MarkHuman, GoodClock, Clock
<1> QED
  BY <1>3, <1>4 DEF d

LEMMA InitFrozen == Init => Frozen
  BY DEF Init, Frozen, Resumable, NewClock

\* A ready check either keeps the match held or resumes it (set_player_ready).
LEMMA ReadyResumes ==
  ASSUME IInv, NEW h \in Heroes, NEW ready \in BOOLEAN, SetReady(h, ready),
         Resumable(clock, table)
  PROVE  /\ Resumable(clock', table) /\ Resumable(saved'.clock, saved'.table)
         /\ clock.status = "PAUSED" =>
              /\ SamePools(clock, clock')
              /\ clock'.status # "PAUSED" =>
                   clock'.status = "RUNNING" /\ clock'.ready = Heroes
<1> DEFINE now  == IF ready THEN clock.ready \cup {h} \cup Bots ELSE clock.ready \ {h}
           c    == [clock EXCEPT !.ready = now, !.moved = TRUE]
           running == [c EXCEPT !.status = "RUNNING", !.moved = TRUE]
           cleared == [running EXCEPT !.auto = 0]
           done == IF now = Heroes THEN Resume(c, table) ELSE c
           d    == Reconcile(done, table, Open)
<1>0. /\ table \in GoodTables /\ GoodClock(clock) /\ clock \in Clock
      /\ Open \in BOOLEAN /\ Held(clock) /\ table.turn \in Nat
  BY TableParts DEF IInv, GoodClock, Open, SetReady
<1>1. now \in SUBSET Heroes
  BY <1>0, MatchAssumption DEF Clock
<1>2. SaveAndSchedule(d, table)
  BY DEF SetReady
<1> HIDE DEF now
<1>3. /\ GoodClock(c) /\ SamePools(clock, c) /\ c.status = clock.status
      /\ c.ready = now
  BY <1>0, <1>1 DEF GoodClock, Clock, SamePools
<1>4. Resumable(c, table)
  BY <1>3, SameStaysResumable
<1> HIDE DEF c
<1>5. /\ GoodClock(running) /\ running.status = "RUNNING" /\ SamePools(clock, running)
      /\ running.ready = now
  BY <1>3 DEF GoodClock, Clock, Statuses, SamePools
<1>6. GoodClock(cleared) /\ cleared.status = "RUNNING"
  BY <1>5 DEF GoodClock, Clock
<1>7. /\ now # Heroes => done = c
      /\ now = Heroes /\ clock.status = "SUSPENDED_FOR_INACTIVITY" =>
           done = BeginSharedTurn(cleared, table.turn)
      /\ now = Heroes /\ clock.status # "SUSPENDED_FOR_INACTIVITY" => done = running
  BY <1>3 DEF Resume
<1> HIDE DEF running, cleared, done
<1>8. GoodClock(done) /\ Resumable(done, table)
  <2>1. CASE now # Heroes
    BY <1>3, <1>4, <1>7, <2>1
  <2>2. CASE now = Heroes /\ clock.status = "SUSPENDED_FOR_INACTIVITY"
    BY <1>0, <1>6, <1>7, <2>2, BeginSharedTurnGood DEF Resumable
  <2>3. CASE now = Heroes /\ clock.status # "SUSPENDED_FOR_INACTIVITY"
    BY <1>5, <1>7, <2>3 DEF Resumable
  <2> QED
    BY <2>1, <2>2, <2>3
<1>9. GoodClock(d) /\ Resumable(d, table)
  <2>1. Rested(done)
    <3>1. done.status # "FINISHED"
      BY <1>0, <1>3, <1>5, <1>6, <1>7, BeginSharedTurnGood DEF Held
    <3> QED
      BY <3>1 DEF Rested
  <2> QED
    BY <1>0, <1>8, <2>1, ReconcileSync, ReconcileResumable
<1>10. Reconciled(done, table, d)
  BY <1>0, <1>8, ReconcileGrants
<1> HIDE DEF d
<1>11. /\ Resumable(clock', table) /\ Resumable(saved'.clock, saved'.table)
       /\ SamePools(d, clock') /\ clock'.status = d.status /\ clock'.ready = d.ready
  BY <1>0, <1>2, <1>9, SaveResumable, SaveKeepsPools
<1>12. ASSUME clock.status = "PAUSED"
       PROVE  /\ SamePools(clock, clock')
              /\ clock'.status # "PAUSED" =>
                   clock'.status = "RUNNING" /\ clock'.ready = Heroes
  <2>1. SamePools(clock, done)
    BY <1>3, <1>5, <1>7, <1>12
  <2>2. \/ done.status = "PAUSED"
        \/ done.status = "RUNNING" /\ done.ready = Heroes
    BY <1>3, <1>5, <1>7, <1>12
  <2>3. done.status = "RUNNING" =>
          table.phase # "GAME_OVER" /\ done.turn = table.turn /\ Paid(done, table)
    BY <1>12, <2>1 DEF Resumable, SamePools, Paid
  <2>4. SamePools(done, d) /\ d.status = done.status /\ d.ready = done.ready
    BY <1>10, <2>3 DEF Reconciled
  <2>5. SamePools(clock, clock')
    BY <1>11, <2>1, <2>4 DEF SamePools
  <2> QED
    BY <1>11, <2>2, <2>4, <2>5
<1> QED
  BY <1>11, <1>12

\* The holder of the lock neither pauses a match nor works in a paused one, but
\* for an approved pause.
LEMMA ProceedFrozen ==
  ASSUME IInv, HoldersFit, Frozen, Proceed
  PROVE  Frozen'
<1>0. /\ table \in GoodTables /\ GoodClock(clock) /\ clock \in Clock /\ job \in Job
      /\ Open \in BOOLEAN /\ Rested(clock)
  BY DEF IInv, RestTyped, Open, GoodClock, GoodJobs
<1>1. ASSUME clock'.status # "PAUSED", saved' = saved
      PROVE  Frozen'
  BY <1>1 DEF Frozen, Resumable
<1>2. ASSUME job.pc = "due", MustTimeOut, NEW c, GoodClock(c), c.status = clock.status,
             NEW t \in GoodTables, clock' = Reconcile(c, t, Open), saved' = saved
      PROVE  Frozen'
  <2>1. clock'.status # "PAUSED"
    BY <1>0, <1>2, ReconcileStatus DEF MustTimeOut
  <2> QED
    BY <1>1, <1>2, <2>1
<1>3. ASSUME NEW h \in Heroes, PlanningTimeout(h)
      PROVE  Frozen'
  <2> DEFINE c == [clock EXCEPT !.locked = @ \cup {h}]
  <2>1. GoodClock(c) /\ c.status = clock.status
    BY <1>0 DEF GoodClock, Clock
  <2>2. TimeoutPlanning(h) \subseteq GoodTables
    BY <1>0, PlanGood DEF TimeoutPlanning, Plans
  <2>3. PICK t \in TimeoutPlanning(h) :
            AfterTimeout(c, t, Loses("PLANNING", h),
                         Reconcile(c, t, Open).kind = "PLANNING")
    BY <1>3 DEF PlanningTimeout
  <2> HIDE DEF c
  <2> QED
    BY <1>2, <1>3, <2>1, <2>2, <2>3 DEF PlanningTimeout, AfterTimeout
<1>4. ASSUME NEW h \in Heroes, LevelUpTimeout(h)
      PROVE  Frozen'
  BY <1>0, <1>2, <1>4, TakeUpgradeGood DEF LevelUpTimeout, AfterTimeout
<1>5. CASE InputTimeout \/ TeamPartlyDry
  BY <1>0, <1>2, <1>5, FinalGood, EngineNextGood
     DEF InputTimeout, TeamPartlyDry, AfterTimeout
<1>6. CASE NothingDue
  <2>1. /\ job.pc = "due" /\ job'.who = job.who /\ UNCHANGED <<table, clock, saved>>
    BY <1>0, <1>6 DEF NothingDue, Job
  <2> QED
    BY <2>1 DEF Frozen
<1>7. CASE Prepared
  <2> DEFINE c == Reconcile(clock, table, Open)
  <2>1. clock.status # "PAUSED"
    BY <1>7 DEF Prepared, Frozen
  <2>2. GoodClock(c) /\ Resumable(c, table) /\ c.status # "PAUSED"
    BY <1>0, <2>1, ReconcileSync, ReconcileResumable DEF Frozen
  <2>3. /\ table' = table
        /\ (clock' = c /\ saved' = saved) \/ SaveAndSchedule(c, table)
    BY <1>7 DEF Prepared
  <2> HIDE DEF c
  <2>4. CASE SaveAndSchedule(c, table)
    BY <1>0, <2>2, <2>4, SaveResumable DEF Frozen, Resumable
  <2> QED
    BY <1>1, <2>2, <2>3, <2>4
<1>8. CASE DeadlineDone
  <2>1. Resumable(clock', table') /\ Resumable(saved'.clock, saved'.table)
    BY <1>0, <1>8, SaveResumable DEF DeadlineDone, Frozen
  <2>2. job'.pc = "idle"
    BY <1>8 DEF DeadlineDone, IdleJob
  <2> QED
    BY <2>1, <2>2 DEF Frozen
<1>9. CASE DecisionLost \/ DecisionAccepted \/ DecisionRefused
  <2>1. job.pc = "apply" /\ job.who = "client" /\ saved' = saved
    BY <1>9 DEF DecisionLost, DecisionAccepted, DecisionRefused
  <2>2. clock.status # "PAUSED"
    BY <2>1 DEF Frozen
  <2>3. clock'.status = clock.status
    BY <1>0, <1>9, DecisionKeepsStatus DEF DecisionLost, DecisionAccepted, DecisionRefused
  <2> QED
    BY <1>1, <2>1, <2>2, <2>3
<1>10. CASE Finish
  <2> DEFINE c == Reconcile(Settled, table, Open)
  <2>1. GoodClock(Settled) /\ Rested(Settled) /\ Resumable(Settled, table)
    <3>1. /\ GoodClock(Settled) /\ Rested(Settled) /\ Settled.status = clock.status
          /\ Charged(clock, Settled)
      BY <1>0, SettleKeeps, SettleCharges DEF Settled, IInv, RestTyped
    <3> QED
      BY <3>1, SameStaysResumable DEF Frozen
  <2>2. GoodClock(c) /\ Resumable(c, table)
    BY <1>0, <2>1, ReconcileSync, ReconcileResumable
  <2>3. SaveAndSchedule(c, table) /\ table' = table /\ job' = IdleJob
    BY <1>10 DEF Finish
  <2> HIDE DEF c
  <2>4. Resumable(clock', table) /\ Resumable(saved'.clock, saved'.table)
    BY <1>0, <2>2, <2>3, SaveResumable
  <2> QED
    BY <2>3, <2>4 DEF Frozen, IdleJob
<1>11. CASE ApplyPause
  <2>1. /\ job.pc = "apply" /\ job.who = "vote" /\ ~Open /\ UNCHANGED <<table, saved>>
        /\ job' = [IdleJob EXCEPT !.pc = "finish"]
        /\ clock' = IF clock.status = "RUNNING" THEN PauseClock(clock) ELSE clock
    BY <1>0, <1>11 DEF ApplyPause, HoldersFit, PlanningMsgs, Job
  <2>2. clock.status # "PAUSED"
    BY <2>1 DEF Frozen
  <2>3. CASE clock.status = "RUNNING"
    <3>1. Agrees(clock, table) /\ Paid(clock, table)
      BY <2>1, <2>3 DEF IInv, InSync, Sync
    <3>2. SamePools(clock, clock')
      BY <1>0, <2>1, <2>3, StopsKeepPools
    <3>3. Resumable(clock', table)
      BY <3>1, <3>2 DEF Resumable, Agrees, Paid, SamePools
    <3>4. job'.pc = "finish"
      BY <2>1 DEF IdleJob
    <3> QED
      BY <2>1, <3>3, <3>4 DEF Frozen
  <2>4. CASE clock.status # "RUNNING"
    BY <1>1, <2>1, <2>2, <2>4
  <2> QED
    BY <2>3, <2>4
<1>12. CASE ApplyPatch \/ RewindFailed
  <2>1. job.pc \in {"apply", "rewind"} /\ job.who = "vote" /\ UNCHANGED <<clock, saved>>
    BY <1>0, <1>12 DEF ApplyPatch, RewindFailed, HoldersFit, PlanningMsgs, Job
  <2> QED
    BY <1>1, <2>1 DEF Frozen
<1>13. CASE RewindDone
  <2>1. clock'.status = "UNTIMED" /\ saved' = saved
    BY <1>0, <1>13 DEF RewindDone, Clock
  <2> QED
    BY <1>1, <2>1
<1> QED
  BY <1>3, <1>4, <1>5, <1>6, <1>7, <1>8, <1>9, <1>10, <1>11, <1>12, <1>13
     DEF Proceed, Timeouts

\* Every step keeps a paused match resumable and its handlers harmless.
LEMMA NextFrozen ==
  ASSUME IInv, HoldersFit, Frozen, [Next]_vars
  PROVE  Frozen'
<1>0. /\ table \in GoodTables /\ GoodClock(clock) /\ clock \in Clock
      /\ Open \in BOOLEAN /\ Rested(clock)
      /\ GoodClock(Settled) /\ Rested(Settled) /\ Settled.status = clock.status
      /\ Charged(clock, Settled) /\ Resumable(Settled, table)
  <2>1. /\ table \in GoodTables /\ GoodClock(clock) /\ clock \in Clock
        /\ Open \in BOOLEAN /\ Rested(clock)
    BY DEF IInv, Open, GoodClock
  <2>2. /\ GoodClock(Settled) /\ Rested(Settled) /\ Settled.status = clock.status
        /\ Charged(clock, Settled)
    BY <2>1, SettleKeeps, SettleCharges DEF Settled, IInv, RestTyped
  <2> QED
    BY <2>1, <2>2, SameStaysResumable DEF Frozen
<1>1. ASSUME clock'.status # "PAUSED", saved' = saved
      PROVE  Frozen'
  BY <1>1 DEF Frozen, Resumable
<1>2. ASSUME Free, job' = job, Resumable(clock', table'), Resumable(saved'.clock, saved'.table)
      PROVE  Frozen'
  BY <1>2 DEF Frozen, Free
<1>3. CASE Client
  <2>1. clock' = Settled /\ saved' = saved /\ ~Held(clock)
    BY <1>3 DEF Client, ClientBegin
  <2> QED
    BY <1>0, <1>1, <2>1 DEF Held
<1>4. CASE Bot
  <2>1. /\ clock.status \in {"RUNNING", "UNTIMED"} /\ saved' = saved
        /\ \E h, msg, req : clock' = StopForDecision(clock, h, msg, req)
    BY <1>4 DEF Bot, BotDecide
  <2>2. clock'.status = clock.status
    BY <1>0, <2>1, DecisionKeepsStatus
  <2> QED
    BY <1>1, <2>1, <2>2
<1>5. CASE SetReadyRefused
  BY <1>1, <1>5 DEF SetReadyRefused, Held
<1>6. CASE \E h \in Heroes, ready \in BOOLEAN : SetReady(h, ready)
  <2>1. Resumable(clock', table) /\ Resumable(saved'.clock, saved'.table)
    BY <1>6, ReadyResumes DEF Frozen
  <2>2. Free /\ job' = job /\ table' = table
    BY <1>6 DEF SetReady
  <2> QED
    BY <1>2, <2>1, <2>2
<1>7. ASSUME NEW open \in BOOLEAN, clock' = Reconcile(Settled, table, open), Free,
             UNCHANGED <<table, job>>,
             saved' = saved
               \/ saved' = [table |-> table, clock |-> [clock' EXCEPT !.moved = FALSE]]
      PROVE  Frozen'
  <2>1. Resumable(clock', table) /\ GoodClock(clock')
    BY <1>0, <1>7, ReconcileResumable, ReconcileSync
  <2>2. CASE saved' = saved
    BY <1>2, <1>7, <2>1, <2>2 DEF Frozen
  <2>3. CASE saved' = [table |-> table, clock |-> [clock' EXCEPT !.moved = FALSE]]
    <3> DEFINE d == [clock' EXCEPT !.moved = FALSE]
    <3>1. SamePools(clock', d) /\ d.status = clock'.status
      BY <2>1 DEF GoodClock, Clock, SamePools
    <3>2. saved'.clock = d /\ saved'.table = table
      BY <2>3
    <3> HIDE DEF d
    <3>3. Resumable(d, table)
      BY <2>1, <3>1, SameStaysResumable
    <3> QED
      BY <1>2, <1>7, <2>1, <3>2, <3>3
  <2> QED
    BY <1>7, <2>2, <2>3
<1>8. CASE Proposals
  <2>1. ASSUME NEW f \in Families, Propose(f)
        PROVE  Frozen'
    BY <1>7, <2>1 DEF Propose
  <2>2. CASE ProposalDropped \/ PlayerRevealed
    BY <1>7, <2>2 DEF ProposalDropped, PlayerRevealed
  <2>3. CASE ProposalApproved
    <3>1. CASE Held(clock)
      BY <1>2, <2>3, <3>1 DEF ProposalApproved, Frozen
    <3>2. CASE ~Held(clock)
      BY <1>0, <1>1, <2>3, <3>2 DEF ProposalApproved, Held
    <3> QED
      BY <3>1, <3>2
  <2> QED
    BY <1>8, <2>1, <2>2, <2>3 DEF Proposals
<1>9. CASE DeadlineFire
  <2>1. clock' = Settled /\ table' = table /\ saved' = saved
    BY <1>9 DEF DeadlineFire
  <2>2. job'.who = "worker"
    BY <1>9 DEF DeadlineFire, IdleJob
  <2> QED
    BY <1>0, <2>1, <2>2 DEF Frozen
<1>10. ASSUME NEW file, GoodFile(file), Resumable(file.clock, file.table),
              RestartFrom(file)
       PROVE  Frozen'
  <2> DEFINE c == Reconcile(file.clock, file.table, FALSE)
  <2>1. GoodClock(c) /\ Resumable(c, file.table) /\ file.table \in GoodTables
    BY <1>10, ReconcileSync, ReconcileResumable DEF GoodFile
  <2>2. SaveAndSchedule(c, file.table) /\ table' = file.table /\ job' = IdleJob
    BY <1>10 DEF RestartFrom
  <2> HIDE DEF c
  <2>3. Resumable(clock', file.table) /\ Resumable(saved'.clock, saved'.table)
    BY <2>1, <2>2, SaveResumable
  <2> QED
    BY <2>2, <2>3 DEF Frozen, IdleJob
<1>11. CASE Crash
  BY <1>10, <1>11 DEF Crash, Frozen, IInv
<1>12. CASE Shutdown
  <2> DEFINE file == [table |-> table, clock |-> Settled]
  <2>1. GoodFile(file) /\ Resumable(file.clock, file.table)
    <3>1. table \in Table /\ Settled \in Clock
      BY <1>0 DEF GoodTables, GoodClock
    <3> QED
      BY <1>0, <3>1 DEF GoodFile
  <2>2. RestartFrom(file)
    BY <1>12 DEF Shutdown
  <2> HIDE DEF file
  <2> QED
    BY <1>10, <2>1, <2>2
<1>13. CASE DeadlineStale \/ Tick \/ UNCHANGED vars
  BY <1>13 DEF DeadlineStale, Tick, vars, Frozen
<1> QED
  BY <1>3, <1>4, <1>5, <1>6, <1>8, <1>9, <1>11, <1>12, <1>13, ProceedFrozen
     DEF Next, Ready

\* What a step may do to a paused match.
LEMMA PausedStep ==
  ASSUME IInv, HoldersFit, Frozen, [Next]_vars, crashes' = crashes, clock.status = "PAUSED"
  PROVE  /\ table' = table /\ clock'.pool = clock.pool
         /\ clock'.status # "PAUSED" =>
              /\ clock'.status = "RUNNING" /\ clock'.turn = clock.turn
              /\ Heroes \ clock.ready \subseteq clock'.ready
<1>0. /\ table \in GoodTables /\ GoodClock(clock) /\ job \in Job /\ crashes \in Nat
      /\ Open \in BOOLEAN /\ Settled = clock
      /\ job.pc \in {"idle", "finish"} \/ job.who = "worker"
  BY DEF IInv, RestTyped, GoodJobs, Open, Settled, Settle, Charging, Frozen
<1>11. ~ (Crash \/ Shutdown)
  <2>1. crashes' # crashes + 1
    BY <1>0
  <2> QED
    BY <2>1, Zenon DEF Crash, Shutdown, RestartFrom
<1>1. ASSUME table' = table, SamePools(clock, clock'), clock'.status = "PAUSED"
      PROVE  /\ table' = table /\ clock'.pool = clock.pool
             /\ clock'.status # "PAUSED" =>
                  /\ clock'.status = "RUNNING" /\ clock'.turn = clock.turn
                  /\ Heroes \ clock.ready \subseteq clock'.ready
  BY <1>1 DEF SamePools
<1>2. ASSUME table' = table, clock' = clock
      PROVE  table' = table /\ SamePools(clock, clock') /\ clock'.status = "PAUSED"
  BY <1>2 DEF SamePools
<1>3. ASSUME table' = table, NEW open \in BOOLEAN,
             clock' = Reconcile(clock, table, open)
               \/ SaveAndSchedule(Reconcile(clock, table, open), table)
      PROVE  SamePools(clock, clock') /\ clock'.status = "PAUSED"
  <2> DEFINE c == Reconcile(clock, table, open)
  <2>1. SamePools(clock, c) /\ c.status = "PAUSED" /\ GoodClock(c)
    BY <1>0, ReconcileGrants, ReconcileSync DEF Reconciled, IInv
  <2>2. clock' = c \/ SaveAndSchedule(c, table)
    BY <1>3
  <2> HIDE DEF c
  <2>3. CASE SaveAndSchedule(c, table)
    <3>1. SamePools(c, clock') /\ clock'.status = c.status
      BY <2>1, <2>3, SaveKeepsPools
    <3> QED
      BY <2>1, <3>1 DEF SamePools
  <2> QED
    BY <2>1, <2>2, <2>3
<1>4. CASE \E h \in Heroes, ready \in BOOLEAN : SetReady(h, ready)
  <2>1. /\ SamePools(clock, clock')
        /\ clock'.status # "PAUSED" => clock'.status = "RUNNING" /\ clock'.ready = Heroes
    BY <1>4, ReadyResumes DEF Frozen
  <2>2. table' = table
    BY <1>4 DEF SetReady
  <2> QED
    BY <2>1, <2>2 DEF SamePools
<1>5. CASE Client \/ Bot \/ SetReadyRefused
  BY <1>5 DEF Client, ClientBegin, Bot, BotDecide, SetReadyRefused, Held
<1>6. CASE Proposals
  <2>1. ProposalApproved => table' = table /\ clock' = clock
    BY DEF ProposalApproved, Held
  <2>2. ~ProposalApproved => /\ table' = table
                             /\ \E open \in BOOLEAN : clock' = Reconcile(clock, table, open)
    BY <1>0, <1>6 DEF Proposals, Propose, ProposalDropped, PlayerRevealed
  <2> QED
    BY <1>1, <1>2, <1>3, <2>1, <2>2
<1>7. CASE job.pc = "finish"
  <2>1. CASE Finish
    BY <1>0, <1>1, <1>3, <2>1 DEF Finish
  <2> QED
    BY <1>1, <1>2, <1>7, <1>11, <2>1, OnlyFinish
<1>8. CASE DeadlineDone
  <2>1. SamePools(clock, clock') /\ clock'.status = "PAUSED" /\ table' = table
    BY <1>0, <1>8, SaveKeepsPools DEF DeadlineDone
  <2> QED
    BY <1>1, <2>1
<1>9. CASE NothingDue \/ DeadlineStale \/ DeadlineFire \/ Tick \/ UNCHANGED vars
  BY <1>0, <1>1, <1>2, <1>9 DEF NothingDue, DeadlineStale, DeadlineFire, Tick, vars
<1>10. ASSUME Proceed, job.pc # "finish", ~DeadlineDone, ~NothingDue
       PROVE  FALSE
  <2>1. job.pc \notin {"idle", "apply", "rewind"} \/ job.pc = "idle"
    BY <1>0 DEF HoldersFit
  <2>2. ~MustTimeOut
    BY DEF MustTimeOut
  <2>3. ~ (Prepared \/ DecisionLost \/ DecisionAccepted \/ DecisionRefused \/ Finish
             \/ ApplyPause \/ ApplyPatch \/ RewindDone \/ RewindFailed)
    BY <1>0, <1>10, <2>1 DEF Prepared, DecisionLost, DecisionAccepted, DecisionRefused,
         Finish, ApplyPause, ApplyPatch, RewindDone, RewindFailed, HoldersFit
  <2> QED
    BY <1>10, <2>2, <2>3 DEF Proceed, Timeouts, PlanningTimeout, LevelUpTimeout,
                             InputTimeout, TeamPartlyDry
<1> QED
  BY <1>4, <1>5, <1>6, <1>7, <1>8, <1>9, <1>10, <1>11 DEF Next, Ready

\* The file of a paused match holds the clock it paused with.
OnDisk == clock.status = "PAUSED" /\ job.pc # "finish" =>
            saved.clock.status = "PAUSED" /\ saved.clock.pool = clock.pool

LEMMA InitOnDisk == Init => OnDisk
  BY DEF Init, OnDisk, NewClock

\* Only an approved pause, whose finalize has yet to save, pauses a match.
LEMMA OnlyPause ==
  ASSUME IInv, Frozen, [Next]_vars, clock.status # "PAUSED", job'.pc # "finish",
         ~ProposalDropped, \A c, t : ~SaveAndSchedule(c, t)
  PROVE  clock'.status # "PAUSED"
<1>0. /\ table \in GoodTables /\ GoodClock(clock) /\ Open \in BOOLEAN
      /\ GoodClock(Settled) /\ Settled.status # "PAUSED"
  BY SettleKeeps DEF Settled, IInv, RestTyped, Open
<1>1. CASE clock' \in {clock, Settled}
  BY <1>0, <1>1
<1>2. ASSUME NEW c, GoodClock(c), c.status # "PAUSED", NEW t \in GoodTables,
             NEW open \in BOOLEAN, clock' = Reconcile(c, t, open)
      PROVE  clock'.status # "PAUSED"
  BY <1>2, ReconcileResumable DEF Resumable
<1>3. CASE Client \/ DeadlineFire \/ DeadlineStale \/ Tick \/ UNCHANGED vars
  BY <1>1, <1>3 DEF Client, ClientBegin, DeadlineFire, DeadlineStale, Tick, vars
<1>4. ~ (Bot \/ Ready \/ Crash \/ Shutdown)
  BY DEF Bot, BotDecide, Ready, SetReady, SetReadyRefused, Crash, Shutdown, RestartFrom, IdleJob
<1>5. CASE Proposals
  BY <1>0, <1>1, <1>2, <1>5
     DEF Proposals, Propose, PlayerRevealed, ProposalApproved
<1>6. CASE Timeouts
  <2>1. ASSUME NEW h \in Heroes, PlanningTimeout(h)
        PROVE  clock'.status # "PAUSED"
    <3> DEFINE c == [clock EXCEPT !.locked = @ \cup {h}]
    <3>1. GoodClock(c) /\ c.status # "PAUSED"
      BY <1>0 DEF GoodClock, Clock
    <3>2. TimeoutPlanning(h) \subseteq GoodTables
      BY <1>0, PlanGood DEF TimeoutPlanning, Plans
    <3>3. \E t \in TimeoutPlanning(h) : clock' = Reconcile(c, t, Open)
      BY <2>1 DEF PlanningTimeout, AfterTimeout
    <3> HIDE DEF c
    <3> QED
      BY <1>0, <1>2, <3>1, <3>2, <3>3
  <2>2. ASSUME NEW h \in Heroes, LevelUpTimeout(h)
        PROVE  clock'.status # "PAUSED"
    BY <1>0, <1>2, <2>2, TakeUpgradeGood DEF LevelUpTimeout, AfterTimeout
  <2>3. CASE InputTimeout
    BY <1>0, <1>2, <2>3, FinalGood, EngineNextGood DEF InputTimeout, AfterTimeout
  <2>4. CASE TeamPartlyDry \/ NothingDue
    BY <1>0, <1>1, <1>2, <2>4 DEF TeamPartlyDry, NothingDue
  <2> QED
    BY <1>6, <2>1, <2>2, <2>3, <2>4 DEF Timeouts
<1>7. CASE Prepared
  BY <1>0, <1>2, <1>7 DEF Prepared
<1>8. CASE DecisionLost
  BY <1>1, <1>8 DEF DecisionLost
<1>9. ~ (DecisionAccepted \/ DecisionRefused \/ DeadlineDone \/ Finish
          \/ ApplyPause \/ ApplyPatch \/ RewindDone \/ RewindFailed)
  BY DEF DecisionAccepted, DecisionRefused, DeadlineDone, Finish, ApplyPause, ApplyPatch,
         RewindDone, RewindFailed, IdleJob
<1> QED
  BY <1>3, <1>4, <1>5, <1>6, <1>7, <1>8, <1>9 DEF Next, Proceed

\* Every step keeps the file of a paused match as it should be.
LEMMA NextOnDisk ==
  ASSUME IInv, HoldersFit, Frozen, OnDisk, [Next]_vars
  PROVE  OnDisk'
<1>1. CASE job'.pc = "finish" \/ clock'.status # "PAUSED"
  BY <1>1 DEF OnDisk
<1>2. CASE /\ saved'.clock.status = clock'.status
           /\ saved'.clock.pool = clock'.pool
  BY <1>2 DEF OnDisk
<1>3. CASE \E c, t : SaveAndSchedule(c, t)
  <2>1. saved'.clock = clock'
    BY <1>3 DEF SaveAndSchedule
  <2> QED
    BY <1>2, <2>1
<1>4. CASE ProposalDropped
  <2>1. clock' = Reconcile(Settled, table, FALSE)
    BY <1>4 DEF ProposalDropped
  <2>2. GoodClock(Settled) /\ Rested(Settled) /\ table \in GoodTables
    BY SettleKeeps DEF Settled, IInv, RestTyped
  <2>3. clock' \in Clock
    BY <2>1, <2>2, ReconcileSync DEF GoodClock
  <2>4. saved'.clock = [clock' EXCEPT !.moved = FALSE]
    BY <1>4 DEF ProposalDropped
  <2> QED
    BY <1>2, <2>3, <2>4 DEF Clock
<1>5. ASSUME ~ProposalDropped, \A c, t : ~SaveAndSchedule(c, t),
             job'.pc # "finish", clock'.status = "PAUSED"
      PROVE  OnDisk'
  <2>1. clock.status = "PAUSED"
    BY <1>5, OnlyPause
  <2>2. ~ (Crash \/ Shutdown \/ Finish)
    BY <1>5 DEF Crash, Shutdown, RestartFrom, Finish
  <2>3. job.pc # "finish"
    BY <1>5, <2>2, OnlyFinish
  <2>4. saved' = saved /\ crashes' = crashes
    BY <1>5, <2>2
       DEF Next, Client, ClientBegin, Bot, BotDecide, Ready, SetReady, SetReadyRefused,
           Proposals, Propose, PlayerRevealed, ProposalApproved, Proceed, Timeouts,
           PlanningTimeout, LevelUpTimeout, InputTimeout, AfterTimeout, TeamPartlyDry,
           NothingDue, Prepared, DecisionLost, DecisionAccepted, DecisionRefused,
           DeadlineDone, ApplyPause, ApplyPatch, RewindDone, RewindFailed,
           DeadlineStale, DeadlineFire, Tick, vars
  <2>5. clock'.pool = clock.pool
    BY <2>1, <2>4, PausedStep
  <2> QED
    BY <2>1, <2>3, <2>4, <2>5 DEF OnDisk
<1> QED
  BY <1>1, <1>3, <1>4, <1>5

\* A restart between two handlers finds the match paused as it was.
LEMMA PausedRestart ==
  ASSUME IInv, Frozen, SavedFits, OnDisk, Free, clock.status = "PAUSED",
         Crash \/ Shutdown
  PROVE  table' = table /\ clock'.pool = clock.pool /\ clock'.status = "PAUSED"
<1>1. ASSUME NEW file, GoodFile(file), file.table = table, file.clock.status = "PAUSED",
             file.clock.pool = clock.pool, RestartFrom(file)
      PROVE  table' = table /\ clock'.pool = clock.pool /\ clock'.status = "PAUSED"
  <2> DEFINE c == Reconcile(file.clock, file.table, FALSE)
  <2>1. SamePools(file.clock, c) /\ c.status = "PAUSED" /\ GoodClock(c)
    BY <1>1, ReconcileGrants, ReconcileSync DEF Reconciled, GoodFile
  <2>2. SaveAndSchedule(c, file.table) /\ table' = file.table
    BY <1>1 DEF RestartFrom
  <2> HIDE DEF c
  <2>3. SamePools(c, clock') /\ clock'.status = c.status
    BY <2>1, <2>2, SaveKeepsPools
  <2> QED
    BY <1>1, <2>1, <2>2, <2>3 DEF SamePools
<1>2. CASE Crash
  BY <1>1, <1>2 DEF Crash, SavedFits, OnDisk, Free, IInv
<1>3. CASE Shutdown
  <2> DEFINE file == [table |-> table, clock |-> Settled]
  <2>1. Settled = clock
    BY DEF Settled, Settle, Charging
  <2>2. GoodFile(file) /\ file.table = table /\ file.clock = clock
    <3>1. table \in GoodTables /\ table \in Table /\ GoodClock(clock) /\ clock \in Clock
          /\ Rested(clock)
      BY DEF IInv, GoodTables, GoodClock
    <3> QED
      BY <2>1, <3>1 DEF GoodFile
  <2>3. RestartFrom(file)
    BY <1>3 DEF Shutdown
  <2> HIDE DEF file
  <2> QED
    BY <1>1, <2>2, <2>3
<1> QED
  BY <1>2, <1>3

\* Whatever the players, the bots and the deadline workers try, a paused match is
\* frozen until the last hero is ready, and goes on with the pools it stopped
\* with (pause_clock, set_player_ready, reconcile_game_clock); a restart between
\* two handlers finds it paused, with the same table and the same pools.
THEOREM PauseCorrect == Spec => PauseHolds
<1>1. IInv /\ HoldersFit /\ Frozen /\ [Next]_vars => Frozen'
  BY NextFrozen
<1>2. IInv /\ SavedFits /\ [Next]_vars => SavedFits'
  BY NextSaved
<1>3. IInv /\ HoldersFit /\ Frozen /\ OnDisk /\ [Next]_vars => OnDisk'
  BY NextOnDisk
<1>4. IInv /\ HoldersFit /\ Frozen /\ SavedFits /\ OnDisk /\ [Next]_vars =>
        [(crashes' = crashes \/ Free) /\ clock.status = "PAUSED" =>
          /\ table' = table /\ clock'.pool = clock.pool
          /\ clock'.status # "PAUSED" =>
               /\ clock'.status = "RUNNING" /\ clock'.turn = clock.turn
               /\ Heroes \ clock.ready \subseteq clock'.ready]_vars
  BY PausedStep, PausedRestart, FreeRestarts
<1> QED
  BY <1>1, <1>2, <1>3, <1>4, InitFrozen, InitSaved, InitOnDisk, LockHolders, Invariance, PTL
     DEF Spec, PauseHolds

-----------------------------------------------------------------------------
(* The elapsed time.  A bot's decision stops the clocks at the last settlement,
   so the time since then is charged to nobody: what follows is about a match
   between humans. *)

\* A settlement charges a running target the elapsed time, and nothing else.
LEMMA SettlePays ==
  ASSUME NEW c, GoodClock(c), Charging(c), NEW h \in c.active, NEW e \in Nat
  PROVE  /\ Settle(c, e).pool[h] = Spend(c.pool[h], c.kind, e)
         /\ Settle(c, e).turn = c.turn /\ Settle(c, e).active = c.active
         /\ Marks(Settle(c, e)) = Marks(c)
<1> DEFINE f == [g \in Heroes |-> IF g \in c.active THEN Spend(c.pool[g], c.kind, e)
                                  ELSE c.pool[g]]
<1>1. c \in Clock /\ h \in Heroes
  BY DEF GoodClock, Clock
<1>2. f[h] = Spend(c.pool[h], c.kind, e)
  BY <1>1
<1>3. Settle(c, e) = [c EXCEPT !.pool = f]
  BY DEF Settle
<1> HIDE DEF f
<1> QED
  BY <1>1, <1>2, <1>3 DEF Clock, Marks

\* The time since the last settlement is charged, or a mark has moved.
Spent(h) == \/ clock'.pool[h] = Spend(clock.pool[h], clock.kind, lag)
            \/ clock'.turn # clock.turn \/ Marks(clock') # Marks(clock)

\* A step that ends the time since the last settlement, or stops a target, has
\* charged the target for it.
LEMMA SpentStep ==
  ASSUME IInv, HoldersFit, Bots = {}, [Next]_vars, crashes' = crashes, Charging(clock),
         NEW h \in clock.active, lag > 0, lag' = 0 \/ h \notin clock'.active
  PROVE  Spent(h)
<1>0. /\ table \in GoodTables /\ GoodClock(clock) /\ Rested(clock) /\ lag \in Nat
      /\ crashes \in Nat /\ Open \in BOOLEAN /\ ~Held(clock)
      /\ job.pc \notin {"due", "prepared", "apply"}
  BY DEF IInv, RestTyped, HoldersFit, Charging, Held, Open
<1>1. /\ GoodClock(Settled) /\ Rested(Settled)
      /\ Settled.pool[h] = Spend(clock.pool[h], clock.kind, lag)
      /\ Settled.turn = clock.turn /\ Settled.active = clock.active
      /\ Marks(Settled) = Marks(clock)
  BY <1>0, SettleKeeps, SettlePays DEF Settled
<1>2. ASSUME clock' = Settled PROVE Spent(h)
  BY <1>1, <1>2 DEF Spent
<1>3. ASSUME NEW open \in BOOLEAN,
             \/ clock' = Reconcile(Settled, table, open)
             \/ SaveAndSchedule(Reconcile(Settled, table, open), table)
      PROVE  Spent(h)
  <2> DEFINE c == Reconcile(Settled, table, open)
  <2>1. GoodClock(c) /\ Reconciled(Settled, table, c)
    BY <1>0, <1>1, ReconcileSync, ReconcileGrants
  <2>2. clock' = c \/ SaveAndSchedule(c, table)
    BY <1>3
  <2> HIDE DEF c
  <2>3. SamePools(c, clock')
    BY <2>1, <2>2, SaveKeepsPools DEF SamePools
  <2>4. c.turn # Settled.turn \/ SamePools(Settled, c) \/ Marks(c) # Marks(Settled)
    BY <2>1 DEF Reconciled
  <2> QED
    BY <1>1, <2>3, <2>4 DEF Spent, SamePools, Marks
<1>4. ASSUME clock' = clock, lag' = lag \/ lag' = lag + 1 PROVE FALSE
  BY <1>0, <1>4
<1>5. CASE Client \/ DeadlineFire
  BY <1>2, <1>5 DEF Client, ClientBegin, DeadlineFire
<1>6. CASE Ready \/ DeadlineStale \/ Tick \/ UNCHANGED vars
  BY <1>0, <1>4, <1>6 DEF Ready, SetReady, SetReadyRefused, DeadlineStale, Tick, vars
<1>7. CASE Proposals
  BY <1>0, <1>2, <1>3, <1>4, <1>7 DEF Proposals, Propose, ProposalDropped,
                                      PlayerRevealed, ProposalApproved
<1>8. CASE job.pc = "finish"
  <2>1. CASE Finish
    BY <1>0, <1>3, <2>1 DEF Finish
  <2>2. CASE Crash
    <3>1. crashes' # crashes + 1
      BY <1>0
    <3> QED
      BY <2>2, <3>1, Zenon DEF Crash, RestartFrom
  <2>3. CASE UNCHANGED <<table, clock, job>>
    BY <1>5, <1>6, <1>7, <1>8, <2>1, <2>2, <2>3
       DEF Next, Proceed, Timeouts, PlanningTimeout, LevelUpTimeout, InputTimeout,
           TeamPartlyDry, NothingDue, Prepared, DecisionLost, DecisionAccepted,
           DecisionRefused, DeadlineDone, ApplyPause, ApplyPatch, RewindDone,
           RewindFailed, Bot, BotDecide, Shutdown, Free
  <2> QED
    BY <1>8, <2>1, <2>2, <2>3, OnlyFinish
<1>9. CASE Proceed /\ job.pc # "finish"
  <2>1. RewindDone \/ RewindFailed
    BY <1>0, <1>9 DEF Proceed, Timeouts, PlanningTimeout, LevelUpTimeout, InputTimeout,
             TeamPartlyDry, NothingDue, Prepared, DecisionLost, DecisionAccepted,
             DecisionRefused, DeadlineDone, Finish, ApplyPause, ApplyPatch
  <2>2. clock'.active = clock.active /\ lag' = lag
    BY <1>0, <2>1 DEF RewindDone, RewindFailed, GoodClock, Clock
  <2> QED
    BY <1>0, <2>2
<1>10. ~Bot
  BY DEF Bot
<1>11. ~ (Crash \/ Shutdown)
  <2>1. crashes' # crashes + 1
    BY <1>0
  <2> QED
    BY <2>1, Zenon DEF Crash, Shutdown, RestartFrom
<1> QED
  BY <1>5, <1>6, <1>7, <1>8, <1>9, <1>10, <1>11 DEF Next

\* In a match without bots the time a target ran is charged to it before the
\* target is stopped or the anchor moves (settle_clock, called first by every
\* handler that touches the clock).
THEOREM ElapsedCorrect == ASSUME Bots = {} PROVE Spec => ElapsedIsCharged
<1>1. ASSUME IInv, HoldersFit, [Next]_vars, crashes' = crashes, Charging(clock),
             NEW h \in clock.active, lag > 0, lag' = 0 \/ h \notin clock'.active,
             NEW k \in {clock.kind}
      PROVE  \/ clock'.pool[h] = Spend(clock.pool[h], k, lag)
             \/ <<clock'.turn, clock'.levelUp, clock'.credited, clock'.bonus>>
                  # <<clock.turn, clock.levelUp, clock.credited, clock.bonus>>
  BY <1>1, SpentStep DEF Spent, Marks
<1>2. IInv /\ HoldersFit /\ [Next]_vars =>
        [crashes' = crashes /\ Charging(clock) =>
          \A h \in clock.active :
            lag > 0 /\ (lag' = 0 \/ h \notin clock'.active) =>
              \A k \in {clock.kind} :
                \/ clock'.pool[h] = Spend(clock.pool[h], k, lag)
                \/ <<clock'.turn, clock'.levelUp, clock'.credited, clock'.bonus>>
                     # <<clock.turn, clock.levelUp, clock.credited, clock.bonus>>]_vars
  BY <1>1
<1> QED
  BY <1>2, LockHolders, Invariance, PTL DEF Spec, ElapsedIsCharged
-----------------------------------------------------------------------------
(* The deadline.  A proposal that is dropped, and one that reveals a player,
   set the targets running without scheduling a deadline: what follows is about
   a match in which nobody proposes an override. *)

\* A clock c that needs a deadline has the one its players' pools give it, l
\* ticks after the settlement, and its revision is the one the deadline knows.
Armed(c, l, deadline) ==
    NeedsDeadline(c) =>
      deadline = [on |-> TRUE, left |-> Left(Delay(c), l)] /\ ~c.moved

\* A websocket that learns its decision was lost leaves the clock as it is, so
\* the timeout that took the decision must have scheduled already.
Watched == /\ proposal = "none"
           /\ Free => Armed(clock, lag, timer)
           /\ job.pc = "apply" /\ job.lost => Armed(clock, lag, timer)

LEMMA InitWatched == Init => Watched
  BY DEF Init, Watched, Armed, NeedsDeadline, Charging, NewClock

\* Saving arms the deadline of the clock it saves.
LEMMA SaveArms ==
  ASSUME NEW c, NEW t, SaveAndSchedule(c, t), GoodClock(clock'), lag' = 0
  PROVE  Armed(clock', lag', timer')
<1>1. clock' = [c EXCEPT !.moved = FALSE] /\ timer' = Deadline(clock')
  BY DEF SaveAndSchedule
<1>2. clock' \in Clock
  BY DEF GoodClock
<1>3. clock'.moved = FALSE
  BY <1>1, <1>2 DEF Clock
<1>4. ASSUME NeedsDeadline(clock')
      PROVE  timer' = [on |-> TRUE, left |-> Left(Delay(clock'), lag')]
  <2>1. timer' = [on |-> TRUE, left |-> Delay(clock')]
    BY <1>1, <1>4 DEF Deadline
  <2>2. Delay(clock') \in Nat
    BY <1>2, <1>4, DelayIsLeast DEF NeedsDeadline
  <2>3. Left(Delay(clock'), 0) = Delay(clock')
    BY <2>2 DEF Left
  <2> QED
    BY <2>1, <2>3
<1> QED
  BY <1>3, <1>4 DEF Armed

\* While time passes, the sleep of the deadline gets shorter by it.
LEMMA TickKeepsArmed ==
  ASSUME IInv, Tick, Armed(clock, lag, timer)
  PROVE  Armed(clock', lag', timer')
<1>1. clock' = clock /\ timer' = [timer EXCEPT !.left = IF @ > 0 THEN @ - 1 ELSE 0]
  BY DEF Tick
<1>2. SUFFICES ASSUME NeedsDeadline(clock)
               PROVE  timer' = [on |-> TRUE, left |-> Left(Delay(clock), lag')]
  BY <1>1 DEF Armed
<1>3. timer = [on |-> TRUE, left |-> Left(Delay(clock), lag)]
  BY <1>2 DEF Armed
<1>4. Delay(clock) \in Nat /\ lag \in Nat
  BY <1>2, DelayIsLeast DEF IInv, RestTyped, GoodClock, NeedsDeadline
<1>5. lag' = lag + 1
  BY <1>2 DEF Tick, NeedsDeadline
<1>6. Left(Delay(clock), lag + 1) = IF Left(Delay(clock), lag) > 0
                                    THEN Left(Delay(clock), lag) - 1 ELSE 0
  BY <1>4 DEF Left
<1> QED
  BY <1>1, <1>3, <1>5, <1>6

\* Every step of a match without proposals keeps the clock watched.
LEMMA NextWatched ==
  ASSUME IInv, HoldersFit, Watched, Families = {}, [Next]_vars
  PROVE  Watched'
<1>0. IInv' /\ GoodClock(clock')
  BY NextIInv DEF IInv
<1>1. ~Proposals
  BY DEF Proposals, Propose, ProposalDropped, PlayerRevealed, ProposalApproved, Open, Watched
<1>2. proposal' = "none"
  BY <1>1 DEF Watched, Next, Client, ClientBegin, Bot, BotDecide, Ready, SetReady,
       SetReadyRefused, Proceed, Timeouts, PlanningTimeout, LevelUpTimeout, AfterTimeout,
       InputTimeout, TeamPartlyDry, NothingDue, Prepared, DecisionLost, DecisionAccepted,
       DecisionRefused, DeadlineDone, Finish, ApplyPause, ApplyPatch, RewindDone,
       RewindFailed, DeadlineStale, DeadlineFire, Crash, Shutdown, RestartFrom, Tick, vars
<1>3. ASSUME job'.pc \notin {"idle", "apply"} PROVE Watched'
  BY <1>2, <1>3 DEF Watched, Free
<1>4. ASSUME NEW c, NEW t, SaveAndSchedule(c, t), lag' = 0 PROVE Watched'
  BY <1>0, <1>2, <1>4, SaveArms DEF Watched
<1>5. CASE Client
  <2>1. job'.pc = "due"
    BY <1>5 DEF Client, ClientBegin, IdleJob
  <2> QED
    BY <1>3, <2>1
<1>6. CASE Bot \/ SetReadyRefused
  <2>1. job'.pc = "finish"
    BY <1>6 DEF Bot, BotDecide, SetReadyRefused, IdleJob
  <2> QED
    BY <1>3, <2>1
<1>7. CASE \E h, ready : SetReady(h, ready)
  BY <1>4, <1>7 DEF SetReady
<1>8. CASE Crash \/ Shutdown
  BY <1>4, <1>8 DEF Crash, Shutdown, RestartFrom
<1>9. CASE DeadlineFire
  <2>1. job'.pc = "due"
    BY <1>9 DEF DeadlineFire, IdleJob
  <2> QED
    BY <1>3, <2>1
<1>10. CASE DeadlineStale
  <2>1. ~NeedsDeadline(clock)
    BY <1>10 DEF DeadlineStale, Watched, Armed, NeedsDeadline, Charging
  <2> QED
    BY <1>2, <1>10, <2>1 DEF DeadlineStale, Watched, Armed
<1>11. CASE Tick
  <2>1. job' = job /\ job.pc # "apply"
    BY <1>11 DEF Tick
  <2> QED
    BY <1>2, <1>11, <2>1, TickKeepsArmed DEF Watched, Free
<1>12. CASE Timeouts
  <2>1. job'.pc \in {"due", "prepared"}
    BY <1>12 DEF Timeouts, PlanningTimeout, LevelUpTimeout, AfterTimeout, InputTimeout,
                 TeamPartlyDry, NothingDue, IInv, RestTyped, GoodJobs, Job
  <2> QED
    BY <1>3, <2>1
<1>13. CASE Prepared
  <2>1. lag' = 0 /\ job'.pc # "idle" /\ job'.lost = job.lost
    BY <1>13 DEF Prepared, HoldersFit, IInv, RestTyped, GoodJobs, Job
  <2>2. CASE job.timed
    BY <1>4, <1>13, <2>1, <2>2 DEF Prepared
  <2>3. CASE ~job.timed
    BY <1>2, <2>1, <2>3 DEF Watched, Free, HoldersFit
  <2> QED
    BY <2>2, <2>3
<1>14. CASE DecisionLost
  <2>1. UNCHANGED <<clock, lag, timer>> /\ Armed(clock, lag, timer)
    BY <1>14 DEF DecisionLost, Watched
  <2> QED
    BY <1>2, <2>1 DEF Watched
<1>15. CASE \/ DecisionAccepted \/ DecisionRefused
            \/ ApplyPause \/ ApplyPatch \/ RewindDone \/ RewindFailed
  <2>1. job'.pc = "finish"
    BY <1>15 DEF DecisionAccepted, DecisionRefused, ApplyPause, ApplyPatch, RewindDone,
                 RewindFailed, IdleJob, IInv, RestTyped, GoodJobs, Job
  <2> QED
    BY <1>3, <2>1
<1>16. CASE DeadlineDone
  <2>1. lag' = 0
    BY <1>16 DEF DeadlineDone, HoldersFit
  <2> QED
    BY <1>4, <1>16, <2>1 DEF DeadlineDone
<1>17. CASE Finish
  BY <1>4, <1>17 DEF Finish
<1>18. CASE UNCHANGED vars
  BY <1>18 DEF vars, Watched, Armed, Free
<1> QED
  BY <1>1, <1>5, <1>6, <1>7, <1>8, <1>9, <1>10, <1>11, <1>12, <1>13, <1>14, <1>15, <1>16,
     <1>17, <1>18 DEF Next, Proceed, Ready

\* In a match in which nobody proposes an override a running target is always
\* watched by a deadline task that knows the clock's revision and wakes when the
\* first target runs dry (schedule_deadline, called by every handler that leaves
\* a target running).
THEOREM DeadlineCorrect == ASSUME Families = {} PROVE Spec => []DeadlineArmed
<1>1. IInv /\ HoldersFit /\ Watched /\ [Next]_vars => Watched'
  BY NextWatched
<1>2. Watched => DeadlineArmed
  BY DEF Watched, DeadlineArmed, Armed
<1> QED
  BY <1>1, <1>2, InitWatched, LockHolders, Invariance, PTL DEF Spec
-----------------------------------------------------------------------------
(* Suspension.  A decision that is accepted while a proposal is open counts for
   the turn the stopped clock still shows: what follows is about a match in
   which nobody proposes an override, on a server that did not crash. *)

\* Turns are never taken back: not by the engine, and not by a decision.
LEMMA TurnsRise ==
  ASSUME NEW t \in GoodTables, NEW h \in Heroes
  PROVE  /\ \A u \in EngineNext(t) : u.turn >= t.turn
         /\ \A plan \in Plans : \A u \in Plan(t, h, plan) : u.turn >= t.turn
         /\ \A u \in TakeAllUpgrades(t, h) : u.turn >= t.turn
         /\ \A locked, msg, req : \A u \in Decide(t, locked, h, msg, req) : u.turn >= t.turn
<1>0. t \in Table /\ t.turn \in Nat
  BY TableParts
<1>1. ASSUME NEW s \in Table, NEW u \in Prompts(s) \cup Ends(s) PROVE u.turn = s.turn
  <2>1. CASE u \in Ends(s)
    BY <2>1 DEF Ends, Table
  <2>2. CASE u \in Prompts(s)
    <3>1. PICK p \in NewRequests(s) : \E a \in Anchors(s, p) : u = Ask(s, p, a)
      BY <2>2 DEF Prompts
    <3> QED
      BY <3>1 DEF Ask, Table
  <2> QED
    BY <1>1, <2>1, <2>2
<1>2. ASSUME NEW s \in Table, NEW U, NEW u \in Upgrades(s, U) PROVE u.turn = s.turn
  BY <1>2 DEF Upgrades, Table
<1>3. ASSUME NEW s \in Table, NEW u \in NewTurns(s) PROVE u.turn >= s.turn
  <2>1. PICK n \in s.turn + 1 .. MaxTurn, E \in SUBSET Heroes : u = NewTurn(s, n, E)
    BY <1>3 DEF NewTurns
  <2>2. u.turn = n /\ s.turn \in Nat
    BY <2>1 DEF NewTurn, Table
  <2> QED
    BY <2>1, <2>2, MatchAssumption
<1>4. ASSUME NEW s \in Table, NEW u \in EngineNext(s) PROVE u.turn >= s.turn
  <2>1. s.turn \in Nat
    BY DEF Table
  <2> QED
    BY <1>1, <1>2, <1>3, <1>4, <2>1 DEF EngineNext
<1>5. ASSUME NEW plan \in Plans, NEW u \in Plan(t, h, plan) PROVE u.turn >= t.turn
  <2> DEFINE s == [t EXCEPT !.plan[h] = plan]
  <2>1. s \in Table /\ s.turn = t.turn
    BY <1>0 DEF Table
  <2>2. u = s \/ u \in EngineNext(s)
    BY <1>5 DEF Plan
  <2> HIDE DEF s
  <2> QED
    BY <1>0, <1>4, <2>1, <2>2
<1>6. ASSUME NEW u \in TakeAllUpgrades(t, h) \cup TakeUpgrade(t, h) PROVE u.turn >= t.turn
  BY <1>0, <1>1, <1>2, <1>3, <1>6 DEF TakeAllUpgrades, TakeUpgrade
<1>7. ASSUME NEW locked, NEW msg, NEW req, NEW u \in Decide(t, locked, h, msg, req)
      PROVE  u.turn >= t.turn
  <2> DEFINE later == {v \in GoodTables : v.turn >= t.turn}
             commit == {"one"} \cup (IF h \in TwoCard THEN {"open"} ELSE {})
             closed == IF t.plan[h] = "open" THEN "one" ELSE t.plan[h]
  <2>1. /\ \A p \in Plans : Plan(t, h, p) \subseteq later
        /\ EngineNext(t) \subseteq later /\ TakeUpgrade(t, h) \subseteq later
    BY <1>0, <1>4, <1>5, <1>6, PlanGood, EngineNextGood, TakeUpgradeGood
  <2>2. t \in later
    BY <1>0
  <2>3. [t EXCEPT !.plan[h] = IF @ = "two" THEN "open" ELSE "none"] \in later
    BY <1>0 DEF GoodTables, Table, Plans
  <2>4. \A v \in later : v.turn >= t.turn
    OBVIOUS
  <2>5. t.anchor # NoRequest => [t EXCEPT !.request = t.anchor] \in later
    BY <1>0 DEF GoodTables, Table
  <2> HIDE DEF later
  <2>6. t.plan[h] \in Plans /\ {"none", "open", "one", "two", "passed"} \subseteq Plans
    BY <1>0 DEF Table, Plans
  <2>7. UNION {Plan(t, h, p) : p \in commit} \subseteq later /\ Plan(t, h, closed) \subseteq later
    BY <2>1, <2>6
  <2>8. Decide(t, locked, h, msg, req) \subseteq later
    BY <2>1, <2>2, <2>3, <2>5, <2>6, <2>7 DEF Decide
  <2> QED
    BY <1>7, <2>4, <2>8
<1> QED
  BY <1>0, <1>4, <1>5, <1>6, <1>7

\* The counter of clock c never claims more silent turns than there were since
\* turn n, the last in which a human decided.
Counted(c, t, n) ==
    c.status # "UNTIMED" =>
      /\ n <= c.turn /\ c.turn <= t.turn
      /\ c.status = "SUSPENDED_FOR_INACTIVITY" => c.turn < t.turn
      /\ c.status # "SUSPENDED_FOR_INACTIVITY" /\ ~c.human => n + c.auto < c.turn

\* From c to d the count stays right, and a suspension is deserved.
Counts(c, d, t, n) ==
    /\ Counted(d, t, n)
    /\ c.status # "SUSPENDED_FOR_INACTIVITY" /\ d.status = "SUSPENDED_FOR_INACTIVITY" =>
         n + AutomaticTurnLimit < t.turn

\* Clocks that count alike count right for the same table, and for a later one.
LEMMA CountedAlike ==
  ASSUME NEW c, GoodClock(c), NEW d, SameCount(c, d), NEW t \in GoodTables,
         NEW u \in GoodTables, u.turn >= t.turn, NEW n \in Nat, Counted(c, t, n)
  PROVE  Counted(d, u, n) /\ Counts(c, d, u, n)
<1>1. c.turn \in Nat /\ c.auto \in Nat /\ t.turn \in Nat /\ u.turn \in Nat
  BY TableParts DEF GoodClock, Clock
<1> QED
  BY <1>1 DEF Counted, Counts, SameCount

\* Settling, saving, stopping for a decision and idling do not touch the count.
LEMMA KeepCount ==
  ASSUME NEW c, GoodClock(c)
  PROVE  /\ \A e : SameCount(c, Settle(c, e))
         /\ \A t : SaveAndSchedule(c, t) => SameCount(c, clock')
         /\ \A h, msg, req : SameCount(c, StopForDecision(c, h, msg, req))
         /\ SameCount(c, Idle(c))
<1>0. c \in Clock
  BY DEF GoodClock
<1>1. \A e : SameCount(c, Settle(c, e))
  BY <1>0 DEF SameCount, Settle, Clock
<1>2. \A t : SaveAndSchedule(c, t) => SameCount(c, clock')
  BY <1>0 DEF SameCount, SaveAndSchedule, Clock
<1>3. \A h, msg, req : SameCount(c, StopForDecision(c, h, msg, req))
  BY <1>0 DEF SameCount, StopForDecision, Activate, Clock
<1>4. SameCount(c, Idle(c))
  BY <1>0 DEF SameCount, Idle, Activate, Clock
<1> QED
  BY <1>1, <1>2, <1>3, <1>4

\* A new shared turn starts with a clean flag and the counter it is given.
LEMMA TurnCounts ==
  ASSUME NEW c, GoodClock(c), NEW turn \in Nat, c.turn # turn
  PROVE  /\ BeginSharedTurn(c, turn).turn = turn
         /\ BeginSharedTurn(c, turn).human = FALSE
         /\ BeginSharedTurn(c, turn).auto = c.auto
         /\ BeginSharedTurn(c, turn).status = c.status
  BY DEF GoodClock, Clock, BeginSharedTurn, Stop

\* Reconciling keeps the count right, and suspends no match whose players were
\* there.
LEMMA ReconcileCounts ==
  ASSUME NEW c, GoodClock(c), NEW t \in GoodTables, NEW open \in BOOLEAN, NEW n \in Nat,
         Counted(c, t, n)
  PROVE  Counts(c, Reconcile(c, t, open), t, n)
<1> DEFINE d == Reconcile(c, t, open)
           counted == [c EXCEPT !.auto = AutomaticTurns(c, t)]
           begun == BeginSharedTurn(counted, t.turn)
<1>0. /\ c.turn \in Nat /\ c.auto \in Nat /\ t.turn \in Nat /\ c.human \in BOOLEAN
      /\ c.status \in Statuses /\ c \in Clock /\ AutomaticTurnLimit \in Nat
  BY TableParts, ConfigAssumption DEF GoodClock, Clock
<1>1. CASE c.status # "RUNNING" \/ (t.phase # "GAME_OVER" /\ open)
  <2>1. d = c \/ d = Idle(c)
    BY <1>0, <1>1 DEF Reconcile, Held, Statuses
  <2>2. SameCount(c, c)
    BY DEF SameCount
  <2> HIDE DEF d
  <2>3. SameCount(c, d)
    BY <2>1, <2>2, KeepCount
  <2> QED
    BY <1>0, <2>3, CountedAlike DEF d
<1>2. CASE c.status = "RUNNING" /\ t.phase = "GAME_OVER"
  <2>1. d = FinishClock(c)
    BY <1>2 DEF Reconcile, Held
  <2>2. d.status = "FINISHED" /\ d.turn = c.turn /\ d.human = c.human /\ d.auto = c.auto
    BY <1>0, <2>1 DEF FinishClock, Stop, Clock
  <2> HIDE DEF d
  <2>3. Counts(c, d, t, n)
    BY <1>0, <1>2, <2>2 DEF Counted, Counts
  <2> QED
    BY <2>3 DEF d
<1>3. CASE c.status = "RUNNING" /\ t.phase # "GAME_OVER" /\ ~open
  <2>1. d = IF Abandoned(c, t) THEN SuspendClock(counted) ELSE SetTargets(begun, t)
    BY <1>3 DEF Reconcile, Held
  <2>2. AutomaticTurns(c, t) \in Nat
    BY <1>0 DEF AutomaticTurns
  <2>3. /\ GoodClock(counted) /\ counted.status = "RUNNING" /\ counted.turn = c.turn
        /\ counted.human = c.human /\ counted.auto = AutomaticTurns(c, t)
    BY <1>0, <1>3, <2>2 DEF GoodClock, Clock
  <2>4. /\ n <= c.turn /\ c.turn <= t.turn
        /\ ~c.human => n + c.auto < c.turn
    BY <1>3 DEF Counted
  <2>5. ASSUME c.turn # t.turn PROVE n + AutomaticTurns(c, t) < t.turn
    BY <1>0, <2>4, <2>5 DEF AutomaticTurns
  <2> HIDE DEF counted
  <2>6. CASE Abandoned(c, t)
    <3>1. d.status = "SUSPENDED_FOR_INACTIVITY" /\ d.turn = c.turn
      BY <2>1, <2>3, <2>6 DEF SuspendClock, Stop, GoodClock, Clock
    <3>2. c.turn # t.turn /\ AutomaticTurns(c, t) >= AutomaticTurnLimit
      BY <2>6 DEF Abandoned
    <3> HIDE DEF d
    <3>3. c.turn < t.turn /\ n + AutomaticTurnLimit < t.turn
      BY <1>0, <2>2, <2>4, <2>5, <3>2
    <3>4. Counts(c, d, t, n)
      BY <2>4, <3>1, <3>3 DEF Counted, Counts
    <3> QED
      BY <3>4 DEF d
  <2>7. CASE ~Abandoned(c, t)
    <3>1. GoodClock(begun) /\ begun.status = "RUNNING" /\ begun.turn = t.turn
      BY <1>0, <2>3, BeginSharedTurnGood
    <3>2. Counted(begun, t, n)
      <4>1. CASE c.turn # t.turn
        <5>1. begun.human = FALSE /\ begun.auto = AutomaticTurns(c, t)
          BY <1>0, <2>3, <4>1, TurnCounts
        <5> HIDE DEF begun
        <5> QED
          BY <1>0, <2>2, <2>4, <2>5, <3>1, <4>1, <5>1 DEF Counted
      <4>2. CASE c.turn = t.turn
        <5>1. begun = counted /\ AutomaticTurns(c, t) = c.auto
          BY <2>3, <4>2 DEF BeginSharedTurn, AutomaticTurns
        <5> HIDE DEF begun
        <5> QED
          BY <1>0, <2>3, <2>4, <3>1, <4>2, <5>1 DEF Counted
      <4> QED
        BY <4>1, <4>2
    <3> HIDE DEF begun
    <3>3. SameCount(begun, d)
      BY <2>1, <2>7, <3>1, SetTargetsGrants
    <3> HIDE DEF d
    <3>4. Counted(d, t, n) /\ d.status = "RUNNING"
      BY <1>0, <3>1, <3>2, <3>3, CountedAlike DEF SameCount
    <3>5. Counts(c, d, t, n)
      BY <3>4 DEF Counts
    <3> QED
      BY <3>5 DEF d
  <2> QED
    BY <2>6, <2>7
<1> QED
  BY <1>0, <1>1, <1>2, <1>3

\* Restarting the personal clocks after a ready check keeps the count right: a
\* match that was suspended starts counting anew, in the turn of its table.
LEMMA ReadyCounts ==
  ASSUME IInv, NEW h \in Heroes, NEW ready \in BOOLEAN, SetReady(h, ready),
         NEW n \in Nat, Counted(clock, table, n)
  PROVE  Counts(clock, clock', table, n)
<1> DEFINE now  == IF ready THEN clock.ready \cup {h} \cup Bots ELSE clock.ready \ {h}
           c    == [clock EXCEPT !.ready = now, !.moved = TRUE]
           running == [c EXCEPT !.status = "RUNNING", !.moved = TRUE]
           cleared == [running EXCEPT !.auto = 0]
           done == IF now = Heroes THEN Resume(c, table) ELSE c
           d    == Reconcile(done, table, Open)
<1>0. /\ table \in GoodTables /\ GoodClock(clock) /\ clock \in Clock
      /\ Open \in BOOLEAN /\ Held(clock) /\ table.turn \in Nat
      /\ clock.turn \in Nat /\ clock.auto \in Nat
  BY TableParts DEF IInv, GoodClock, Clock, Open, SetReady
<1>1. now \in SUBSET Heroes
  BY <1>0, MatchAssumption DEF Clock
<1>2. SaveAndSchedule(d, table)
  BY DEF SetReady
<1> HIDE DEF now
<1>3. /\ GoodClock(c) /\ c.status = clock.status /\ c.turn = clock.turn
      /\ c.human = clock.human /\ c.auto = clock.auto
  BY <1>0, <1>1 DEF GoodClock, Clock
<1> HIDE DEF c
<1>4. /\ GoodClock(running) /\ running.status = "RUNNING" /\ running.turn = clock.turn
      /\ running.human = clock.human /\ running.auto = clock.auto
  BY <1>3 DEF GoodClock, Clock, Statuses
<1>5. /\ GoodClock(cleared) /\ cleared.status = "RUNNING" /\ cleared.turn = clock.turn
      /\ cleared.auto = 0
  BY <1>4 DEF GoodClock, Clock
<1>6. /\ now # Heroes => done = c
      /\ now = Heroes /\ clock.status = "SUSPENDED_FOR_INACTIVITY" =>
           done = BeginSharedTurn(cleared, table.turn)
      /\ now = Heroes /\ clock.status # "SUSPENDED_FOR_INACTIVITY" => done = running
  BY <1>3 DEF Resume
<1> HIDE DEF running, cleared, done
<1>7. /\ GoodClock(done) /\ Counted(done, table, n)
      /\ done.status = "SUSPENDED_FOR_INACTIVITY" <=>
           now # Heroes /\ clock.status = "SUSPENDED_FOR_INACTIVITY"
      /\ done.status # "FINISHED"
  <2>1. CASE now # Heroes
    BY <1>0, <1>3, <1>6, <2>1 DEF Counted, Held
  <2>2. CASE now = Heroes /\ clock.status = "SUSPENDED_FOR_INACTIVITY"
    <3>1. clock.turn < table.turn /\ n <= clock.turn
      BY <2>2 DEF Counted
    <3>2. /\ GoodClock(done) /\ done.turn = table.turn /\ done.status = "RUNNING"
          /\ done.auto = 0
      <4>1. done = BeginSharedTurn(cleared, table.turn)
        BY <1>6, <2>2
      <4>2. cleared.turn # table.turn
        BY <1>0, <1>5, <3>1
      <4>3. GoodClock(done) /\ done.turn = table.turn /\ done.status = "RUNNING"
        BY <1>0, <1>5, <4>1, BeginSharedTurnGood
      <4>4. done.auto = 0
        BY <1>0, <1>5, <4>1, <4>2, TurnCounts
      <4> QED
        BY <4>3, <4>4
    <3>3. n <= done.turn /\ n + done.auto < done.turn
      BY <1>0, <3>1, <3>2
    <3>4. done.turn <= table.turn
      BY <1>0, <3>2
    <3> QED
      BY <2>2, <3>2, <3>3, <3>4 DEF Counted
  <2>3. CASE now = Heroes /\ clock.status # "SUSPENDED_FOR_INACTIVITY"
    BY <1>0, <1>4, <1>6, <2>3 DEF Counted, Held
  <2> QED
    BY <2>1, <2>2, <2>3
<1>8. GoodClock(d) /\ Counts(done, d, table, n)
  BY <1>0, <1>7, ReconcileSync, ReconcileCounts DEF Rested
<1> HIDE DEF d
<1>9. SameCount(d, clock')
  BY <1>2, <1>8, KeepCount
<1> QED
  BY <1>7, <1>8, <1>9 DEF Counts, Counted, SameCount

\* Every step of such a match keeps the count right, and a suspension is
\* deserved.
LEMMA StepCounts ==
  ASSUME IInv, HoldersFit, Watched, Families = {}, [Next]_vars, crashes' = crashes,
         Counted(clock, table, lastHuman)
  PROVE  Counts(clock, clock', table', lastHuman')
<1>0. /\ table \in GoodTables /\ GoodClock(clock) /\ Rested(clock) /\ table.turn \in Nat
      /\ lag \in Nat /\ lastHuman \in Nat /\ crashes \in Nat /\ clock.turn \in Nat
      /\ job \in GoodJobs /\ Open = FALSE
  BY TableParts DEF IInv, RestTyped, Watched, Open, GoodClock, Clock
<1>1. ASSUME SameCount(clock, clock'), table' \in GoodTables, table'.turn >= table.turn,
             lastHuman' = lastHuman
      PROVE  Counts(clock, clock', table', lastHuman')
  BY <1>0, <1>1, CountedAlike
<1>2. SameCount(clock, clock)
  BY DEF SameCount
<1>3. ASSUME NEW s, GoodClock(s), Rested(s), SameCount(clock, s),
             table' \in GoodTables, table'.turn >= table.turn, lastHuman' = lastHuman,
             \/ clock' = Reconcile(s, table', Open)
             \/ SaveAndSchedule(Reconcile(s, table', Open), table')
      PROVE  Counts(clock, clock', table', lastHuman')
  <2> DEFINE t == table'
             d == Reconcile(s, t, Open)
  <2>1. t \in GoodTables /\ t.turn >= table.turn
    BY <1>3
  <2>2. clock' = d \/ SaveAndSchedule(d, t)
    BY <1>3
  <2> HIDE DEF t
  <2>3. Counted(s, t, lastHuman)
    BY <1>0, <1>3, <2>1, CountedAlike
  <2>4. GoodClock(d) /\ Counts(s, d, t, lastHuman)
    BY <1>0, <1>3, <2>1, <2>3, ReconcileSync, ReconcileCounts
  <2> HIDE DEF d
  <2>5. clock' = d \/ SameCount(d, clock')
    BY <2>2, <2>4, KeepCount
  <2>6. Counts(clock, clock', t, lastHuman)
    BY <1>3, <2>4, <2>5 DEF Counts, Counted, SameCount
  <2> QED
    BY <1>3, <2>6 DEF t
<1>4. GoodClock(Settled) /\ Rested(Settled) /\ SameCount(clock, Settled)
  BY <1>0, SettleKeeps, KeepCount DEF Settled
<1>5. CASE Client \/ DeadlineFire
  <2>1. clock' = Settled /\ table' = table /\ lastHuman' = lastHuman
    BY <1>5 DEF Client, ClientBegin, DeadlineFire
  <2> QED
    BY <1>0, <1>1, <1>4, <2>1
<1>6. CASE Bot
  <2>1. PICK h \in Bots : \E msg, req : BotDecide(h, msg, req)
    BY <1>6 DEF Bot
  <2>2. h \in Heroes
    BY MatchAssumption
  <2>3. table' \in GoodTables /\ table'.turn >= table.turn
    <3>1. PICK t \in {table, Final(table)} :
            \E msg, req : table' \in Decide(t, clock.locked, h, msg, req)
      BY <2>1 DEF BotDecide
    <3>2. t \in GoodTables /\ t.turn = table.turn
      BY <1>0, FinalGood
    <3> QED
      BY <2>2, <3>1, <3>2, DecideGood, TurnsRise
  <2> QED
    BY <1>0, <1>1, <2>1, <2>3, KeepCount DEF BotDecide
<1>7. CASE Ready
  <2>1. CASE SetReadyRefused
    BY <1>0, <1>1, <1>2, <2>1 DEF SetReadyRefused
  <2>2. CASE \E h \in Heroes, ready \in BOOLEAN : SetReady(h, ready)
    <3>1. Counts(clock, clock', table, lastHuman)
      BY <1>0, <2>2, ReadyCounts
    <3>2. table' = table /\ lastHuman' = lastHuman
      BY <2>2 DEF SetReady
    <3> QED
      BY <3>1, <3>2
  <2> QED
    BY <1>7, <2>1, <2>2 DEF Ready
<1>8. ~Proposals
  BY DEF Proposals, Propose, ProposalDropped, PlayerRevealed, ProposalApproved, Open, Watched
<1>9. ASSUME NEW c, GoodClock(c), Rested(c), SameCount(clock, c),
             NEW t \in GoodTables, t.turn >= table.turn, NEW lost, NEW again,
             AfterTimeout(c, t, lost, again)
      PROVE  Counts(clock, clock', table', lastHuman')
  BY <1>3, <1>9 DEF AfterTimeout
<1>10. ASSUME NEW h \in Heroes, PlanningTimeout(h)
       PROVE  Counts(clock, clock', table', lastHuman')
  <2> DEFINE c == [clock EXCEPT !.locked = @ \cup {h}]
  <2>1. GoodClock(c) /\ Rested(c) /\ SameCount(clock, c)
    BY <1>0 DEF GoodClock, Clock, Rested, SameCount
  <2>2. \A t \in TimeoutPlanning(h) : t \in GoodTables /\ t.turn >= table.turn
    <3>1. {"one", "passed"} \subseteq Plans
      BY DEF Plans
    <3> QED
      BY <1>0, <3>1, PlanGood, TurnsRise DEF TimeoutPlanning
  <2>3. PICK t \in TimeoutPlanning(h) : \E again : AfterTimeout(c, t, Loses("PLANNING", h), again)
    BY <1>10 DEF PlanningTimeout
  <2> HIDE DEF c
  <2> QED
    BY <1>9, <2>1, <2>2, <2>3
<1>11. ASSUME NEW h \in Heroes, LevelUpTimeout(h)
       PROVE  Counts(clock, clock', table', lastHuman')
  <2>1. \A t \in TakeAllUpgrades(table, h) : t \in GoodTables /\ t.turn >= table.turn
    BY <1>0, TakeUpgradeGood, TurnsRise
  <2>2. PICK t \in TakeAllUpgrades(table, h) : \E lost, again : AfterTimeout(clock, t, lost, again)
    BY <1>11 DEF LevelUpTimeout
  <2> QED
    BY <1>0, <1>2, <1>9, <2>1, <2>2
<1>12. CASE InputTimeout
  <2>1. \A t \in EngineNext(Final(table)) : t \in GoodTables /\ t.turn >= table.turn
    BY <1>0, FinalGood, EngineNextGood, TurnsRise, MatchAssumption
  <2>2. PICK t \in EngineNext(Final(table)) : \E lost, again : AfterTimeout(clock, t, lost, again)
    BY <1>12 DEF InputTimeout
  <2> QED
    BY <1>0, <1>2, <1>9, <2>1, <2>2
<1>13. CASE TeamPartlyDry \/ Prepared
  <2>1. /\ table' = table /\ lastHuman' = lastHuman
        /\ \/ clock' = Reconcile(clock, table, Open)
           \/ SaveAndSchedule(Reconcile(clock, table, Open), table)
    BY <1>13 DEF TeamPartlyDry, Prepared
  <2> QED
    BY <1>0, <1>2, <1>3, <2>1
<1>14. CASE Finish
  BY <1>0, <1>3, <1>4, <1>14 DEF Finish
<1>15. CASE DeadlineDone
  BY <1>0, <1>1, <1>15, KeepCount DEF DeadlineDone
<1>16. CASE NothingDue \/ DecisionLost \/ RewindFailed \/ DeadlineStale \/ Tick
              \/ UNCHANGED vars
  BY <1>0, <1>1, <1>2, <1>16 DEF NothingDue, DecisionLost, RewindFailed, DeadlineStale,
                                 Tick, vars
<1>17. CASE DecisionRefused
  BY <1>0, <1>1, <1>2, <1>17, KeepCount DEF DecisionRefused
<1>18. CASE DecisionAccepted
  <2> DEFINE d == StopForDecision(clock, job.hero, job.msg, job.req)
  <2>1. job.hero \in Heroes /\ GoodClock(d) /\ SameCount(clock, d)
    BY <1>0, <1>18, KeepCount, StopForDecisionGood DEF DecisionAccepted, GoodJobs
  <2>2. table' \in GoodTables /\ table'.turn >= table.turn
    BY <1>0, <1>18, <2>1, DecideGood, TurnsRise DEF DecisionAccepted
  <2>3. clock' = MarkHuman(d)
    BY <1>18 DEF DecisionAccepted
  <2> HIDE DEF d
  <2>4. CASE clock.status # "RUNNING"
    BY <1>1, <1>18, <2>1, <2>2, <2>3, <2>4 DEF MarkHuman, SameCount, DecisionAccepted
  <2>5. CASE clock.status = "RUNNING"
    <3>1. clock.turn = table.turn /\ lastHuman' = table.turn
      BY <1>0, <1>18, <2>5 DEF IInv, InSync, Sync, Agrees, DecisionAccepted
    <3>2. clock'.status = "RUNNING" /\ clock'.turn = clock.turn /\ clock'.human = TRUE
      BY <2>1, <2>3, <2>5 DEF MarkHuman, SameCount, GoodClock, Clock
    <3>3. table'.turn \in Nat
      BY <2>2, TableParts
    <3> QED
      BY <1>0, <2>2, <3>1, <3>2, <3>3 DEF Counts, Counted
  <2> QED
    BY <2>4, <2>5
<1>19. CASE ApplyPause
  <2>1. /\ \/ clock' = clock
           \/ clock' = PauseClock(clock) /\ clock.status = "RUNNING"
        /\ table' = table /\ lastHuman' = lastHuman
    BY <1>19 DEF ApplyPause
  <2>2. /\ PauseClock(clock).status = "PAUSED" /\ PauseClock(clock).turn = clock.turn
        /\ PauseClock(clock).human = clock.human /\ PauseClock(clock).auto = clock.auto
    BY <1>0 DEF PauseClock, Stop, GoodClock, Clock
  <2>3. CASE clock' = clock
    BY <1>0, <1>1, <1>2, <2>1, <2>3
  <2>4. CASE clock' = PauseClock(clock) /\ clock.status = "RUNNING"
    BY <2>1, <2>2, <2>4 DEF Counted, Counts
  <2> QED
    BY <2>1, <2>3, <2>4
<1>20. CASE ApplyPatch
  <2>1. table' \in {table} \cup EngineNext(table) \cup Upgrades(table, table.upgrades)
    BY <1>20 DEF ApplyPatch
  <2>2. \A u \in Upgrades(table, table.upgrades) : u.turn = table.turn
    BY <1>0 DEF Upgrades, GoodTables, Table
  <2>3. table' \in GoodTables /\ table'.turn >= table.turn
    BY <1>0, <2>1, <2>2, TableParts, EngineNextGood, TurnsRise, MatchAssumption
  <2> QED
    BY <1>1, <1>2, <1>20, <2>3 DEF ApplyPatch
<1>21. CASE RewindDone
  <2>1. clock'.status = "UNTIMED"
    BY <1>0, <1>21 DEF RewindDone, GoodClock, Clock
  <2> QED
    BY <2>1 DEF Counts, Counted
<1>22. ~ (Crash \/ Shutdown)
  <2>1. crashes' # crashes + 1
    BY <1>0
  <2> QED
    BY <2>1, Zenon DEF Crash, Shutdown, RestartFrom
<1> QED
  BY <1>5, <1>6, <1>7, <1>8, <1>10, <1>11, <1>12, <1>13, <1>14, <1>15, <1>16, <1>17, <1>18,
     <1>19, <1>20, <1>21, <1>22 DEF Next, Proceed, Timeouts

\* On a server that did not crash, a match in which nobody proposes an override is
\* suspended only after AutomaticTurnLimit turns without a human decision
\* (reconcile_game_clock, mark_human_action).
THEOREM SuspendedCorrect == ASSUME Families = {} PROVE Spec => SuspendedOnlyIfAbandoned
<1> DEFINE CountFits == crashes = 0 => Counted(clock, table, lastHuman)
           Deserved == /\ crashes' = 0 /\ clock.status # "SUSPENDED_FOR_INACTIVITY"
                       /\ clock'.status = "SUSPENDED_FOR_INACTIVITY"
                       => lastHuman' + AutomaticTurnLimit < table'.turn
<1>1. Init => CountFits
  BY DEF Init, Counted, NewClock, StartTable
<1>2. ASSUME IInv, HoldersFit, Watched, CountFits, [Next]_vars, crashes' = 0
      PROVE  Counts(clock, clock', table', lastHuman')
  <2>1. crashes \in Nat
    BY <1>2 DEF IInv, RestTyped
  <2>2. crashes' = crashes \/ crashes' = crashes + 1
    BY <1>2 DEF Next, Client, ClientBegin, Bot, BotDecide, Ready, SetReady,
       SetReadyRefused, Proposals, Propose, ProposalDropped, PlayerRevealed,
       ProposalApproved, Proceed, Timeouts, PlanningTimeout, LevelUpTimeout, AfterTimeout,
       InputTimeout, TeamPartlyDry, NothingDue, Prepared, DecisionLost, DecisionAccepted,
       DecisionRefused, DeadlineDone, Finish, ApplyPause, ApplyPatch, RewindDone,
       RewindFailed, DeadlineStale, DeadlineFire, Crash, Shutdown, RestartFrom, Tick, vars
  <2>3. crashes = 0
    BY <1>2, <2>1, <2>2
  <2> QED
    BY <1>2, <2>3, StepCounts
<1>3. IInv /\ HoldersFit /\ Watched /\ CountFits /\ [Next]_vars => CountFits'
  BY <1>2 DEF Counts, Counted
<1>4. IInv /\ HoldersFit /\ Watched /\ CountFits /\ [Next]_vars => [Deserved]_vars
  BY <1>2 DEF Counts
<1>5. IInv /\ HoldersFit /\ Watched /\ [Next]_vars => Watched'
  BY NextWatched
<1> HIDE DEF CountFits
<1> QED
  BY <1>1, <1>3, <1>4, <1>5, InitWatched, LockHolders, Invariance, PTL
     DEF Spec, SuspendedOnlyIfAbandoned
=============================================================================
