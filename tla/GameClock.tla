------------------------------ MODULE GameClock ------------------------------
(***************************************************************************)
(* The chess clock of a timed match, as the pure functions of              *)
(* src/src/goa2/domain/time_control.py: how elapsed time is charged to the *)
(* pools of the players, what a new shared turn grants, and which targets  *)
(* run.  MatchClock calls them with the table and the elapsed time.        *)
(*                                                                         *)
(* Time is counted in ticks.  Every operator that charges takes the time   *)
(* elapsed since last_settled_at_ms; that anchor itself is MatchClock's    *)
(* `lag'.  The revision counter of the code is only ever compared with the *)
(* value the deadline task captured when it was scheduled, so the clock    *)
(* keeps `moved': has the revision been bumped since then?                 *)
(***************************************************************************)
EXTENDS Naturals, FiniteSets

CONSTANTS
    Heroes,              \* the clock players of the match
    NoHero,              \* None for initiative_bonus_hero_id and for owners
    PlanningAllowance,   \* the ticks granted by TimeControlConfig
    ResolutionAllowance,
    InitiativeBonus,
    ResponseGrant,
    InitialBank,
    BankIncrement,
    MaxBank,
    UpgradeAllowance,
    AutomaticTurnLimit,
    EnforceTimeouts      \* FALSE: an advisory match

ASSUME ConfigAssumption ==
    /\ NoHero \notin Heroes
    /\ \A n \in {PlanningAllowance, ResolutionAllowance, InitiativeBonus,
                 ResponseGrant, InitialBank, BankIncrement, MaxBank,
                 UpgradeAllowance, AutomaticTurnLimit} : n \in Nat
    /\ InitialBank <= MaxBank
    /\ EnforceTimeouts \in BOOLEAN

-----------------------------------------------------------------------------
(* State shapes. *)

Statuses == {"WAITING_FOR_PLAYERS", "SUSPENDED_FOR_INACTIVITY", "PAUSED",
             "RUNNING", "FINISHED", "UNTIMED"}   \* UNTIMED: state.clock is None
Kinds    == {"PLANNING", "RESOLUTION", "RESPONSE", "LEVEL_UP", "NONE"}
PoolNames == {"planning", "resolution", "initiative", "response", "upgrade",
              "bank", "overrun"}
Pools == [PoolNames -> Nat]

Clock == [status   : Statuses,
          ready    : SUBSET Heroes,
          turn     : Nat,               \* turn_round / turn_number, one counter
          bonus    : Heroes \cup {NoHero},
          levelUp  : BOOLEAN,           \* level_up_round is this round
          credited : SUBSET Nat,        \* credited_response_request_ids
          kind     : Kinds,
          active   : SUBSET Heroes,
          deciders : SUBSET Heroes,
          request  : Nat,               \* active_request_id, 0 for None
          human    : BOOLEAN,           \* human_action_seen_this_turn
          auto     : Nat,               \* consecutive_automatic_turns
          locked   : SUBSET Heroes,     \* planning_locked_by_timeout
          pool     : [Heroes -> Pools],
          moved    : BOOLEAN]

\* create_game_clock: the first turn's allowances and the initial bank.
NewPools ==
    [n \in PoolNames |-> CASE n = "planning"   -> PlanningAllowance
                           [] n = "resolution" -> ResolutionAllowance
                           [] n = "bank"       -> InitialBank
                           [] OTHER            -> 0]

NewClock(turn) ==
    [status |-> "WAITING_FOR_PLAYERS", ready |-> {}, turn |-> turn,
     bonus |-> NoHero, levelUp |-> FALSE, credited |-> {}, kind |-> "NONE",
     active |-> {}, deciders |-> {}, request |-> 0, human |-> FALSE,
     auto |-> 0, locked |-> {}, pool |-> [h \in Heroes |-> NewPools],
     moved |-> FALSE]

\* Mutant: a paused match is not held.
MutHeld(c) == c.status \in {"WAITING_FOR_PLAYERS", "SUSPENDED_FOR_INACTIVITY"}

\* The statuses in which only a ready check is accepted.
Held(c) == c.status \in {"WAITING_FOR_PLAYERS", "SUSPENDED_FOR_INACTIVITY", "PAUSED"}

-----------------------------------------------------------------------------
(* Charging. *)

\* Mutant: the pool is not clamped at zero.
MutLeft(amount, e) == amount - e

Left(amount, e)  == IF e < amount THEN amount - e ELSE 0   \* what stays in a pool
Rest(amount, e)  == IF e < amount THEN 0 ELSE e - amount   \* what is still to pay
Least(a, b)      == IF a < b THEN a ELSE b

\* The pool a kind of clock spends first; the bank always comes last, and the
\* resolution allowance sits between them on Resolution and Response clocks.
OwnPool(kind) == CASE kind = "PLANNING"   -> "planning"
                   [] kind = "RESOLUTION" -> "initiative"
                   [] kind = "RESPONSE"   -> "response"
                   [] OTHER               -> "upgrade"

SharesResolution(kind) == kind \in {"RESOLUTION", "RESPONSE"}

Usable(p, kind) ==
    p[OwnPool(kind)] + p["bank"]
      + (IF SharesResolution(kind) THEN p["resolution"] ELSE 0)

Spend(p, kind, e) ==
    LET afterOwn == Rest(p[OwnPool(kind)], e)
        afterRes == IF SharesResolution(kind) THEN Rest(p["resolution"], afterOwn)
                                              ELSE afterOwn
        unpaid   == Rest(p["bank"], afterRes)
    IN [n \in PoolNames |->
          CASE n = OwnPool(kind) -> Left(p[n], e)
            [] n = "resolution" /\ SharesResolution(kind) -> Left(p[n], afterOwn)
            [] n = "bank" -> Left(p[n], afterRes)
            [] n = "overrun" /\ ~EnforceTimeouts -> p[n] + unpaid
            [] OTHER -> p[n]]

Charging(c) == c.status = "RUNNING" /\ c.kind # "NONE"

\* settle_clock: every running clock pays the elapsed time.
Settle(c, e) ==
    IF Charging(c)
    THEN [c EXCEPT !.pool = [h \in Heroes |->
            IF h \in c.active THEN Spend(c.pool[h], c.kind, e) ELSE c.pool[h]]]
    ELSE c

\* exhausted_active_hero_ids
Exhausted(c) == IF c.kind = "NONE" THEN {}
                ELSE {h \in c.active : Usable(c.pool[h], c.kind) = 0}

\* milliseconds_until_next_exhaustion: is there a delay, and which one?
NeedsDeadline(c) == EnforceTimeouts /\ Charging(c) /\ c.active # {}
Delay(c) == CHOOSE d \in {Usable(c.pool[h], c.kind) : h \in c.active} :
              \A h \in c.active : d <= Usable(c.pool[h], c.kind)

-----------------------------------------------------------------------------
(* Transitions.  Each is applied to a clock already settled. *)

Activate(c, kind, active, deciders, request) ==
    [c EXCEPT !.kind = kind, !.active = active, !.deciders = deciders,
              !.request = request,
              !.moved = @ \/ <<c.kind, c.active, c.deciders, c.request>>
                                # <<kind, active, deciders, request>>]

\* The four assignments that stop every target and always bump the revision.
Stop(c) == [c EXCEPT !.kind = "NONE", !.active = {}, !.deciders = {},
                     !.request = 0, !.moved = TRUE]

Idle(c) == Activate(c, "NONE", {}, {}, 0)

FinishClock(c) == [Stop(c) EXCEPT !.status = "FINISHED"]

SuspendClock(c) == [Stop(c) EXCEPT !.status = "SUSPENDED_FOR_INACTIVITY", !.ready = {}]

PauseClock(c) == [Stop(c) EXCEPT !.status = "PAUSED", !.ready = {}]

\* begin_shared_turn, for one player: fresh allowances, the increment repays
\* the overrun before it refills the bank.
TurnPools(p) ==
    LET repaid == Least(p["overrun"], BankIncrement)
    IN [n \in PoolNames |->
          CASE n = "planning"   -> PlanningAllowance
            [] n = "resolution" -> ResolutionAllowance
            [] n = "overrun"    -> p[n] - repaid
            [] n = "bank"       -> Least(MaxBank, p[n] + (BankIncrement - repaid))
            [] OTHER            -> 0]

BeginSharedTurn(c, turn) ==
    IF c.turn = turn THEN c
    ELSE [Stop(c) EXCEPT !.turn = turn, !.levelUp = FALSE, !.bonus = NoHero,
                         !.credited = {}, !.human = FALSE, !.locked = {},
                         !.pool = [h \in Heroes |-> TurnPools(c.pool[h])]]

\* Mutants: the one-shot guards of the grants are missing.
MutGrantInitiativeBonus(c, h) ==
    [c EXCEPT !.bonus = h, !.moved = TRUE, !.pool[h]["initiative"] = InitiativeBonus]

GrantInitiativeBonus(c, h) ==
    IF c.bonus # NoHero THEN c
    ELSE [c EXCEPT !.bonus = h, !.moved = TRUE,
                   !.pool[h]["initiative"] = InitiativeBonus]

GrantResponse(c, request, heroes) ==
    IF request \in c.credited THEN c
    ELSE [c EXCEPT !.credited = @ \cup {request}, !.moved = TRUE,
                   !.pool = [h \in Heroes |->
                      IF h \in heroes
                      THEN [c.pool[h] EXCEPT !["response"] = @ + ResponseGrant]
                      ELSE c.pool[h]]]

BeginLevelUp(c) ==
    IF c.levelUp THEN c
    ELSE [c EXCEPT !.levelUp = TRUE, !.moved = TRUE,
                   !.pool = [h \in Heroes |->
                      [c.pool[h] EXCEPT !["upgrade"] = UpgradeAllowance]]]

=============================================================================
