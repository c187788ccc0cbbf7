-------------------------------- MODULE Lanes --------------------------------
(***************************************************************************)
(* Lanes, minions and the end of a match: the steps the engine's stack     *)
(* runs when a turn or a round ends (engine/steps/combat.py, selection.py, *)
(* movement.py, engine/map_logic.py), between the effects of the heroes'   *)
(* actions, and the vote that sets a team's life counters                  *)
(* (engine/overrides.py).                                                  *)
(*                                                                         *)
(* A place is a zone, not a hex: <<lane, index>>, index 1 and Length being *)
(* the thrones.  A zone is never full, so a displaced minion finds a space.*)
(* Gold, markers, minion protection (the minion stays or is defeated) and  *)
(* the hex a minion walks to are left out.                                 *)
(***************************************************************************)
EXTENDS Integers, Sequences, FiniteSets, FiniteSetsExt, SequencesExt

CONSTANTS
    Boards,       \* the maps: sequences of lanes, in the order of the map file
    Length,       \* zones of a lane, both thrones included
    Minions,      \* the roster of both teams
    TeamOf, LaneOf,   \* [Minions -> Teams], [Minions -> lanes]
    Heavies,      \* the heavy minions; every other one is light
    Points,       \* Points[l][i] : the spawn points of the i-th zone of lane l
    Waves, Lives, \* counters a match starts with
    MaxPenalty,   \* life counters one defeat costs at most (code: 4)
    MaxAstray,    \* bound: minions outside the Battle Zone of their lane
    MaxBlocked,   \* bound: spawn points a unit stands on during a push
    Edges,        \* what ultimates and exclusions may add to RED in a lane's battle
    MaxPatches    \* bound: approved set_life_counters overrides

Teams    == {"RED", "BLUE"}
Other(t) == IF t = "RED" THEN "BLUE" ELSE "RED"
Nobody   == "none"

Lane   == UNION {ToSet(b) : b \in Boards}
Limbo  == <<"limbo", 0>>      \* in the roster, not on the board
Wild   == <<"wild", 0>>       \* on the board, in no zone of a lane
Kind(m)     == <<TeamOf[m], m \in Heavies>>
MinionKinds == Teams \X BOOLEAN
PointKind(p) == <<p[1], p[2]>>

ASSUME LanesAssumption ==
    /\ Boards \subseteq Seq(Lane) /\ \A b \in Boards : \A i, j \in DOMAIN b : b[i] = b[j] => i = j
    /\ Length \in Nat /\ Length > 2 /\ Waves \in Nat \ {0} /\ Lives \in Nat \ {0}
    /\ TeamOf \in [Minions -> Teams] /\ LaneOf \in [Minions -> Lane]
    /\ IsFiniteSet(Minions) /\ Heavies \subseteq Minions /\ Edges \subseteq Int
    /\ \A l \in Lane, i \in 1 .. Length : 
         IsFiniteSet(Points[l][i]) /\ \A p \in Points[l][i] : PointKind(p) \in MinionKinds

VARIABLES
    board,    \* the lanes of this match (state.board.lanes)
    zone,     \* the Battle Zone of each lane, an index (battle_zones)
    waves,    \* wave_counters
    at,       \* the place of each minion (unit_locations)
    lives,    \* life_counters of each team
    todo,     \* the steps on the stack, the next one first
    over,     \* winner, or Nobody while the match goes on
    patches,  \* approved set_life_counters overrides so far
    astray    \* history: minions outside their Battle Zone at the check
              \* these steps began with

vars == <<board, zone, waves, at, lives, todo, over, patches, astray>>

-----------------------------------------------------------------------------
(* Reading the board. *)

Lanes        == ToSet(board)
Here(l)      == <<l, zone[l]>>
Before(l, k) == \E i, j \in DOMAIN board : i < j /\ board[i] = l /\ board[j] = k

\* Some lanes, in the order of the board.
InOrder(S) == {s \in [1 .. Cardinality(S) -> S] : \A i, j \in DOMAIN s : i < j => Before(s[i], s[j])}

Bound(l, k)  == {m \in Minions : LaneOf[m] = l /\ Kind(m) = k}
Count(t, z)  == Cardinality({m \in Minions : TeamOf[m] = t /\ at[m] = z})

\* check_lane_push_trigger: the team with no minion where the other has some.
Loser(z) ==
    IF Count("RED", z) = 0 /\ Count("BLUE", z) > 0 THEN "RED"
    ELSE IF Count("BLUE", z) = 0 /\ Count("RED", z) > 0 THEN "BLUE" ELSE Nobody

\* get_push_target_zone_id: one zone towards the loser's throne.
Target(l, t) == IF t = "RED" THEN zone[l] - 1 ELSE zone[l] + 1
Throne(i)    == i <= 1 \/ i >= Length

\* zones_between and endgame_totals, with the Battle Zones at z.
Between(t, i) == IF t = "RED" THEN i - 2 ELSE Length - 1 - i
Total(t, z)   == MapThenSumSet(LAMBDA l : Between(t, z[l]), Lanes)

\* The minions outside the Battle Zone of their own lane.
Outside == {m \in Minions : /\ LaneOf[m] \in Lanes
                            /\ at[m] \notin {Limbo, Here(LaneOf[m])}}

\* _wipe_minions_in_zone: whoever stands there, of whatever lane.
\* Mutant: every minion of the board is wiped.
MutWipe(place, z) == [m \in Minions |-> Limbo]

\* Mutant: the zone is read after it moved, and nobody stands there.
MutWipeNew(place, z) == place

Wipe(place, z) == [m \in Minions |-> IF place[m] = z THEN Limbo ELSE place[m]]

\* The first minions in the box that fit these spawn points, one for each.
Drafted(place, l, points) ==
    UNION {LET box  == {m \in Bound(l, k) : place[m] = Limbo}
               room == Cardinality({p \in points : PointKind(p) = k})
           IN CHOOSE S \in SUBSET box :
                Cardinality(S) = Min({room, Cardinality(box)}) : k \in MinionKinds}

\* Mutant: one pass: whoever waits for a blocked point is drafted again.
MutSpawn(place, l, z, blocked) ==
    LET points == Points[l][z[2]]
        now    == Drafted(place, l, points \ blocked)
    IN [place |-> [m \in Minions |-> IF m \in now THEN z ELSE place[m]],
        queued |-> Drafted(place, l, blocked)]

\* _respawn_minions_at_spawn_points: first the points that are free or hold a
\* token, then, from those left in the box, one minion for each blocked point.
Spawn(place, l, z, blocked) ==
    LET points == Points[l][z[2]]
        now    == Drafted(place, l, points \ blocked)
        after  == [m \in Minions |-> IF m \in now THEN z ELSE place[m]]
    IN [place |-> after, queued |-> Drafted(after, l, blocked)]

Blocks(points) == {B \in SUBSET points : Cardinality(B) <= MaxBlocked}

-----------------------------------------------------------------------------
(* The stack. *)

Step(kind)  == [do |-> kind]
Displace(M) == IF M = {} THEN <<>> ELSE <<[do |-> "displace", who |-> M]>>
GameOver(t) == <<[do |-> "over", winner |-> t]>>
Rest        == Tail(todo)
Ready(kind) == todo # <<>> /\ Head(todo).do = kind /\ over = Nobody
Idle        == todo = <<>> /\ over = Nobody

\* TriggerGameOverStep: the winner is set and the whole stack dropped.
TriggerGameOver ==
    /\ Ready("over")
    /\ over' = Head(todo).winner /\ todo' = <<>>
    /\ UNCHANGED <<board, zone, waves, at, lives, patches, astray>>

-----------------------------------------------------------------------------
(* The effects of an action or of a payload, between the steps below. *)

\* DefeatUnitStep on a minion, RemoveUnitStep.
DefeatMinion(m) ==
    /\ Idle /\ at[m] # Limbo
    /\ at' = [at EXCEPT ![m] = Limbo]
    /\ UNCHANGED <<board, zone, waves, lives, todo, over, patches>> /\ astray' = {}

\* An effect pushes, moves, places or swaps a minion.
MoveMinion(m, z) ==
    /\ Idle /\ at[m] # Limbo /\ z # at[m]
    /\ at' = [at EXCEPT ![m] = z]
    /\ UNCHANGED <<board, zone, waves, lives, todo, over, patches>> /\ astray' = {}
    /\ Cardinality(Outside') <= MaxAstray

\* RespawnMinionAtHexStep, bound to the lane: a kind may come back only where
\* the zone has more spawn points of it than miniatures of any lane.
RespawnMinion(m) ==
    LET l == LaneOf[m]
        here == {g \in Minions : Kind(g) = Kind(m) /\ at[g] = Here(l)}
    IN /\ Idle /\ l \in Lanes /\ at[m] = Limbo
       /\ Cardinality(here)
            < Cardinality({p \in Points[l][zone[l]] : PointKind(p) = Kind(m)})
       /\ at' = [at EXCEPT ![m] = Here(l)]
       /\ UNCHANGED <<board, zone, waves, lives, todo, over, patches>> /\ astray' = {}

\* Mutant: the additional counter is spent without looking for the end.
MutLoseLives(t, n) ==
    /\ Idle
    /\ lives' = [lives EXCEPT ![t] = Max({0, @ - n})]
    /\ UNCHANGED <<board, zone, waves, at, todo, over, patches>> /\ astray' = {}

\* DefeatUnitStep on a hero, SpendAdditionalLifeCounterStep.
LoseLives(t, n) ==
    /\ Idle
    /\ lives' = [lives EXCEPT ![t] = Max({0, @ - n})]
    /\ todo' = IF lives'[t] = 0 THEN GameOver(Other(t)) ELSE <<>>
    /\ UNCHANGED <<board, zone, waves, at, over, patches>> /\ astray' = {}

\* RestoreSpentLifeCounterStep
RestoreLife(t) ==
    /\ Idle /\ lives[t] < Lives
    /\ lives' = [lives EXCEPT ![t] = @ + 1]
    /\ UNCHANGED <<board, zone, waves, at, todo, over, patches>> /\ astray' = {}

\* The approved override set_life_counters, while the engine waits.
Asks == todo # <<>> => Head(todo).do \in {"return", "displace", "remove"}

SetLifeCounters(t, n) ==
    /\ patches < MaxPatches /\ Asks /\ n # lives[t]
    /\ lives' = [lives EXCEPT ![t] = n] /\ patches' = patches + 1
    /\ \/ /\ n = 0 /\ over = Nobody
          /\ todo' = GameOver(Other(t)) \o todo /\ UNCHANGED over
       \/ /\ over # Nobody /\ lives[t] = 0 /\ n > 0     \* the match goes on
          /\ over' = Nobody
          /\ todo' \in {<<>>, <<[do |-> "return", done |-> {}], Step("check")>>}
       \/ /\ IF over = Nobody THEN n > 0 ELSE n = 0 \/ lives[t] > 0
          /\ UNCHANGED <<todo, over>>
    /\ UNCHANGED <<board, zone, waves, at, astray>>

-----------------------------------------------------------------------------
(* Where the steps come from. *)

\* FinalizeHeroTurnStep
EndTurn ==
    /\ Idle /\ todo' = <<[do |-> "return", done |-> {}], Step("check")>>
    /\ UNCHANGED <<board, zone, waves, at, lives, over, patches>> /\ astray' = {}

\* EndPhaseStep, its payloads being effects
EndRound ==
    /\ Idle /\ todo' = <<Step("battle"), Step("check")>>
    /\ UNCHANGED <<board, zone, waves, at, lives, over, patches>> /\ astray' = {}

\* MayRepeatNTimesStep, and the cards that act again
RepeatAction ==
    /\ Idle /\ todo' = <<Step("check")>>
    /\ UNCHANGED <<board, zone, waves, at, lives, over, patches>> /\ astray' = {}

\* ReturnMinionToZoneStep: one minion after the other, each once; it stays
\* where it is when it has no legal way and no legal space.
ReturnMinion ==
    LET left == Outside \ Head(todo).done
    IN /\ Ready("return")
       /\ \/ left = {} /\ todo' = Rest /\ UNCHANGED at
          \/ \E m \in left, home \in BOOLEAN :
               /\ at' = IF home THEN [at EXCEPT ![m] = Here(LaneOf[m])] ELSE at
               /\ todo' = IF left = {m} THEN Rest
                          ELSE <<[Head(todo) EXCEPT !.done = @ \cup {m}]>> \o Rest
       /\ UNCHANGED <<board, zone, waves, lives, over, patches, astray>>

-----------------------------------------------------------------------------
(* The minion battle of a round's end. *)

\* By how much RED is stronger in a lane's Battle Zone; ultimates that count as
\* a minion and exclusions add n.
Lead(l, n) == n + Count("RED", Here(l)) - Count("BLUE", Here(l))

\* The minions lost in one lane.
Losses(l, n) ==
    [do |-> "remove", team |-> IF Lead(l, n) < 0 THEN "RED" ELSE "BLUE",
     left |-> Max({Lead(l, n), 0 - Lead(l, n)}), from |-> Here(l)]

\* MinionBattleStep: every lane is counted before a minion is removed.
MinionBattle ==
    /\ Ready("battle")
    /\ \E edge \in [Lanes -> Edges] :
         \E s \in InOrder({l \in Lanes : Lead(l, edge[l]) # 0}) :
           todo' = [i \in DOMAIN s |-> Losses(s[i], edge[s[i]])] \o Rest
    /\ UNCHANGED <<board, zone, waves, at, lives, over, patches, astray>>

\* ChooseMinionRemovalStep: heavy minions go when no other is left.
ChooseMinionRemoval ==
    LET step    == Head(todo)
        losers  == {m \in Minions : TeamOf[m] = step.team /\ at[m] = step.from}
        offered == IF losers \subseteq Heavies THEN losers ELSE losers \ Heavies
    IN /\ Ready("remove")
       /\ \/ (step.left = 0 \/ losers = {}) /\ todo' = Rest /\ UNCHANGED at
          \/ /\ step.left > 0
             /\ \E m \in offered : at' = [at EXCEPT ![m] = Limbo]
             /\ todo' = <<[step EXCEPT !.left = @ - 1]>> \o Rest
       /\ UNCHANGED <<board, zone, waves, lives, over, patches, astray>>

-----------------------------------------------------------------------------
(* CheckLanePushStep *)

Due      == {l \in Lanes : Loser(Here(l)) # Nobody}
DueOrder == InOrder(Due)
Multi    == Len(board) > 1

\* Where the Battle Zones would be, and the counters of the lanes that push.
Pushed   == [l \in Lanes |-> IF l \in Due THEN Target(l, Loser(Here(l))) ELSE zone[l]]
Flipped  == [l \in Lanes |-> IF l \in Due THEN Max({0, waves[l] - 1}) ELSE waves[l]]

\* The teams a push of this check brings to the other throne.
ThroneWinners == {Other(Loser(Here(l))) : l \in {d \in Due : Throne(Pushed[d])}}

\* The end the pushes of this check bring, decided before any of them moves.
Verdict ==
    IF ThroneWinners = Teams THEN "tie"
    ELSE IF ThroneWinners # {} THEN CHOOSE t \in Teams : t \in ThroneWinners
    ELSE IF \A l \in Lanes : Flipped[l] > 0 THEN "none"
    ELSE IF Total("RED", Pushed) = Total("BLUE", Pushed) THEN "tie"
    ELSE IF Total("RED", Pushed) > Total("BLUE", Pushed) THEN "RED" ELSE "BLUE"

\* _tie_remedy: every lane that would push is emptied and filled where it is.
Refill(so_far, l, blocked) ==
    LET s == Spawn(Wipe(so_far.place, Here(l)), l, Here(l), blocked[l])
    IN [place |-> s.place, queued |-> so_far.queued \cup s.queued]

TieRemedy(s, blocked) ==
    LET after[i \in 0 .. Len(s)] ==
          IF i = 0 THEN [place |-> at, queued |-> {}] ELSE Refill(after[i - 1], s[i], blocked)
    IN  after[Len(s)]

Checking == Ready("check") /\ astray' = Outside

CheckNothing ==
    /\ Checking /\ Due = {}
    /\ todo' = Rest
    /\ UNCHANGED <<board, zone, waves, at, lives, over, patches>>

\* One lane: the push itself keeps the counter and decides the end.
CheckSingle ==
    /\ Checking /\ Due # {} /\ ~Multi
    /\ \E s \in DueOrder :
         todo' = [i \in DOMAIN s |-> [do |-> "push", lane |-> s[i], loser |-> Loser(Here(s[i])),
                                     decides |-> TRUE, target |-> 0]] \o Rest
    /\ UNCHANGED <<board, zone, waves, at, lives, over, patches>>

CheckWon ==
    /\ Checking /\ Due # {} /\ Multi /\ Verdict \in Teams
    /\ waves' = Flipped /\ todo' = GameOver(Verdict) \o Rest
    /\ UNCHANGED <<board, zone, at, lives, over, patches>>

CheckTied ==
    /\ Checking /\ Due # {} /\ Multi /\ Verdict = "tie"
    /\ waves' = Flipped
    /\ \E s \in DueOrder, blocked \in [Due -> UNION {Blocks(Points[l][zone[l]]) : l \in Due}] :
         /\ \A l \in Due : blocked[l] \subseteq Points[l][zone[l]]
         /\ LET new == TieRemedy(s, blocked)
            IN at' = new.place /\ todo' = Displace(new.queued) \o Rest
    /\ UNCHANGED <<board, zone, lives, over, patches>>

CheckPushes ==
    /\ Checking /\ Due # {} /\ Multi /\ Verdict = "none"
    /\ waves' = Flipped
    /\ \E s \in DueOrder :
         todo' = [i \in DOMAIN s |-> [do |-> "push", lane |-> s[i], loser |-> Loser(Here(s[i])),
                                     decides |-> FALSE, target |-> Pushed[s[i]]]] \o Rest
    /\ UNCHANGED <<board, zone, at, lives, over, patches>>

-----------------------------------------------------------------------------
(* LanePushStep *)

\* The counter is taken first; the last one ends the match, then a throne.
PushWins ==
    LET step == Head(todo) l == step.lane
    IN /\ Ready("push") /\ step.decides
       /\ waves' = [waves EXCEPT ![l] = @ - 1]
       /\ waves'[l] <= 0 \/ Throne(Target(l, step.loser))
       /\ todo' = GameOver(Other(step.loser)) \o Rest
       /\ UNCHANGED <<board, zone, at, lives, over, patches, astray>>

PushMoves ==
    LET step == Head(todo)
        l    == step.lane
        new  == IF step.decides THEN Target(l, step.loser) ELSE step.target
    IN /\ Ready("push")
       /\ waves' = IF step.decides THEN [waves EXCEPT ![l] = @ - 1] ELSE waves
       /\ step.decides => waves'[l] > 0 /\ ~Throne(new)
       /\ zone' = [zone EXCEPT ![l] = new]
       /\ \E blocked \in Blocks(Points[l][new]) :
            LET s == Spawn(Wipe(at, Here(l)), l, <<l, new>>, blocked)
            IN at' = s.place /\ todo' = Displace(s.queued) \o Rest
       /\ UNCHANGED <<board, lives, over, patches, astray>>

\* ResolveDisplacementStep: a minion whose spawn point is taken stands nearby,
\* in the Battle Zone of its own lane.
ResolveDisplacement ==
    LET who == Head(todo).who
    IN /\ Ready("displace")
       /\ \E m \in who :
            /\ at' = [at EXCEPT ![m] = Here(LaneOf[m])]
            /\ todo' = Displace(who \ {m}) \o Rest
       /\ UNCHANGED <<board, zone, waves, lives, over, patches, astray>>

-----------------------------------------------------------------------------
Init ==
    /\ board \in Boards
    /\ zone = [l \in Lane |-> Length \div 2 + 1]
    /\ waves = [l \in Lane |-> Waves]
    /\ at = [m \in Minions |-> IF LaneOf[m] \in ToSet(board)
                               THEN <<LaneOf[m], Length \div 2 + 1>> ELSE Limbo]
    /\ lives = [t \in Teams |-> Lives]
    /\ todo = <<>> /\ over = Nobody /\ patches = 0 /\ astray = {}

Places == {Wild} \cup {<<l, i>> : l \in Lanes, i \in 2 .. Length - 1}

Effects ==
    \/ \E m \in Minions : DefeatMinion(m) \/ RespawnMinion(m)
    \/ \E m \in Minions, z \in Places : MoveMinion(m, z)
    \/ \E t \in Teams : RestoreLife(t) \/ \E n \in 1 .. MaxPenalty : LoseLives(t, n)

Sources == EndTurn \/ EndRound \/ RepeatAction

Engine == \/ ReturnMinion \/ MinionBattle \/ ChooseMinionRemoval
          \/ CheckNothing \/ CheckSingle \/ CheckWon \/ CheckTied \/ CheckPushes
          \/ PushWins \/ PushMoves \/ ResolveDisplacement \/ TriggerGameOver

Patch == \E t \in Teams, n \in 0 .. Lives : SetLifeCounters(t, n)

Next == Effects \/ Sources \/ Engine \/ Patch

Spec == Init /\ [][Next]_vars

-----------------------------------------------------------------------------
(* Safety. *)

\* A match that has nothing left to decide is over: a team without life
\* counters, a single lane without wave counters or a Battle Zone in a throne
\* means a winner, or a winner about to be set.  (With two set_life_counters
\* overrides it fails: one applied to the finished match, the other resuming it.)
VerdictDue ==
    over = Nobody /\ (\A i \in DOMAIN todo : todo[i].do # "over") =>
        /\ \A t \in Teams : lives[t] > 0
        /\ \A l \in Lanes : ~Throne(zone[l]) /\ (Multi \/ waves[l] > 0)

\* A push that waits behind another lane's push and its prompts is still due
\* when its turn comes, against the same team and towards the same zone.
PushStaysDue ==
    \A i \in DOMAIN todo : todo[i].do = "push" =>
        LET l == todo[i].lane
        IN /\ Loser(Here(l)) = todo[i].loser
           /\ todo[i].decides \/ todo[i].target = Target(l, todo[i].loser)

Waiting == UNION {todo[i].who : i \in {j \in DOMAIN todo : todo[j].do = "displace"}}

\* A push leaves no minion of its lane in the box while a spawn point of its
\* kind goes without one: every minion drafted stands, or waits for its space.
PushFillsTheZone ==
    [][\A l \in Lanes : zone'[l] # zone[l] =>
         \A m \in Minions : LaneOf[m] = l /\ at'[m] = Limbo /\ m \notin Waiting' =>
             Cardinality({p \in Points[l][zone'[l]] : PointKind(p) = Kind(m)})
               <= Cardinality({g \in Bound(l, Kind(m)) :
                                 at'[g] = <<l, zone'[l]>> \/ g \in Waiting'})]_vars

\* When the steps that end a turn, a round or a repeat are done and no minion
\* was left outside its zone, no lane is held by one team alone: the next
\* round begins with both teams, or neither, in each Battle Zone.
HeldByBoth ==
    [][todo # <<>> /\ todo' = <<>> /\ over' = Nobody /\ astray' = {} =>
         \A l \in Lanes : Loser(Here(l))' = Nobody]_vars

=============================================================================
