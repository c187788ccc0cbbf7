------------------------------ MODULE TurnCycle ------------------------------
(***************************************************************************)
(* The turn cycle of the rules engine (src/src/goa2/engine): planning,     *)
(* revelation, the acting order, the end of a turn and the end of a round, *)
(* and what it does to the cards of every hero.                            *)
(*                                                                         *)
(* The engine is single-threaded: a call of a player runs the execution    *)
(* stack until a step asks for input or the stack is empty.  `pc' is what  *)
(* the top of the stack is about to do; players call only where it waits.  *)
(* What a card does to the board is left out; what it may do to turns and  *)
(* cards (defeat a hero, discard, retrieve, exchange, act through another  *)
(* hero, schedule a payload, flip the coin) is a choice.                   *)
(***************************************************************************)
EXTENDS Naturals, FiniteSets

CONSTANTS
    Red, Blue,    \* the heroes of the two teams
    TwoCard,      \* heroes whose ultimate lets them commit two cards
    Cards,        \* a hero's cards, named by their initiative
    Reserve,      \* those of them that start in the deck
    Bonus,        \* what a hero's items add to it
    LastTurn,     \* turns of a round
    Effects,      \* what the cards in play can do
    MaxEffects,   \* bound: effects in a match
    MaxUndo,      \* bound: takebacks in a turn
    Growing       \* bound: the heroes that gain levels or play with their deck

Heroes == Red \cup Blue
NoCard == 0
NoHero == "nobody"

ASSUME TurnAssumption ==
    /\ Red \cap Blue = {} /\ IsFiniteSet(Heroes) /\ NoHero \notin Heroes /\ Heroes # {}
    /\ TwoCard \subseteq Heroes
    /\ Cards \subseteq Nat \ {NoCard} /\ Bonus \in [Heroes -> Nat]
    /\ Reserve \subseteq Cards /\ Reserve # Cards
    /\ LastTurn \in Nat \ {0} /\ MaxEffects \in Nat /\ MaxUndo \in Nat
    /\ Growing \subseteq Heroes
    /\ Effects \subseteq {"defeat", "discard", "retrieve", "swap", "nested",
                          "schedule", "flip"}

VARIABLES
    phase, turn,
    hero,        \* per hero: hand, current and extra turn card, slots, discard,
                 \* and the cards that are out of play
    plan,        \* pending_inputs, pending_second_cards, planning_done
    unresolved,  \* unresolved_hero_ids
    board,       \* heroes with a place on the board
    actor,       \* current_actor_id
    owner,       \* resolution_owner_id
    pc,          \* what the top of the execution stack is about to do
    stack,       \* what else the stack holds
    coin,        \* tie_breaker_team
    due,         \* heroes with a payload (finishing_steps): at the end of the
                 \* turn, of the round, or after the next turn's reveal
    upgrades,    \* pending_upgrades
    budget,      \* effects and takebacks left
    owed         \* history: who revealed a card and has neither acted nor
                 \* fallen since

vars == <<phase, turn, hero, plan, unresolved, board, actor, owner, pc, stack,
          coin, due, upgrades, budget, owed>>

-----------------------------------------------------------------------------
(* The cards of a hero. *)

Slots == 1 .. LastTurn

Hero == [hand : SUBSET Cards, current : Cards \cup {NoCard},
         extra : Cards \cup {NoCard}, slots : [Slots -> Cards \cup {NoCard}],
         count : 0 .. LastTurn, discard : SUBSET Cards, deck : SUBSET Cards]

\* `deck' has the cards in none of the other places: those whose state is DECK,
\* ITEM or RETIRED (the code's deck is the list of all the cards).
NewHero == [hand |-> Cards \ Reserve, current |-> NoCard, extra |-> NoCard,
            slots |-> [t \in Slots |-> NoCard], count |-> 0, discard |-> {},
            deck |-> Reserve]

Resolved(x) == {x.slots[t] : t \in Slots} \ {NoCard}

PlayCard(x, c) == [x EXCEPT !.hand = @ \ {c}, !.current = c]

\* Mutant: the slot is the next free one instead of the turn's.
MutResolveCurrent(x, t) ==
    [x EXCEPT !.slots[t] = IF x.current # NoCard THEN x.current ELSE @,
              !.current = NoCard,
              !.count = IF @ < LastTurn THEN @ + 1 ELSE @]

\* A turn fills the hero's slot of that turn, whether or not a card is left to
\* put there; a repeated call keeps the card.
ResolveCurrent(x, t) ==
    [x EXCEPT !.slots[t] = IF x.current # NoCard THEN x.current ELSE @,
              !.current = NoCard,
              !.count = IF t > @ THEN t ELSE @]

Cleared(slots, c) == [t \in Slots |-> IF slots[t] = c THEN NoCard ELSE slots[t]]

\* Mutant: a discarded card of the played area also stays in its slot.
MutDiscardCard(x, c) ==
    [x EXCEPT !.hand = @ \ {c}, !.discard = @ \cup {c},
              !.current = IF @ = c THEN NoCard ELSE @]

\* discard_card, from the hand or from the played area.
DiscardCard(x, c) ==
    [x EXCEPT !.hand = @ \ {c}, !.discard = @ \cup {c},
              !.current = IF @ = c THEN NoCard ELSE @, !.slots = Cleared(@, c)]

ReturnToHand(x, c) ==
    [x EXCEPT !.hand = @ \cup {c}, !.discard = @ \ {c},
              !.current = IF @ = c THEN NoCard ELSE @, !.slots = Cleared(@, c)]

\* swap_cards, and the exchanges with a card of the deck or an item: two cards
\* change places, wherever they are.
Swapped(a, b, c) == IF c = a THEN b ELSE IF c = b THEN a ELSE c

SwapCards(x, a, b) ==
    LET all(S) == {Swapped(a, b, c) : c \in S}
    IN  [x EXCEPT !.hand = all(@), !.discard = all(@), !.deck = all(@),
                  !.current = Swapped(a, b, @),
                  !.slots = [t \in Slots |-> Swapped(a, b, @[t])]]

RetrieveCards(x) ==
    [x EXCEPT !.hand = (@ \cup x.discard \cup {x.slots[t] : t \in Slots}
                          \cup {x.current}) \ {NoCard},
              !.discard = {}, !.current = NoCard, !.count = 0,
              !.slots = [t \in Slots |-> NoCard]]

-----------------------------------------------------------------------------
(* Planning. *)

\* A hero's entries of the three planning buffers; None in pending_inputs is
\* `passed'.
Plan == [first : Cards \cup {NoCard}, second : Cards \cup {NoCard},
         passed : BOOLEAN, done : BOOLEAN]

NoPlan   == [first |-> NoCard, second |-> NoCard, passed |-> FALSE, done |-> FALSE]
PassPlan == [NoPlan EXCEPT !.passed = TRUE]

Pending(p) == p.first # NoCard \/ p.passed

\* planning_open_for_second_card
OpenForSecond(p, x, h) ==
    /\ p.first # NoCard /\ h \in TwoCard
    /\ p.second = NoCard /\ ~ p.done /\ x.hand # {}

AllPlanned(p, x) ==
    \A h \in Heroes : Pending(p[h]) /\ ~ OpenForSecond(p[h], x[h], h)

\* _check_phase_transition after a planning call
Closing == pc' = IF AllPlanned(plan', hero') THEN "reveal" ELSE "plan"

PlanningFrame == UNCHANGED <<phase, turn, unresolved, board, actor, owner, stack,
                             coin, due, upgrades, owed>>

Commit(h, c) ==
    /\ pc = "plan" /\ ~ Pending(plan[h]) /\ c \in hero[h].hand
    /\ hero' = [hero EXCEPT ![h] = PlayCard(@, c)]
    /\ plan' = [plan EXCEPT ![h].first = c]
    /\ PlanningFrame /\ UNCHANGED budget /\ Closing

CommitSecond(h, c) ==
    /\ pc = "plan" /\ plan[h].first # NoCard /\ h \in TwoCard
    /\ plan[h].second = NoCard /\ ~ plan[h].done /\ c \in hero[h].hand
    /\ hero' = [hero EXCEPT ![h] = PlayCard(@, c)]
    /\ plan' = [plan EXCEPT ![h].second = c]
    /\ PlanningFrame /\ UNCHANGED budget /\ Closing

\* pass_turn has no action: it needs an empty hand, and every way into planning
\* has already passed for the heroes without cards (AutoPassed).

\* The last commit comes back first; the first card is the pending one again.
UncommittedHero(x, p) ==
    IF p.second # NoCard
    THEN [x EXCEPT !.hand = @ \cup {p.second}, !.current = p.first]
    ELSE [x EXCEPT !.hand = @ \cup {p.first}, !.current = NoCard]

Uncommit(h) ==
    /\ pc = "plan" /\ plan[h].first # NoCard
    /\ budget.undo > 0 /\ budget' = [budget EXCEPT !.undo = @ - 1]
    /\ hero' = [hero EXCEPT ![h] = UncommittedHero(@, plan[h])]
    /\ plan' = [plan EXCEPT ![h] = IF @.second # NoCard
                                   THEN [@ EXCEPT !.second = NoCard, !.done = FALSE]
                                   ELSE NoPlan]
    /\ PlanningFrame /\ UNCHANGED pc

\* The done signal; it tells something only of a hero with two cards to commit.
FinishPlanning(h) ==
    /\ pc = "plan" /\ h \in TwoCard /\ Pending(plan[h]) /\ ~ plan[h].done
    /\ plan' = [plan EXCEPT ![h].done = TRUE]
    /\ PlanningFrame /\ UNCHANGED <<hero, budget>> /\ Closing

-----------------------------------------------------------------------------
(* Revelation, and what is settled before the first hero acts. *)

NoWork == [dual |-> {}, payloads |-> {}, tied |-> {}, flip |-> FALSE]

RevealedHero(x, p) ==
    IF p.passed THEN ResolveCurrent(x, turn)
    ELSE [x EXCEPT !.current = p.first,
                   !.extra = IF p.second # NoCard THEN p.second ELSE @]

Reveal ==
    /\ pc = "reveal"
    /\ phase' = "RESOLUTION"
    /\ hero' = [h \in Heroes |-> RevealedHero(hero[h], plan[h])]
    /\ plan' = [h \in Heroes |-> NoPlan]
    /\ unresolved' = {h \in Heroes : plan[h].first # NoCard}
    \* AFTER_CARDS_PLAYED_TRIGGER: a payload of the turn before is due now; one
    \* of the last round fizzles.
    /\ stack' = [NoWork EXCEPT !.dual = {h \in unresolved' : hero'[h].extra # NoCard},
                               !.payloads = IF turn > 1 THEN due.next ELSE {}]
    /\ due' = [due EXCEPT !.next = {}]
    /\ owed' = unresolved'
    /\ budget' = [budget EXCEPT !.undo = MaxUndo]
    /\ pc' = "opening"
    /\ UNCHANGED <<turn, board, actor, owner, coin, upgrades>>

\* RetrieveUnresolvedCardStep: one of two revealed cards returns to hand.
KeepCard(x, kept) ==
    LET back == IF kept = x.current THEN x.extra ELSE x.current
    IN  [x EXCEPT !.hand = @ \cup {back}, !.current = kept, !.extra = NoCard]

RetrieveUnresolved(h) ==
    /\ pc = "opening" /\ h \in stack.dual
    /\ \E kept \in {hero[h].current, hero[h].extra} :
          hero' = [hero EXCEPT ![h] = IF @.current = NoCard THEN @ ELSE KeepCard(@, kept)]
    /\ stack' = [stack EXCEPT !.dual = @ \ {h}]
    /\ UNCHANGED <<phase, turn, plan, unresolved, board, actor, owner, pc, coin,
                   due, upgrades, budget, owed>>

\* Mutant: a scheduled payload stays scheduled.
MutStartPayload(s) ==
    /\ \/ pc = "opening" /\ stack.dual = {} /\ pc' = "trigger"
       \/ pc = "closing" /\ pc' = "finishing"
    /\ s \in stack.payloads
    /\ actor' = s
    /\ UNCHANGED <<phase, turn, hero, plan, unresolved, board, owner, stack, coin,
                   due, upgrades, budget, owed>>

\* SetActorStep before a scheduled payload, at the start of Resolution, at the
\* end of the turn and at the end of the round.
StartPayload(s) ==
    /\ \/ pc = "opening" /\ stack.dual = {} /\ pc' = "trigger"
       \/ pc = "closing" /\ pc' = "finishing"
    /\ s \in stack.payloads
    /\ stack' = [stack EXCEPT !.payloads = @ \ {s}]
    /\ actor' = s
    /\ UNCHANGED <<phase, turn, hero, plan, unresolved, board, owner, coin, due,
                   upgrades, budget, owed>>

EndPayload ==
    /\ \/ pc = "trigger" /\ pc' = "opening"
       \/ pc = "finishing" /\ pc' = "closing"
    /\ UNCHANGED <<phase, turn, hero, plan, unresolved, board, actor, owner, stack,
                   coin, due, upgrades, budget, owed>>

Opened ==
    /\ pc = "opening" /\ stack.dual = {} /\ stack.payloads = {}
    /\ pc' = "next"
    /\ UNCHANGED <<phase, turn, hero, plan, unresolved, board, actor, owner, stack,
                   coin, due, upgrades, budget, owed>>

-----------------------------------------------------------------------------
(* The acting order. *)

Initiative(h) == hero[h].current + Bonus[h]

Candidates == {h \in unresolved : hero[h].current # NoCard}
Fastest    == {h \in Candidates : \A g \in Candidates : Initiative(g) <= Initiative(h)}

Other(team) == IF team = "red" THEN "blue" ELSE "red"
Members(team) == IF team = "red" THEN Red ELSE Blue
TeamOf(h) == IF h \in Red THEN "red" ELSE "blue"

\* Mutant: a tie takes all the tied heroes out of the pool.
MutStartTurn(h, flip) ==
    /\ actor' = h /\ owner' = h
    /\ unresolved' = unresolved \ (stack.tied \cup {h})
    /\ stack' = [NoWork EXCEPT !.flip = flip]
    /\ pc' = IF h \in board THEN "act" ELSE "respawn"

\* A hero leaves the pool and its steps are pushed: respawn, card, confirm,
\* finalize.
StartTurn(h, flip) ==
    /\ actor' = h /\ owner' = h
    /\ unresolved' = unresolved \ {h}
    /\ stack' = [NoWork EXCEPT !.flip = flip]
    /\ pc' = IF h \in board THEN "act" ELSE "respawn"

OrderFrame == UNCHANGED <<phase, turn, hero, plan, board, coin, due, upgrades,
                          budget>>

\* resolve_next_action.  When nobody left in the pool holds a card it returns
\* without pushing anything: the stack is empty and nobody is asked.
NextActor ==
    /\ pc = "next" /\ unresolved # {}
    /\ IF Cardinality(Fastest) = 1 THEN \E h \in Fastest : StartTurn(h, FALSE)
       ELSE /\ pc' = IF Fastest = {} THEN "idle" ELSE "tie"
            /\ stack' = [NoWork EXCEPT !.tied = Fastest]
            /\ UNCHANGED <<unresolved, actor, owner>>
    /\ OrderFrame /\ UNCHANGED owed

\* ResolveTieBreakerStep: the coin decides between teams, the team decides
\* among its own; the coin flips when the winner of a tie of both teams is done.
Favoured == IF stack.tied \cap Members(coin) # {} THEN stack.tied \cap Members(coin)
            ELSE stack.tied

BothTied == stack.tied \cap Red # {} /\ stack.tied \cap Blue # {}

BreakTie(h) ==
    /\ pc = "tie" /\ h \in Favoured
    /\ StartTurn(h, BothTied)
    /\ OrderFrame /\ UNCHANGED owed

\* RespawnHeroStep: a defeated hero takes a spawn point, or passes (or finds
\* none) and its card does nothing.
Respawn ==
    /\ pc = "respawn"
    /\ \/ board' = board \cup {owner} /\ pc' = "act"
       \/ UNCHANGED board /\ pc' = "settle"
    /\ UNCHANGED <<phase, turn, hero, plan, unresolved, actor, owner, stack, coin,
                   due, upgrades, budget, owed>>

-----------------------------------------------------------------------------
(* What a card in resolution, or a payload, does. *)

Resolving == pc \in {"act", "nested", "trigger", "finishing"}

Effect(kind) ==
    /\ Resolving /\ kind \in Effects /\ budget.effects > 0
    /\ budget' = [budget EXCEPT !.effects = @ - 1]
    /\ UNCHANGED <<phase, turn, plan, owner, stack, upgrades>>

\* DefeatUnitStep on a hero: its turn slot is filled, it leaves the pool and
\* its scheduled payloads end with it; the last life counter ends the game.
Defeat(v) ==
    /\ Effect("defeat") /\ v \in board
    /\ hero' = [hero EXCEPT ![v] = ResolveCurrent(@, turn)]
    /\ unresolved' = unresolved \ {v}
    /\ board' = board \ {v}
    /\ due' = [t \in DOMAIN due |-> due[t] \ {v}]
    /\ owed' = owed \ {v}
    /\ pc' \in {pc, "over"}
    /\ UNCHANGED <<actor, coin>>

EffectFrame == UNCHANGED <<unresolved, board, coin, owed>>

\* DiscardCardStep: a card of the hand, a resolved card (a shield in place of a
\* hand card, or at its hero's wish), or the card its hero is playing.
Discard(v, c) ==
    /\ Effect("discard")
    /\ c \in hero[v].hand \cup Resolved(hero[v]) \/ (v = owner /\ hero[v].current = c)
    /\ hero' = [hero EXCEPT ![v] = DiscardCard(@, c)]
    /\ EffectFrame /\ UNCHANGED <<actor, pc, due>>

\* Mutant: the card of a hero that waits for its turn can be retrieved too.
MutRetrieve(v, c) ==
    /\ Effect("retrieve")
    /\ c \in hero[v].discard \cup Resolved(hero[v]) \cup {hero[v].current}
    /\ hero' = [hero EXCEPT ![v] = ReturnToHand(@, c)]
    /\ EffectFrame /\ UNCHANGED <<actor, pc, due>>

\* RetrieveCardStep: a discarded or resolved card of any hero; "this card" is
\* the owner's own.
Retrieve(v, c) ==
    /\ Effect("retrieve")
    /\ c \in hero[v].discard \cup Resolved(hero[v]) \/ (v = owner /\ hero[v].current = c)
    /\ hero' = [hero EXCEPT ![v] = ReturnToHand(@, c)]
    /\ EffectFrame /\ UNCHANGED <<actor, pc, due>>

\* With retrieve_all_discarded, the whole discard of a hero.
RetrieveDiscard(v) ==
    /\ Effect("retrieve") /\ hero[v].discard # {}
    /\ hero' = [hero EXCEPT ![v].hand = @ \cup hero[v].discard, ![v].discard = {}]
    /\ EffectFrame /\ UNCHANGED <<actor, pc, due>>

\* The exchanges of two cards that the texts make, of any hero: the turn card
\* with another card, a resolved card with one of the hand or with another one,
\* and any card in play with one out of play (SwapWithDeckCardStep,
\* SwapItemCardStep, whose effect on initiative is left out).
Swap(v, a, b) ==
    /\ Effect("swap") /\ pc \in {"act", "nested"} /\ a # b
    /\ LET x == hero[v]
           played == Resolved(x) \cup {x.current}
       IN  \/ a = x.current /\ b \in x.hand \cup x.discard \cup Resolved(x)
           \/ a \in Resolved(x) /\ b \in x.hand \cup Resolved(x)
           \/ v \in Growing /\ a \in x.hand \cup x.discard \cup played /\ b \in x.deck
    /\ hero' = [hero EXCEPT ![v] = SwapCards(@, a, b)]
    /\ EffectFrame /\ UNCHANGED <<actor, pc, due>>

\* Another hero performs part of the card: a defender's reaction, a forced
\* action.  SetActorStep makes it the current actor until it is done.
Nest(v) ==
    /\ Effect("nested") /\ pc = "act" /\ v # owner
    /\ pc' = "nested" /\ actor' = v
    /\ EffectFrame /\ UNCHANGED <<hero, due>>

EndNested ==
    /\ pc = "nested"
    /\ pc' = "act" /\ actor' = owner
    /\ UNCHANGED <<phase, turn, hero, plan, unresolved, board, owner, stack, coin,
                   due, upgrades, budget, owed>>

\* A card schedules a payload.
Schedule ==
    /\ Effect("schedule") /\ pc = "act"
    /\ \E when \in DOMAIN due : due' = [due EXCEPT ![when] = @ \cup {actor}]
    /\ EffectFrame /\ UNCHANGED <<hero, actor, pc>>

\* Ignatia flips the coin herself.
FlipCoin ==
    /\ Effect("flip") /\ pc = "act"
    /\ coin' = Other(coin)
    /\ UNCHANGED <<hero, unresolved, board, actor, pc, due, owed>>

EndAct ==
    /\ pc = "act" /\ pc' = "settle"
    /\ UNCHANGED <<phase, turn, hero, plan, unresolved, board, actor, owner, stack,
                   coin, due, upgrades, budget, owed>>

-----------------------------------------------------------------------------
(* The end of a hero's turn, of a turn and of a round. *)

\* FlipTieBreakerCoinStep, FinalizeHeroTurnStep, then the lane push check,
\* which may end the game.
Finalize ==
    /\ pc = "settle"
    /\ coin' = IF stack.flip THEN Other(coin) ELSE coin
    /\ hero' = [hero EXCEPT ![owner] = ResolveCurrent(@, turn)]
    /\ actor' = NoHero /\ owner' = NoHero
    /\ stack' = NoWork
    /\ owed' = owed \ {owner}
    /\ pc' \in {"next", "over"}
    /\ UNCHANGED <<phase, turn, plan, unresolved, board, due,
                   upgrades, budget>>

\* end_turn: the effects of the turn expire; payloads of expired ones follow.
EndTurn ==
    /\ pc = "next" /\ unresolved = {}
    /\ stack' = [NoWork EXCEPT !.payloads = due.turn]
    /\ due' = [due EXCEPT !.turn = {}]
    /\ pc' = "closing"
    /\ UNCHANGED <<phase, turn, hero, plan, unresolved, board, actor, owner, coin,
                   upgrades, budget, owed>>

\* Heroes with an empty hand have passed when the turn opens.
AutoPassed == [h \in Heroes |-> IF hero[h].hand = {}
                                THEN PassPlan ELSE NoPlan]

AdvanceFrame == UNCHANGED <<hero, unresolved, board, actor, owner, stack, coin, due,
                            upgrades, budget, owed>>

AdvanceTurn ==
    /\ pc = "closing" /\ phase = "RESOLUTION" /\ stack.payloads = {}
    /\ IF turn < LastTurn
       THEN /\ turn' = turn + 1 /\ phase' = "PLANNING"
            /\ plan' = AutoPassed
            /\ pc' = IF AllPlanned(plan', hero) THEN "reveal" ELSE "plan"
       ELSE phase' = "CLEANUP" /\ pc' = "end" /\ UNCHANGED <<turn, plan>>
    /\ AdvanceFrame

\* EndPhaseStep: the effects of the round expire, and the payloads of expired
\* ones run before the battle.
EndPhase ==
    /\ pc = "end"
    /\ stack' = [NoWork EXCEPT !.payloads = due.round]
    /\ due' = [due EXCEPT !.round = {}]
    /\ pc' = "closing"
    /\ UNCHANGED <<phase, turn, hero, plan, unresolved, board, actor, owner, coin,
                   upgrades, budget, owed>>

NewRound == phase' = "PLANNING" /\ pc' = "plan" /\ turn' = 1

\* EndPhaseCleanupStep after the minion battle, which may end the game: cards
\* return to hand, and the heroes that gained a level owe an upgrade.
EndPhaseCleanup ==
    /\ pc = "closing" /\ phase = "CLEANUP" /\ stack.payloads = {}
    /\ \/ pc' = "over" /\ UNCHANGED <<phase, turn, hero, upgrades>>
       \/ \E U \in SUBSET Growing :
             /\ hero' = [h \in Heroes |-> RetrieveCards(hero[h])]
             /\ upgrades' = U
             /\ IF U # {}
                THEN phase' = "LEVEL_UP" /\ pc' = "upgrade" /\ UNCHANGED turn
                ELSE NewRound
    /\ UNCHANGED <<plan, unresolved, board, actor, owner, stack, coin, due, budget,
                   owed>>

\* ResolveUpgradesStep: a card of the hand retires for one of the deck (the
\* other card of the pair becomes an item); the last upgrade pushes
\* RoundResetStep.  The upgrades of one hero are one.
Upgrade(h) ==
    /\ pc = "upgrade" /\ h \in upgrades
    /\ upgrades' = upgrades \ {h}
    /\ \/ \E a \in hero[h].hand, b \in hero[h].deck :
             hero' = [hero EXCEPT ![h] = SwapCards(@, a, b)]
       \/ hero[h].deck = {} /\ UNCHANGED hero
    /\ IF upgrades' = {} THEN NewRound ELSE UNCHANGED <<phase, pc, turn>>
    /\ UNCHANGED <<plan, unresolved, board, actor, owner, stack, coin, due, budget,
                   owed>>

\* TriggerGameOverStep clears the stack.
GameOver ==
    /\ pc = "over" /\ phase # "GAME_OVER"
    /\ phase' = "GAME_OVER" /\ stack' = NoWork
    /\ UNCHANGED <<turn, hero, plan, unresolved, board, actor, owner, pc, coin, due,
                   upgrades, budget, owed>>

-----------------------------------------------------------------------------

Init ==
    /\ phase = "PLANNING" /\ turn = 1
    /\ hero = [h \in Heroes |-> NewHero]
    /\ plan = [h \in Heroes |-> NoPlan]
    /\ unresolved = {} /\ board = Heroes
    /\ actor = NoHero /\ owner = NoHero
    /\ pc = "plan" /\ stack = NoWork
    /\ coin \in {"red", "blue"}
    /\ due = [turn |-> {}, round |-> {}, next |-> {}] /\ upgrades = {}
    /\ budget = [effects |-> MaxEffects, undo |-> MaxUndo]
    /\ owed = {}

Planning == \E h \in Heroes :
    \/ \E c \in Cards : Commit(h, c) \/ CommitSecond(h, c)
    \/ Uncommit(h) \/ FinishPlanning(h)

Opening == Reveal \/ (\E h \in Heroes : RetrieveUnresolved(h) \/ StartPayload(h))
             \/ EndPayload \/ Opened

Ordering == NextActor \/ (\E h \in Heroes : BreakTie(h)) \/ Respawn

Acting == \/ \E v \in Heroes : \/ Defeat(v) \/ Nest(v)
                               \/ RetrieveDiscard(v)
                               \/ \E c \in Cards : Discard(v, c) \/ Retrieve(v, c)
                               \/ \E a, b \in Cards : Swap(v, a, b)
          \/ Schedule \/ FlipCoin \/ EndNested \/ EndAct

Closings == Finalize \/ EndTurn \/ AdvanceTurn \/ EndPhase \/ EndPhaseCleanup
              \/ (\E h \in Heroes : Upgrade(h)) \/ GameOver

Next == Planning \/ Opening \/ Ordering \/ Acting \/ Closings

Spec == Init /\ [][Next]_vars

\* Players, or the table's clock in their place, plan and answer; the engine
\* runs.
Fairness ==
    /\ \A h \in Heroes : WF_vars(\E c \in Cards : Commit(h, c))
                         /\ WF_vars(OpenForSecond(plan[h], hero[h], h) /\ FinishPlanning(h))
    /\ WF_vars(Opening) /\ WF_vars(Ordering) /\ WF_vars(EndNested \/ EndAct)
    /\ WF_vars(Closings)

FairSpec == Spec /\ Fairness

-----------------------------------------------------------------------------
(* Properties. *)

TypeOK ==
    /\ phase \in {"PLANNING", "RESOLUTION", "CLEANUP", "LEVEL_UP", "GAME_OVER"}
    /\ turn \in Slots
    /\ hero \in [Heroes -> Hero] /\ plan \in [Heroes -> Plan]
    /\ unresolved \subseteq Heroes /\ board \subseteq Heroes
    /\ actor \in Heroes \cup {NoHero} /\ owner \in Heroes \cup {NoHero}
    /\ pc \in {"plan", "reveal", "opening", "trigger", "next", "tie", "respawn", "act",
               "nested", "settle", "closing", "finishing", "end", "upgrade", "over",
               "idle"}
    /\ stack \in [dual : SUBSET Heroes, payloads : SUBSET Heroes,
                  tied : SUBSET Heroes, flip : BOOLEAN]
    /\ coin \in {"red", "blue"}
    /\ due \in [turn : SUBSET Heroes, round : SUBSET Heroes, next : SUBSET Heroes]
    /\ upgrades \subseteq Heroes
    /\ budget \in [effects : 0 .. MaxEffects, undo : 0 .. MaxUndo]
    /\ owed \subseteq Heroes

\* Until the game is over somebody can go on.  In Resolution the stack never
\* runs empty with heroes still to act (resolve_next_action's silent return) and
\* what runs belongs to a hero; a tie has a hero who may win it; in planning
\* somebody has still to plan, and whoever has not yet holds a card for it; while
\* the table upgrades somebody owes an upgrade.
NeverStuck ==
    /\ pc # "idle"
    /\ pc \in {"respawn", "act", "nested", "settle"} => owner \in Heroes
    /\ pc = "tie" => Favoured # {}
    /\ pc = "plan" => /\ ~ AllPlanned(plan, hero)
                      /\ \A h \in Heroes : Pending(plan[h]) \/ hero[h].hand # {}
    /\ pc = "upgrade" => upgrades # {}

\* Commits, takebacks, reveals, discards, retrievals, exchanges, defeats, upgrades
\* and the ends of turns and rounds lose no card and duplicate none: every card
\* is in exactly one place, in play or out of it.
PlayedAs(h) ==
    IF phase = "PLANNING" THEN <<plan[h].first, plan[h].second>>
    ELSE <<hero[h].current, hero[h].extra>>

CardsConserved ==
    \A h \in Heroes : \A c \in Cards :
        LET x == hero[h] IN
        Cardinality(x.hand \cap {c})
          + Cardinality(x.discard \cap {c})
          + Cardinality(x.deck \cap {c})
          + Cardinality({t \in Slots : x.slots[t] = c})
          + Cardinality({i \in {1, 2} : PlayedAs(h)[i] = c}) = 1

\* When a turn opens, every hero has used exactly one slot per turn played:
\* passing, acting and falling all fill it, and none fills it twice.
SlotPerTurn == phase = "PLANNING" => \A h \in Heroes : hero[h].count = turn - 1

\* When the turn closes, every hero that committed a card has acted or fallen.
CommitsAreHonoured == pc = "closing" => owed = {}

\* A round that opens comes to its end.
RoundsEnd == phase = "PLANNING" /\ turn = 1 ~> phase \in {"CLEANUP", "GAME_OVER"}
=============================================================================
