------------------------------ MODULE Loadouts ------------------------------
(***************************************************************************)
(* The cards of a hero between rounds and during planning: levels and      *)
(* upgrades, what the other players see of them, what they can infer, and  *)
(* the worlds a searching bot samples for what it does not see.            *)
(*                                                                         *)
(* A hero has one active card of each colour. A basic is of tier 0; tier I *)
(* has one card of a colour, tiers II and III have a pair each: one becomes *)
(* active, the other is tucked as an item. A hero is a record:             *)
(*   level, gold, pending   its level, its gold, the upgrades it may pick  *)
(*   item                   the stat each card of a pair gives as an item  *)
(*   cards, at, down        per colour the active card and its place, and  *)
(*                          the colours whose card lies face down          *)
(*   tucked, items          the cards tucked, the items by stat            *)
(*   shown                  the items the others see, if not the true ones *)
(*   standard               does it follow the rules of upgrades to the    *)
(*                          letter (all but three heroes do)?              *)
(***************************************************************************)
EXTENDS Integers, FiniteSets

Colors == {"RED", "BLUE", "GREEN"}
Basics == {"GOLD", "SILVER"}
Slots  == {"slot1", "slot2", "slot3", "slot4"}
Stats  == {"ATTACK", "DEFENSE", "MOVEMENT"}

TierI(c) == [color |-> c, tier |-> 1, side |-> 1]
Upgrades == [color : Colors, tier : {2, 3}, side : {1, 2}]
Card     == {[color |-> c, tier |-> 0, side |-> 1] : c \in Basics}
            \cup {TierI(c) : c \in Colors} \cup Upgrades
Pair(c)  == [c EXCEPT !.side = 3 - c.side]

Lies(h, place) == {c \in Colors \cup Basics : h.at[c] = place}
AreActive(h, colors) == {h.cards[c] : c \in colors}
InDeck(h) == {u \in Upgrades \ h.tucked : u.tier > h.cards[u.color].tier}

-----------------------------------------------------------------------------
(* Levels and upgrades. *)

\* Level n costs n - 1.
LevelCost(from, to) == (to * (to - 1) - from * (from - 1)) \div 2

\* A hero buys every level it can pay for; one that buys none gets a coin. The
\* eighth unlocks the ultimate, each of the others is worth an upgrade.
LevelUp(h) ==
    LET l == CHOOSE n \in h.level .. 8 :
                 /\ LevelCost(h.level, n) <= h.gold
                 /\ n = 8 \/ LevelCost(h.level, n + 1) > h.gold
        earned == Cardinality((h.level + 1 .. l) \cap (2 .. 7))
    IN  [h EXCEPT !.level = l, !.pending = earned,
                  !.gold = @ - LevelCost(h.level, l) + (IF l = h.level THEN 1 ELSE 0),
                  !.shown = IF earned > 0 THEN {h.items} ELSE {}]

\* Offered are the pairs one tier above the lowest card in hand.
Options(h) ==
    LET held == Colors \cap Lies(h, "hand")
    IN  {u \in Upgrades :
            /\ u.color \in held /\ u.tier = h.cards[u.color].tier + 1
            /\ \A c \in held : h.cards[u.color].tier <= h.cards[c].tier
            /\ {u, Pair(u)} \subseteq InDeck(h)}

ApplyUpgrade(h, u) ==
    [h EXCEPT !.cards[u.color] = u, !.tucked = @ \cup {Pair(u)},
              !.items[h.item[Pair(u)]] = @ + 1, !.pending = @ - 1]

\* Hero x of a table answers the simultaneous prompt; a choice that is not
\* offered is ignored. The items become public when nobody is left to choose.
ResolveUpgrade(table, x, u) ==
    LET legal == table[x].pending > 0 /\ u \in Options(table[x])
        after == IF legal THEN [table EXCEPT ![x] = ApplyUpgrade(@, u)] ELSE table
    IN  IF \E y \in DOMAIN after : after[y].pending > 0 THEN after
        ELSE [y \in DOMAIN after |-> [after[y] EXCEPT !.shown = {}]]

-----------------------------------------------------------------------------
(* What the other players see. *)

Blank == [color |-> "none", tier |-> 0, side |-> 0]

\* A card face down in a slot or in the discard pile is blank for everybody,
\* its owner included; a committed card is blank for everybody else.
Outside(h, c) == IF c \in h.down THEN Blank ELSE h.cards[c]

View(h) ==
    [level     |-> h.level,
     gold      |-> h.gold,
     items     |-> IF h.shown = {} THEN h.items ELSE CHOOSE i \in h.shown : TRUE,
     hand_size |-> Cardinality(Lies(h, "hand")),
     played    |-> [s \in Slots |-> {Outside(h, c) : c \in Lies(h, s)}],
     discard   |-> [c \in Lies(h, "discard") \ h.down |-> h.cards[c]],
     facedown  |-> Cardinality(Lies(h, "discard") \cap h.down),
     commits   |-> [p \in {"first", "second"} |-> {Blank : c \in Lies(h, p)}]]

\* May a message beside the view name this card to its owner, to the others?
CardVisible(h, card, own) ==
    LET place == IF card = h.cards[card.color] THEN h.at[card.color] ELSE "deck"
    IN  IF place \in Slots \cup {"discard"} THEN card.color \notin h.down ELSE own

-----------------------------------------------------------------------------
(* What can be inferred: loadouts, the active cards and the tucked ones. *)

Rises(l) ==
    {[cards |-> [l.cards EXCEPT ![u.color] = u], tucked |-> l.tucked \cup {Pair(u)}] :
        u \in {v \in Upgrades :
                  /\ v.tier = l.cards[v.color].tier + 1
                  /\ \A c \in Colors : l.cards[v.color].tier <= l.cards[c].tier}}

\* The loadouts after so many upgrades.
Ordinary ==
    LET after[n \in 0 .. 6] ==
            IF n = 0 THEN {[cards |-> [c \in Colors |-> TierI(c)], tucked |-> {}]}
                     ELSE UNION {Rises(l) : l \in after[n - 1]}
    IN  [n \in 0 .. 6 |-> after[n]]

ItemCounts(item, cards) == [s \in Stats |-> Cardinality({c \in cards : item[c] = s})]

\* A revealed card of tier III is active; one of tier II was chosen once.
MatchesReveals(l, revealed) ==
    \A u \in revealed \cap Upgrades :
        IF u.tier = 3 THEN l.cards[u.color] = u ELSE Pair(u) \in l.tucked

Static(h, revealed) ==
    {l \in Ordinary[IF h.level > 7 THEN 6 ELSE h.level - 1] : MatchesReveals(l, revealed)}

Hypotheses(h, revealed) ==
    {l \in Static(h, revealed) : ItemCounts(h.item, l.tucked) = h.items}

\* What a viewer is told of a hero's upgrades.
KnowledgeStatus(h, own, revealed) ==
    CASE own /\ h.pending = 0 -> "EXACT"
      [] own /\ h.pending > 0 -> "UNAVAILABLE"
      [] ~own /\ ~h.standard  -> "UNAVAILABLE"
      [] OTHER -> IF Hypotheses(h, revealed) = {} THEN "INCONSISTENT" ELSE "INFERRED"

-----------------------------------------------------------------------------
(* Sampled worlds. *)

\* Loadouts that match the items; or else fit within them, for some items come
\* from effects; or else match the reveals only.
Candidates(h, revealed) ==
    LET within == {l \in Static(h, revealed) : \A s \in Stats :
                       ItemCounts(h.item, l.tucked)[s] <= h.items[s]}
    IN  IF ~h.standard THEN Static(h, {})
        ELSE IF Hypotheses(h, revealed) # {} THEN Hypotheses(h, revealed)
        ELSE IF within # {} THEN within ELSE Static(h, revealed)

\* A card that stays active stays where it is; the others come to the hand.
ApplyHypothesis(h, l) ==
    [h EXCEPT !.tucked = l.tucked, !.down = @ \ Colors,
              !.cards = [c \in Colors \cup Basics |->
                            IF c \in Colors THEN l.cards[c] ELSE @[c]],
              !.at = [c \in Colors \cup Basics |->
                         IF c \in Colors /\ l.cards[c] # h.cards[c] THEN "hand" ELSE @[c]]]

TakeBack(h) ==
    [h EXCEPT !.at = [c \in Colors \cup Basics |->
                         IF @[c] \in {"first", "second"} THEN "hand" ELSE @[c]]]

\* Commit any card of the hand to each of the places.
Recommit(h, first, second) ==
    LET Put(g, p) == {[g EXCEPT !.at[c] = p] : c \in Lies(g, "hand")}
        once == IF first THEN Put(h, "first") ELSE {h}
    IN  IF second THEN UNION {Put(g, "second") : g \in once} ELSE once

\* The worlds of a drawn loadout: the commits are taken back, and as many cards
\* of the new hand are committed.
Deal(h, l) ==
    Recommit(ApplyHypothesis(TakeBack(h), l), Lies(h, "first") # {}, Lies(h, "second") # {})

\* The samples of a hero who is not the one who searches.
DeterminizeHero(h, revealed) ==
    LET candidates == Candidates(h, revealed)
    IN  IF candidates # {} THEN UNION {Deal(h, l) : l \in candidates}
        ELSE Recommit(TakeBack(h), Lies(h, "first") # {}, Lies(h, "second") # {})
=============================================================================
