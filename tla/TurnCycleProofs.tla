--------------------------- MODULE TurnCycleProofs ---------------------------
(***************************************************************************)
(* For any heroes, cards, decks, items and length of a round: no card is   *)
(* lost or duplicated, no turn skips or repeats a slot, a committed card   *)
(* is played or falls with its hero, and no step of the engine waits for   *)
(* somebody who is not there.                                              *)
(***************************************************************************)
EXTENDS TurnCycle, FiniteSetTheorems, TLAPS

\* The cards of the hand, the discard and the deck.
Heaped(x) == x.hand \cup x.discard \cup x.deck

\* These three, the slots and the cards committed or revealed (p, q) are disjoint
\* and leave no card out; not all the cards are out of play.
Once(x, p, q) ==
    /\ x.hand \cap x.discard = {} /\ x.hand \cap x.deck = {}
    /\ x.discard \cap x.deck = {} /\ x.deck # Cards
    /\ \A t \in Slots : x.slots[t] # NoCard =>
          /\ x.slots[t] \notin Heaped(x) \cup {p, q}
          /\ \A s \in Slots : x.slots[s] = x.slots[t] => s = t
    /\ p # NoCard => p \notin Heaped(x) \cup {q}
    /\ q # NoCard => q \notin Heaped(x) \cup {p}
    /\ \A c \in Cards : \/ c \in Heaped(x) \cup {p, q}
                        \/ \E t \in Slots : x.slots[t] = c

EmptyFrom(x, n) == \A t \in Slots : t >= n => x.slots[t] = NoCard

\* While turn n is planned, the plan of a hero says what it has committed, and
\* it holds a card while it has still to plan.
Planned(x, p, n) ==
    /\ Once(x, p.first, p.second)
    /\ x.extra = NoCard
    /\ x.current = IF p.second # NoCard THEN p.second ELSE p.first
    /\ p.second # NoCard => p.first # NoCard
    /\ p.passed => p.first = NoCard
    /\ x.count = n - 1 /\ EmptyFrom(x, n)
    /\ Pending(p) \/ x.hand # {}

\* While turn n is played, its slot is free for the card the hero still holds.
Revealed(x, n) ==
    /\ x.count \in {n - 1, n} /\ EmptyFrom(x, n + 1)
    /\ x.current # NoCard => x.slots[n] = NoCard

\* Between two rounds a hero has all its cards in play in hand.
AtRest(x) ==
    /\ Once(x, NoCard, NoCard) /\ x.current = NoCard /\ x.extra = NoCard
    /\ x.discard = {} /\ x.count = 0 /\ EmptyFrom(x, 1)

Waiting == unresolved \cup {owner}

\* Where a hero's cards are in each phase.
CardsFit(h) ==
    /\ phase = "PLANNING" => /\ Planned(hero[h], plan[h], turn)
                             /\ plan[h].second # NoCard => h \in TwoCard
    /\ phase # "PLANNING" =>
          Once(hero[h], hero[h].current, hero[h].extra) /\ plan[h] = NoPlan
    /\ phase \in {"RESOLUTION", "CLEANUP"} =>
          /\ Revealed(hero[h], turn)
          /\ h \in unresolved => hero[h].current # NoCard
          /\ h \notin Waiting => hero[h].current = NoCard /\ hero[h].count = turn
    /\ phase # "PLANNING" => (hero[h].extra # NoCard <=> h \in stack.dual)
    /\ phase = "LEVEL_UP" => AtRest(hero[h])

AllCardsFit == \A h \in Heroes : CardsFit(h)

Owned == {"respawn", "act", "nested", "settle"}

\* What the top of the stack is about to do belongs to the phase, and planning
\* and upgrading stop with the last of the heroes.
PcFits ==
    /\ phase = "PLANNING" <=> pc \in {"plan", "reveal"}
    /\ pc \in Owned \cup {"opening", "trigger", "next", "tie"} => phase = "RESOLUTION"
    /\ pc \in {"closing", "finishing"} => phase \in {"RESOLUTION", "CLEANUP"}
    /\ pc = "end" => phase = "CLEANUP"
    /\ pc = "upgrade" => phase = "LEVEL_UP" /\ upgrades # {}
    /\ pc = "plan" => ~ AllPlanned(plan, hero)
    /\ pc = "reveal" => \A h \in Heroes : Pending(plan[h])
    /\ pc # "idle"

\* Who plays: the owner is out of the pool, and nobody is left when a turn
\* closes.
PoolFits ==
    /\ pc \in Owned => owner \in Heroes
    /\ pc \notin Owned \cup {"over"} => owner = NoHero
    /\ pc \in {"respawn", "act", "nested"} => actor \in Heroes
    /\ owner \notin unresolved
    /\ pc \in {"closing", "finishing", "end"} => unresolved = {}
    /\ pc = "tie" => stack.tied \subseteq unresolved /\ stack.tied # {}
    /\ stack.dual \subseteq unresolved /\ (stack.dual # {} => pc = "opening")

\* Who is owed a turn plays, or waits.
StoryFits == owed \subseteq Waiting

IInv == TypeOK /\ PcFits /\ PoolFits /\ StoryFits /\ AllCardsFit

-----------------------------------------------------------------------------
(* What the operators on a hero's cards do to them. *)

LEMMA Constants == /\ NoCard \notin Cards /\ NoHero \notin Heroes /\ Heroes # {}
                   /\ LastTurn \in Nat \ {0} /\ 1 \in Slots
                   /\ Cards \subseteq Nat /\ Slots \subseteq Nat
BY TurnAssumption DEF NoCard, Slots

\* A card leaves the hand and is committed.
LEMMA PlayCardKeeps ==
    ASSUME NEW x \in Hero, NEW p, NEW c \in Cards, c \in x.hand, Once(x, p, NoCard)
    PROVE  LET y == PlayCard(x, c)
           IN  /\ y \in Hero /\ y.slots = x.slots /\ y.count = x.count
               /\ y.extra = x.extra /\ y.current = c
               /\ Once(y, p, c) /\ (p = NoCard => Once(y, c, NoCard))
<1>. DEFINE y == PlayCard(x, c)
<1>1. /\ y.hand = x.hand \ {c} /\ y.current = c /\ y.extra = x.extra
      /\ y.slots = x.slots /\ y.count = x.count /\ y.discard = x.discard
      /\ y.deck = x.deck /\ y \in Hero
  BY DEF PlayCard, Hero
<1>2. Once(y, p, c) /\ (p = NoCard => Once(y, c, NoCard))
  BY <1>1, Constants DEF Once, Heaped, Hero
<1>. QED BY <1>1, <1>2

\* A committed card goes back to the hand, the last one first.
LEMMA UncommitKeeps ==
    ASSUME NEW x \in Hero, NEW p \in Plan, p.first # NoCard, Once(x, p.first, p.second)
    PROVE  LET y == UncommittedHero(x, p)
           IN  /\ y \in Hero /\ y.slots = x.slots /\ y.count = x.count
               /\ y.extra = x.extra /\ y.hand # {}
               /\ p.second # NoCard => y.current = p.first /\ Once(y, p.first, NoCard)
               /\ p.second = NoCard => y.current = NoCard /\ Once(y, NoCard, NoCard)
<1>. DEFINE y == UncommittedHero(x, p)
            back == IF p.second # NoCard THEN p.second ELSE p.first
<1>1. /\ y.hand = x.hand \cup {back}
      /\ y.current = IF p.second # NoCard THEN p.first ELSE NoCard
      /\ y.extra = x.extra /\ y.slots = x.slots /\ y.count = x.count
      /\ y.discard = x.discard /\ y.deck = x.deck /\ y \in Hero
  BY DEF UncommittedHero, Hero, Plan
<1>2. back \in Cards
  BY DEF Plan
<1>3. /\ p.second # NoCard => Once(y, p.first, NoCard)
      /\ p.second = NoCard => Once(y, NoCard, NoCard)
  BY <1>1, <1>2, Constants DEF Once, Heaped, Hero, Plan
<1>. QED BY <1>1, <1>3

\* A hero's turn ends: the card it holds, if any, takes the turn's free slot.
LEMMA ResolveKeeps ==
    ASSUME NEW x \in Hero, NEW q, NEW t \in Slots, Once(x, x.current, q),
           Revealed(x, t)
    PROVE  LET y == ResolveCurrent(x, t)
           IN  /\ y \in Hero /\ y.current = NoCard /\ y.extra = x.extra
               /\ y.count = t /\ Once(y, NoCard, q) /\ Revealed(y, t)
<1>. DEFINE y == ResolveCurrent(x, t)
<1>1. /\ y.hand = x.hand /\ y.discard = x.discard /\ y.deck = x.deck
      /\ y.extra = x.extra
      /\ y.current = NoCard
      /\ y.slots = [x.slots EXCEPT ![t] = IF x.current # NoCard THEN x.current ELSE @]
      /\ y.count = (IF t > x.count THEN t ELSE x.count)
  BY DEF ResolveCurrent, Hero
<1>2. x.slots \in [Slots -> Cards \cup {NoCard}] /\ x.count \in 0 .. LastTurn
      /\ x.current \in Cards \cup {NoCard} /\ t \in 1 .. LastTurn
  BY DEF Hero, Slots
<1>3. y.count = t /\ y.count \in 0 .. LastTurn
  BY <1>1, <1>2, Constants DEF Revealed
<1>4. y.slots \in [Slots -> Cards \cup {NoCard}]
  BY <1>1, <1>2
<1>5. y \in Hero
  BY <1>1, <1>3, <1>4 DEF ResolveCurrent, Hero
<1>6. /\ \A s \in Slots \ {t} : y.slots[s] = x.slots[s]
      /\ x.current # NoCard => y.slots[t] = x.current /\ x.slots[t] = NoCard
      /\ x.current = NoCard => y.slots[t] = x.slots[t]
  BY <1>1, <1>2 DEF Revealed
<1>7. Once(y, NoCard, q)
  BY <1>1, <1>2, <1>6, Constants DEF Once, Heaped
<1>8. Revealed(y, t)
  BY <1>1, <1>2, <1>3, <1>6, Constants DEF Revealed, EmptyFrom
<1>. QED BY <1>1, <1>3, <1>5, <1>7, <1>8

\* Of two revealed cards one is kept, the other goes back to the hand.
LEMMA KeepCardKeeps ==
    ASSUME NEW x \in Hero, NEW kept \in {x.current, x.extra},
           x.current # NoCard, x.extra # NoCard, Once(x, x.current, x.extra)
    PROVE  LET y == KeepCard(x, kept)
           IN  /\ y \in Hero /\ y.slots = x.slots /\ y.count = x.count
               /\ y.extra = NoCard /\ y.current # NoCard
               /\ Once(y, y.current, NoCard)
<1>. DEFINE y == KeepCard(x, kept)
            back == IF kept = x.current THEN x.extra ELSE x.current
<1>1. /\ y.hand = x.hand \cup {back} /\ y.current = kept /\ y.extra = NoCard
      /\ y.slots = x.slots /\ y.count = x.count /\ y.discard = x.discard
      /\ y.deck = x.deck
  BY DEF KeepCard, Hero
<1>2. back \in Cards /\ kept \in Cards
  BY DEF Hero
<1>3. y \in Hero
  BY <1>2 DEF KeepCard, Hero
<1>4. Once(y, kept, NoCard)
  BY <1>1, <1>2, Constants DEF Once, Heaped, Hero
<1>. QED BY <1>1, <1>2, <1>3, <1>4, Constants


\* A card goes to the discard, from the hand or from the played area.
LEMMA DiscardKeeps ==
    ASSUME NEW x \in Hero, NEW n \in Slots, NEW c \in Cards,
           c \in x.hand \cup Resolved(x) \cup {x.current}, x.extra = NoCard,
           Once(x, x.current, NoCard), Revealed(x, n)
    PROVE  LET y == DiscardCard(x, c)
           IN  /\ y \in Hero /\ y.count = x.count /\ y.extra = NoCard
               /\ y.current = (IF x.current = c THEN NoCard ELSE x.current)
               /\ Once(y, y.current, NoCard) /\ Revealed(y, n)
<1>. DEFINE y == DiscardCard(x, c)
<1>1. /\ y.hand = x.hand \ {c} /\ y.discard = x.discard \cup {c} /\ y.deck = x.deck
      /\ y.current = (IF x.current = c THEN NoCard ELSE x.current)
      /\ y.extra = x.extra /\ y.count = x.count
      /\ y.slots = [t \in Slots |-> IF x.slots[t] = c THEN NoCard ELSE x.slots[t]]
  BY DEF DiscardCard, Cleared, Hero
<1>2. x.slots \in [Slots -> Cards \cup {NoCard}] /\ c \notin x.deck \cup x.discard
  BY Constants DEF Hero, Once, Heaped, Resolved
<1>3. y.slots \in [Slots -> Cards \cup {NoCard}]
  BY <1>1, <1>2
<1>4. y \in Hero
  BY <1>3, <1>1 DEF DiscardCard, Hero
<1>5. Once(y, y.current, NoCard)
  BY <1>1, <1>2, Constants DEF Once, Heaped
<1>6. Revealed(y, n)
  BY <1>1, <1>2 DEF Revealed, EmptyFrom
<1>. QED BY <1>1, <1>4, <1>5, <1>6

\* A discarded or played card returns to the hand.
LEMMA ReturnKeeps ==
    ASSUME NEW x \in Hero, NEW n \in Slots, NEW c \in Cards,
           c \in x.discard \cup Resolved(x) \cup {x.current}, x.extra = NoCard,
           Once(x, x.current, NoCard), Revealed(x, n)
    PROVE  LET y == ReturnToHand(x, c)
           IN  /\ y \in Hero /\ y.count = x.count /\ y.extra = NoCard
               /\ y.current = (IF x.current = c THEN NoCard ELSE x.current)
               /\ Once(y, y.current, NoCard) /\ Revealed(y, n)
<1>. DEFINE y == ReturnToHand(x, c)
<1>1. /\ y.hand = x.hand \cup {c} /\ y.discard = x.discard \ {c} /\ y.deck = x.deck
      /\ y.current = (IF x.current = c THEN NoCard ELSE x.current)
      /\ y.extra = x.extra /\ y.count = x.count
      /\ y.slots = [t \in Slots |-> IF x.slots[t] = c THEN NoCard ELSE x.slots[t]]
  BY DEF ReturnToHand, Cleared, Hero
<1>2. x.slots \in [Slots -> Cards \cup {NoCard}] /\ c \notin x.deck \cup x.hand
  BY Constants DEF Hero, Once, Heaped, Resolved
<1>3. y.slots \in [Slots -> Cards \cup {NoCard}]
  BY <1>1, <1>2
<1>4. y \in Hero
  BY <1>3, <1>1 DEF ReturnToHand, Hero
<1>5. Once(y, y.current, NoCard)
  BY <1>1, <1>2, Constants DEF Once, Heaped
<1>6. Revealed(y, n)
  BY <1>1, <1>2 DEF Revealed, EmptyFrom
<1>. QED BY <1>1, <1>4, <1>5, <1>6

\* The whole discard returns to the hand.
LEMMA ReturnAllKeeps ==
    ASSUME NEW x \in Hero, NEW n \in Slots, x.extra = NoCard,
           Once(x, x.current, NoCard), Revealed(x, n)
    PROVE  LET y == [x EXCEPT !.hand = x.hand \cup x.discard, !.discard = {}]
           IN  /\ y \in Hero /\ y.count = x.count /\ y.extra = NoCard
               /\ y.current = x.current
               /\ Once(y, y.current, NoCard) /\ Revealed(y, n)
<1>. DEFINE y == [x EXCEPT !.hand = x.hand \cup x.discard, !.discard = {}]
<1>1. /\ y.hand = x.hand \cup x.discard /\ y.discard = {} /\ y.deck = x.deck
      /\ y.current = x.current /\ y.extra = x.extra /\ y.count = x.count
      /\ y.slots = x.slots /\ y \in Hero
  BY DEF Hero
<1>2. Once(y, y.current, NoCard)
  BY <1>1 DEF Once, Heaped
<1>3. Revealed(y, n)
  BY <1>1 DEF Revealed, EmptyFrom
<1>. QED BY <1>1, <1>2, <1>3

\* Two cards change places: the exchange undoes itself, and knows only cards.
LEMMA Swapping ==
    ASSUME NEW a \in Cards, NEW b \in Cards
    PROVE  /\ \A c : Swapped(a, b, Swapped(a, b, c)) = c
           /\ \A c : Swapped(a, b, c) \in Cards <=> c \in Cards
           /\ \A c : Swapped(a, b, c) = NoCard <=> c = NoCard
BY Constants DEF Swapped

\* Two cards of a hero change places, wherever they are.
LEMMA SwapKeeps ==
    ASSUME NEW x \in Hero, NEW a \in Cards, NEW b \in Cards, x.extra = NoCard,
           Once(x, x.current, NoCard)
    PROVE  LET y == SwapCards(x, a, b)
           IN  /\ y \in Hero /\ y.count = x.count /\ y.extra = NoCard
               /\ y.current = NoCard <=> x.current = NoCard
               /\ Once(y, y.current, NoCard)
               /\ \A n \in Slots : Revealed(x, n) => Revealed(y, n)
               /\ AtRest(x) => AtRest(y)
<1>. DEFINE y == SwapCards(x, a, b)
            sw(c) == Swapped(a, b, c)
<1>0. /\ \A c : sw(sw(c)) = c
      /\ \A c : sw(c) \in Cards <=> c \in Cards
      /\ \A c : sw(c) = NoCard <=> c = NoCard
  BY Swapping
<1>1. /\ y.hand = {sw(c) : c \in x.hand} /\ y.discard = {sw(c) : c \in x.discard}
      /\ y.deck = {sw(c) : c \in x.deck} /\ y.current = sw(x.current)
      /\ y.extra = x.extra /\ y.count = x.count
      /\ y.slots = [t \in Slots |-> sw(x.slots[t])]
  BY DEF SwapCards, Hero
<1>2. /\ x.slots \in [Slots -> Cards \cup {NoCard}]
      /\ x.hand \subseteq Cards /\ x.discard \subseteq Cards /\ x.deck \subseteq Cards
      /\ x.current \in Cards \cup {NoCard}
  BY DEF Hero
<1>. HIDE DEF sw
<1>3. /\ \A c : c \in y.hand <=> sw(c) \in x.hand
      /\ \A c : c \in y.discard <=> sw(c) \in x.discard
      /\ \A c : c \in y.deck <=> sw(c) \in x.deck
  <2>1. ASSUME NEW S, NEW c PROVE c \in {sw(d) : d \in S} <=> sw(c) \in S
    <3>1. sw(c) \in S => sw(sw(c)) \in {sw(d) : d \in S}
      OBVIOUS
    <3>2. ASSUME NEW d \in S, c = sw(d) PROVE sw(c) \in S
      BY <1>0, <3>2
    <3>. QED BY <1>0, <3>1, <3>2
  <2>. QED BY <1>1, <2>1
<1>4. y \in Hero
  <2>1. y.slots \in [Slots -> Cards \cup {NoCard}]
    BY <1>0, <1>1, <1>2
  <2>2. /\ y.hand \in SUBSET Cards /\ y.discard \in SUBSET Cards
        /\ y.deck \in SUBSET Cards /\ y.current \in Cards \cup {NoCard}
    BY <1>0, <1>1, <1>2
  <2>3. \A h, d, k \in SUBSET Cards, c \in Cards \cup {NoCard},
           s \in [Slots -> Cards \cup {NoCard}] :
           [x EXCEPT !.hand = h, !.discard = d, !.deck = k, !.current = c, !.slots = s]
              \in Hero
    BY DEF Hero
  <2>4. y = [x EXCEPT !.hand = y.hand, !.discard = y.discard, !.deck = y.deck,
                      !.current = y.current, !.slots = y.slots]
    BY DEF SwapCards, Hero
  <2>5. [x EXCEPT !.hand = y.hand, !.discard = y.discard, !.deck = y.deck,
                  !.current = y.current, !.slots = y.slots] \in Hero
    <3>. HIDE DEF y
    <3>. QED BY <2>1, <2>2, <2>3
  <2>. QED BY <2>4, <2>5, Zenon
<1>. HIDE DEF y
<1>5. Once(y, y.current, NoCard)
  <2>1. /\ y.hand \cap y.discard = {} /\ y.hand \cap y.deck = {}
        /\ y.discard \cap y.deck = {}
    BY <1>3 DEF Once
  <2>2. y.deck # Cards
    <3>1. PICK d \in Cards : d \notin x.deck
      BY <1>2 DEF Once
    <3>2. sw(d) \in Cards /\ sw(d) \notin y.deck
      BY <1>0, <1>3, <3>1
    <3>. QED BY <3>2
  <2>3. \A c : c \in Heaped(y) <=> sw(c) \in Heaped(x)
    BY <1>3 DEF Heaped
  <2>4. ASSUME NEW t \in Slots, y.slots[t] # NoCard
        PROVE  /\ y.slots[t] \notin Heaped(y) \cup {y.current, NoCard}
               /\ \A s \in Slots : y.slots[s] = y.slots[t] => s = t
    <3>1. x.slots[t] # NoCard /\ y.slots[t] = sw(x.slots[t]) /\ sw(y.slots[t]) = x.slots[t]
      BY <1>0, <1>1, <2>4
    <3>2. y.slots[t] \notin Heaped(y)
      BY <2>3, <3>1 DEF Once
    <3>3. y.slots[t] # y.current
      <4>1. sw(y.current) = x.current
        BY <1>0, <1>1
      <4>. QED BY <3>1, <4>1 DEF Once
    <3>4. ASSUME NEW s \in Slots, y.slots[s] = y.slots[t] PROVE s = t
      <4>1. sw(y.slots[s]) = x.slots[s]
        BY <1>0, <1>1
      <4>. QED BY <3>1, <3>4, <4>1 DEF Once
    <3>. QED BY <2>4, <3>2, <3>3, <3>4
  <2>5. y.current # NoCard => y.current \notin Heaped(y)
    <3>1. sw(y.current) = x.current /\ (y.current = NoCard <=> x.current = NoCard)
      BY <1>0, <1>1
    <3>. QED BY <2>3, <3>1 DEF Once
  <2>6. ASSUME NEW c \in Cards
        PROVE  c \in Heaped(y) \cup {y.current, NoCard} \/ \E t \in Slots : y.slots[t] = c
    <3>1. sw(c) \in Cards /\ sw(c) # NoCard
      BY <1>0, Constants
    <3>2. sw(c) \in Heaped(x) \/ sw(c) = x.current \/ \E t \in Slots : x.slots[t] = sw(c)
      BY <3>1 DEF Once
    <3>3. CASE sw(c) \in Heaped(x)
      BY <2>3, <3>3
    <3>4. CASE sw(c) = x.current
      BY <1>0, <1>1, <3>4
    <3>5. ASSUME NEW t \in Slots, x.slots[t] = sw(c) PROVE y.slots[t] = c
      BY <1>0, <1>1, <3>5
    <3>. QED BY <3>2, <3>3, <3>4, <3>5
  <2>. QED BY <2>1, <2>2, <2>4, <2>5, <2>6 DEF Once
<1>6. \A t \in Slots : y.slots[t] = NoCard <=> x.slots[t] = NoCard
  BY <1>0, <1>1
<1>7. y.current = NoCard <=> x.current = NoCard
  BY <1>0, <1>1
<1>8. ASSUME NEW n \in Slots, Revealed(x, n) PROVE Revealed(y, n)
  BY <1>1, <1>6, <1>7, <1>8 DEF Revealed, EmptyFrom
<1>9. ASSUME AtRest(x) PROVE AtRest(y)
  <2>1. y.discard = {} /\ y.current = NoCard /\ y.count = 0 /\ y.extra = NoCard
    BY <1>1, <1>3, <1>7, <1>9 DEF AtRest
  <2>. QED BY <1>5, <1>6, <1>9, <2>1 DEF AtRest, EmptyFrom
<1>. QED BY <1>1, <1>4, <1>5, <1>7, <1>8, <1>9 DEF y

\* At the end of a round the cards in play return to the hand.
LEMMA RetrieveAll ==
    ASSUME NEW x \in Hero, x.extra = NoCard, Once(x, x.current, NoCard)
    PROVE  RetrieveCards(x) \in Hero /\ AtRest(RetrieveCards(x))
<1>. DEFINE y == RetrieveCards(x)
<1>1. /\ x.hand \subseteq Cards /\ x.discard \subseteq Cards /\ x.deck \subseteq Cards
      /\ x.current \in Cards \cup {NoCard}
      /\ x.slots \in [Slots -> Cards \cup {NoCard}]
  BY DEF Hero
<1>2. /\ y.hand = (x.hand \cup x.discard \cup {x.slots[t] : t \in Slots}
                     \cup {x.current}) \ {NoCard}
      /\ y.discard = {} /\ y.current = NoCard /\ y.count = 0 /\ y.extra = x.extra
      /\ y.slots = [t \in Slots |-> NoCard] /\ y.deck = x.deck
  BY DEF RetrieveCards, Hero
<1>3. y \in Hero
  <2>1. y.hand \subseteq Cards /\ y.slots \in [Slots -> Cards \cup {NoCard}]
        /\ 0 \in 0 .. LastTurn
    BY <1>1, <1>2, Constants
  <2>. QED BY <1>2, <2>1 DEF RetrieveCards, Hero
<1>4. Once(y, NoCard, NoCard)
  <2>1. y.hand \cap y.deck = {} /\ y.deck # Cards
    BY <1>1, <1>2 DEF Once, Heaped
  <2>2. ASSUME NEW c \in Cards PROVE c \in y.hand \cup y.deck
    <3>1. c # NoCard
      BY Constants
    <3>2. \/ c \in Heaped(x) \cup {x.current} \/ \E t \in Slots : x.slots[t] = c
      BY <3>1 DEF Once
    <3>. QED BY <1>2, <3>1, <3>2 DEF Heaped
  <2>. QED BY <1>2, <2>1, <2>2 DEF Once, Heaped
<1>. QED BY <1>2, <1>3, <1>4 DEF AtRest, EmptyFrom

\* A hero at rest is ready to plan the first turn.
LEMMA RestedPlans ==
    ASSUME NEW x \in Hero, AtRest(x)
    PROVE  x.hand # {} /\ Planned(x, NoPlan, 1)
<1>1. x.hand # {}
  <2>1. PICK c \in Cards : c \notin x.deck
    BY DEF AtRest, Once, Hero
  <2>2. c # NoCard /\ \A t \in Slots : x.slots[t] = NoCard
    BY Constants DEF AtRest, EmptyFrom, Slots
  <2>. QED BY <2>1, <2>2 DEF AtRest, Once, Heaped
<1>. QED BY <1>1 DEF AtRest, Planned, NoPlan, EmptyFrom

\* At the start of a match a hero is at rest.
LEMMA NewHeroKeeps == NewHero \in Hero /\ AtRest(NewHero)
BY TurnAssumption, Constants DEF NewHero, Hero, AtRest, Once, Heaped, EmptyFrom

-----------------------------------------------------------------------------
(* What the invariant gives. *)

\* Cards in one place only count as one.
LEMMA CountedOnce ==
    ASSUME NEW x \in Hero, NEW p \in Cards \cup {NoCard}, NEW q \in Cards \cup {NoCard},
           Once(x, p, q), NEW c \in Cards
    PROVE  Cardinality(x.hand \cap {c}) + Cardinality(x.discard \cap {c})
             + Cardinality(x.deck \cap {c})
             + Cardinality({t \in Slots : x.slots[t] = c})
             + Cardinality({i \in {1, 2} : <<p, q>>[i] = c}) = 1
<1>. DEFINE H == x.hand \cap {c}
            D == x.discard \cap {c}
            K == x.deck \cap {c}
            S == {t \in Slots : x.slots[t] = c}
            P == {i \in {1, 2} : <<p, q>>[i] = c}
<1>1. Cardinality({}) = 0 /\ \A e : Cardinality({e}) = 1
  BY FS_EmptySet, FS_Singleton
<1>2. c # NoCard
  BY Constants
<1>. USE DEF Heaped
<1>3. CASE c \in x.hand
  <2>1. H = {c} /\ D = {} /\ K = {} /\ S = {} /\ P = {}
    BY <1>2, <1>3 DEF Once
  <2>2. /\ Cardinality(H) = 1 /\ Cardinality(D) = 0 /\ Cardinality(K) = 0
        /\ Cardinality(S) = 0 /\ Cardinality(P) = 0
    BY <1>1, <2>1, Zenon
  <2>. QED BY <2>2
<1>4. CASE c \in x.discard
  <2>1. H = {} /\ D = {c} /\ K = {} /\ S = {} /\ P = {}
    BY <1>2, <1>4 DEF Once
  <2>2. /\ Cardinality(H) = 0 /\ Cardinality(D) = 1 /\ Cardinality(K) = 0
        /\ Cardinality(S) = 0 /\ Cardinality(P) = 0
    BY <1>1, <2>1, Zenon
  <2>. QED BY <2>2
<1>5. CASE c \in x.deck
  <2>1. H = {} /\ D = {} /\ K = {c} /\ S = {} /\ P = {}
    BY <1>2, <1>5 DEF Once
  <2>2. /\ Cardinality(H) = 0 /\ Cardinality(D) = 0 /\ Cardinality(K) = 1
        /\ Cardinality(S) = 0 /\ Cardinality(P) = 0
    BY <1>1, <2>1, Zenon
  <2>. QED BY <2>2
<1>6. CASE c \in {p, q} /\ c \notin Heaped(x)
  <2>1. H = {} /\ D = {} /\ K = {} /\ S = {}
    BY <1>2, <1>6 DEF Once
  <2>2. \E i \in {1, 2} : P = {i}
    <3>1. P = {1} \/ P = {2}
      BY <1>2, <1>6 DEF Once
    <3>. QED BY <3>1
  <2>3. /\ Cardinality(H) = 0 /\ Cardinality(D) = 0 /\ Cardinality(K) = 0
        /\ Cardinality(S) = 0 /\ Cardinality(P) = 1
    BY <1>1, <2>1, <2>2, Zenon
  <2>. QED BY <2>3
<1>7. CASE c \notin Heaped(x) \cup {p, q}
  <2>1. PICK t \in Slots : x.slots[t] = c
    BY <1>7 DEF Once
  <2>2. H = {} /\ D = {} /\ K = {} /\ S = {t} /\ P = {}
    BY <1>2, <1>7, <2>1 DEF Once
  <2>3. /\ Cardinality(H) = 0 /\ Cardinality(D) = 0 /\ Cardinality(K) = 0
        /\ Cardinality(S) = 1 /\ Cardinality(P) = 0
    BY <1>1, <2>2, Zenon
  <2>. QED BY <2>3
<1>. QED BY <1>3, <1>4, <1>5, <1>6, <1>7

\* Among finitely many heroes somebody is the fastest: the sets of those at least
\* as fast as a hero have a smallest one.
LEMMA SomebodyIsFastest ==
    ASSUME NEW S, IsFiniteSet(S), S # {}, NEW f, \A s \in S : f[s] \in Nat
    PROVE  \E s \in S : \A t \in S : f[t] <= f[s]
<1>. DEFINE AsFast(s) == {t \in S : f[s] <= f[t]}
            All == {AsFast(s) : s \in S}
<1>1. All \subseteq FiniteSubsetsOf(S) /\ All # {}
  <2>1. \A s \in S : AsFast(s) \in SUBSET S /\ IsFiniteSet(AsFast(s))
    BY FS_Subset
  <2>. QED BY <2>1 DEF FiniteSubsetsOf
<1>2. PICK U \in All : \A V \in All : <<V, U>> \notin StrictSubsetOrdering(S)
  BY <1>1, FS_StrictSubsetOrderingWellFounded, WFMin
<1>3. PICK s \in S : U = AsFast(s)
  OBVIOUS
<1>4. ASSUME NEW t \in S, ~ f[t] <= f[s]
      PROVE  FALSE
  <2>1. f[s] \in Nat /\ f[t] \in Nat /\ f[s] < f[t]
    BY <1>4
  <2>2. AsFast(t) \subseteq U /\ s \in U /\ s \notin AsFast(t)
    BY <1>3, <2>1
  <2>3. <<AsFast(t), U>> \in StrictSubsetOrdering(S)
    BY <2>2, <1>3 DEF StrictSubsetOrdering
  <2>. QED BY <1>2, <2>3
<1>. QED BY <1>4

LEMMA Consequences == IInv => NeverStuck /\ CardsConserved /\ SlotPerTurn
                              /\ CommitsAreHonoured
<1>. SUFFICES ASSUME IInv
              PROVE  NeverStuck /\ CardsConserved /\ SlotPerTurn /\ CommitsAreHonoured
  OBVIOUS
<1>1. NeverStuck
  <2>1. pc \in {"respawn", "act", "nested", "settle"} => owner \in Heroes
    BY DEF IInv, PoolFits, Owned
  <2>2. pc = "tie" => Favoured # {}
    BY DEF IInv, PoolFits, Favoured
  <2>3. ASSUME pc = "plan" PROVE \A h \in Heroes : Pending(plan[h]) \/ hero[h].hand # {}
    BY <2>3 DEF IInv, PcFits, AllCardsFit, CardsFit, Planned
  <2>. QED BY <2>1, <2>2, <2>3 DEF NeverStuck, IInv, PcFits
<1>2. CardsConserved
  <2>. SUFFICES ASSUME NEW h \in Heroes, NEW c \in Cards
               PROVE  Cardinality(hero[h].hand \cap {c})
                        + Cardinality(hero[h].discard \cap {c})
                        + Cardinality(hero[h].deck \cap {c})
                        + Cardinality({t \in Slots : hero[h].slots[t] = c})
                        + Cardinality({i \in {1, 2} : PlayedAs(h)[i] = c}) = 1
    BY DEF CardsConserved
  <2>1. CardsFit(h) /\ hero[h] \in Hero /\ plan[h] \in Plan
    BY DEF IInv, AllCardsFit, TypeOK
  <2>2. CASE phase = "PLANNING"
    <3>1. Once(hero[h], plan[h].first, plan[h].second)
          /\ PlayedAs(h) = <<plan[h].first, plan[h].second>>
      BY <2>1, <2>2 DEF CardsFit, Planned, PlayedAs
    <3>2. plan[h].first \in Cards \cup {NoCard} /\ plan[h].second \in Cards \cup {NoCard}
      BY <2>1 DEF Plan
    <3>. QED BY <2>1, <3>1, <3>2, CountedOnce
  <2>3. CASE phase # "PLANNING"
    <3>1. Once(hero[h], hero[h].current, hero[h].extra)
          /\ PlayedAs(h) = <<hero[h].current, hero[h].extra>>
      BY <2>1, <2>3 DEF CardsFit, PlayedAs
    <3>2. hero[h].current \in Cards \cup {NoCard} /\ hero[h].extra \in Cards \cup {NoCard}
      BY <2>1 DEF Hero
    <3>. QED BY <2>1, <3>1, <3>2, CountedOnce
  <2>. QED BY <2>2, <2>3
<1>3. SlotPerTurn
  BY DEF SlotPerTurn, IInv, AllCardsFit, CardsFit, Planned
<1>4. CommitsAreHonoured
  <2>. SUFFICES ASSUME pc = "closing" PROVE owed = {}
    BY DEF CommitsAreHonoured
  <2>1. unresolved = {} /\ owner = NoHero /\ owed \subseteq Heroes
    BY DEF IInv, TypeOK, PoolFits, Owned
  <2>. QED BY <2>1, Constants DEF IInv, StoryFits, Waiting
<1>. QED BY <1>1, <1>2, <1>3, <1>4

-----------------------------------------------------------------------------
(* Planning. *)

\* A turn that opens is not all planned.
LEMMA NoneHasPlanned ==
    ASSUME NEW p, NEW x, \E h \in Heroes : p[h] = NoPlan
    PROVE  ~ AllPlanned(p, x)
BY DEF AllPlanned, Pending, NoPlan

LEMMA Initially == Init => IInv
<1>. SUFFICES ASSUME Init PROVE IInv
  OBVIOUS
<1>1. /\ NewHero \in Hero /\ NoPlan \in Plan
      /\ NoWork \in [dual : SUBSET Heroes, payloads : SUBSET Heroes,
                     tied : SUBSET Heroes, flip : BOOLEAN]
      /\ NoWork.dual = {}
  BY NewHeroKeeps DEF NoPlan, Plan, NoWork
<1>2. TypeOK
  <2>1. hero \in [Heroes -> Hero] /\ plan \in [Heroes -> Plan]
    BY <1>1 DEF Init
  <2>2. budget \in [effects : 0 .. MaxEffects, undo : 0 .. MaxUndo]
    BY TurnAssumption DEF Init
  <2>. QED BY <1>1, <2>1, <2>2, Constants DEF Init, TypeOK
<1>3. AllCardsFit
  <2>1. Planned(NewHero, NoPlan, 1) /\ NoPlan.second = NoCard
    BY NewHeroKeeps, RestedPlans DEF NoPlan
  <2>. QED BY <2>1 DEF Init, AllCardsFit, CardsFit
<1>4. PcFits
  <2>1. ~ AllPlanned(plan, hero)
    BY NoneHasPlanned, Constants DEF Init
  <2>. QED BY <2>1 DEF Init, PcFits, Owned
<1>5. PoolFits /\ StoryFits
  BY <1>1, Constants DEF Init, PoolFits, StoryFits, Owned
<1>. QED BY <1>2, <1>3, <1>4, <1>5 DEF IInv

\* What the planning calls have in common: one hero's cards and plan change.
LEMMA PlanningStep ==
    ASSUME IInv, phase = "PLANNING", PlanningFrame,
           budget' \in [effects : 0 .. MaxEffects, undo : 0 .. MaxUndo],
           NEW h \in Heroes, NEW x \in Hero, NEW p \in Plan, Planned(x, p, turn),
           hero' = [hero EXCEPT ![h] = x], plan' = [plan EXCEPT ![h] = p],
           pc' \in {"plan", "reveal"},
           p.second # NoCard => h \in TwoCard,
           pc' = "reveal" => \A g \in Heroes : Pending(plan'[g]),
           pc' = "plan" => ~ AllPlanned(plan', hero')
    PROVE  IInv'
<1>1. TypeOK'
  <2>1. hero' \in [Heroes -> Hero] /\ plan' \in [Heroes -> Plan]
    BY DEF IInv, TypeOK
  <2>. QED BY <2>1 DEF IInv, TypeOK, PlanningFrame
<1>2. AllCardsFit'
  <2>. SUFFICES ASSUME NEW g \in Heroes
               PROVE  /\ Planned(hero'[g], plan'[g], turn)
                      /\ plan'[g].second # NoCard => g \in TwoCard
    BY DEF AllCardsFit, CardsFit, PlanningFrame
  <2>1. CASE g = h
    BY <2>1 DEF IInv, TypeOK
  <2>2. CASE g # h
    <3>1. hero'[g] = hero[g] /\ plan'[g] = plan[g]
      BY <2>2 DEF IInv, TypeOK
    <3>. QED BY <3>1 DEF IInv, AllCardsFit, CardsFit
  <2>. QED BY <2>1, <2>2
<1>3. PcFits'
  BY DEF PcFits, PlanningFrame, Owned
<1>4. PoolFits' /\ StoryFits'
  BY DEF IInv, PcFits, PoolFits, StoryFits, Waiting, PlanningFrame, Owned
<1>. QED BY <1>1, <1>2, <1>3, <1>4 DEF IInv

\* After a planning call the phase closes when everybody has planned.
LEMMA ClosingGuard ==
    ASSUME Closing
    PROVE  /\ pc' \in {"plan", "reveal"}
           /\ pc' = "reveal" => \A g \in Heroes : Pending(plan'[g])
           /\ pc' = "plan" => ~ AllPlanned(plan', hero')
BY DEF Closing, AllPlanned

LEMMA PlanningKeeps == IInv /\ Planning => IInv'
<1>. SUFFICES ASSUME IInv, Planning PROVE IInv'
  OBVIOUS
<1>. USE DEF IInv
<1>1. PICK h \in Heroes : \/ \E c \in Cards : Commit(h, c) \/ CommitSecond(h, c)
                          \/ Uncommit(h) \/ FinishPlanning(h)
  BY DEF Planning
<1>2. phase = "PLANNING"
  BY <1>1 DEF PcFits, Commit, CommitSecond, Uncommit, FinishPlanning
<1>3. /\ Planned(hero[h], plan[h], turn) /\ hero[h] \in Hero /\ plan[h] \in Plan
      /\ plan[h].second # NoCard => h \in TwoCard
      /\ turn \in Slots
      /\ budget \in [effects : 0 .. MaxEffects, undo : 0 .. MaxUndo]
  BY <1>2 DEF AllCardsFit, CardsFit, TypeOK
<1>4. ASSUME NEW c \in Cards, Commit(h, c) PROVE IInv'
  <2>. DEFINE x == PlayCard(hero[h], c)
              p == [plan[h] EXCEPT !.first = c]
  <2>1. /\ ~ Pending(plan[h]) /\ c \in hero[h].hand /\ PlanningFrame /\ budget' = budget
        /\ hero' = [hero EXCEPT ![h] = x] /\ plan' = [plan EXCEPT ![h] = p] /\ Closing
    BY <1>4 DEF Commit
  <2>2. plan[h].first = NoCard /\ plan[h].second = NoCard /\ ~ plan[h].passed
    BY <1>3, <2>1 DEF Pending, Planned
  <2>3. p \in Plan /\ p.first = c /\ p.second = NoCard /\ ~ p.passed
    BY <1>3, <2>2 DEF Plan
  <2>4. /\ x \in Hero /\ x.slots = hero[h].slots /\ x.count = hero[h].count
        /\ x.extra = NoCard /\ x.current = c /\ Once(x, c, NoCard)
    <3>1. Once(hero[h], NoCard, NoCard) /\ hero[h].extra = NoCard
      BY <1>3, <2>2 DEF Planned
    <3>. QED BY <1>3, <2>1, <3>1, PlayCardKeeps
  <2>5. Planned(x, p, turn)
    BY <1>3, <2>3, <2>4, Constants DEF Planned, EmptyFrom, Pending
  <2>. HIDE DEF x, p
  <2>. QED BY <1>2, <1>3, <2>1, <2>3, <2>4, <2>5, ClosingGuard, PlanningStep DEF IInv
<1>5. ASSUME NEW c \in Cards, CommitSecond(h, c) PROVE IInv'
  <2>. DEFINE x == PlayCard(hero[h], c)
              p == [plan[h] EXCEPT !.second = c]
  <2>1. /\ plan[h].first # NoCard /\ plan[h].second = NoCard /\ c \in hero[h].hand
        /\ h \in TwoCard /\ PlanningFrame /\ budget' = budget
        /\ hero' = [hero EXCEPT ![h] = x] /\ plan' = [plan EXCEPT ![h] = p] /\ Closing
    BY <1>5 DEF CommitSecond
  <2>2. p \in Plan /\ p.first = plan[h].first /\ p.second = c /\ ~ p.passed
    BY <1>3, <2>1 DEF Plan, Planned
  <2>3. /\ x \in Hero /\ x.slots = hero[h].slots /\ x.count = hero[h].count
        /\ x.extra = NoCard /\ x.current = c /\ Once(x, plan[h].first, c)
    <3>1. Once(hero[h], plan[h].first, NoCard) /\ hero[h].extra = NoCard
      BY <1>3, <2>1 DEF Planned
    <3>. QED BY <1>3, <2>1, <3>1, PlayCardKeeps
  <2>4. Planned(x, p, turn)
    BY <1>3, <2>1, <2>2, <2>3, Constants DEF Planned, EmptyFrom, Pending
  <2>. HIDE DEF x, p
  <2>. QED BY <1>2, <1>3, <2>1, <2>2, <2>3, <2>4, ClosingGuard, PlanningStep DEF IInv
<1>6. ASSUME Uncommit(h) PROVE IInv'
  <2>. DEFINE x == UncommittedHero(hero[h], plan[h])
              p == IF plan[h].second # NoCard
                   THEN [plan[h] EXCEPT !.second = NoCard, !.done = FALSE] ELSE NoPlan
  <2>1. /\ pc = "plan" /\ pc' = pc /\ plan[h].first # NoCard /\ PlanningFrame
        /\ budget.undo > 0 /\ budget' = [budget EXCEPT !.undo = @ - 1]
        /\ hero' = [hero EXCEPT ![h] = x] /\ plan' = [plan EXCEPT ![h] = p]
    BY <1>6 DEF Uncommit
  <2>2. budget' \in [effects : 0 .. MaxEffects, undo : 0 .. MaxUndo]
    BY <1>3, <2>1, TurnAssumption
  <2>3. /\ p \in Plan /\ p.second = NoCard
        /\ p.first = (IF plan[h].second # NoCard THEN plan[h].first ELSE NoCard)
        /\ p.passed => plan[h].passed
        /\ plan[h].second # NoCard => ~ p.done
        /\ plan[h].second = NoCard => ~ Pending(p)
    BY <1>3 DEF Plan, NoPlan, Pending
  <2>4. /\ x \in Hero /\ x.slots = hero[h].slots /\ x.count = hero[h].count
        /\ x.extra = NoCard /\ x.hand # {} /\ x.current = p.first /\ Once(x, p.first, NoCard)
    BY <1>3, <2>1, <2>3, UncommitKeeps DEF Planned
  <2>5. Planned(x, p, turn)
    BY <1>3, <2>1, <2>3, <2>4 DEF Planned, EmptyFrom
  <2>6. ~ AllPlanned(plan', hero')
    <3>1. plan'[h] = p /\ hero'[h] = x
      BY <2>1 DEF TypeOK
    <3>2. ~ Pending(p) \/ OpenForSecond(p, x, h)
      BY <1>3, <2>1, <2>3, <2>4 DEF OpenForSecond
    <3>. QED BY <3>1, <3>2 DEF AllPlanned
  <2>. HIDE DEF x, p
  <2>. QED BY <1>2, <2>1, <2>2, <2>3, <2>4, <2>5, <2>6, PlanningStep DEF IInv
<1>7. ASSUME FinishPlanning(h) PROVE IInv'
  <2>. DEFINE p == [plan[h] EXCEPT !.done = TRUE]
  <2>1. /\ PlanningFrame /\ budget' = budget /\ hero' = hero /\ Closing
        /\ plan' = [plan EXCEPT ![h] = p]
    BY <1>7 DEF FinishPlanning
  <2>2. p \in Plan /\ p.first = plan[h].first /\ p.second = plan[h].second
        /\ p.passed = plan[h].passed
    BY <1>3 DEF Plan
  <2>3. Planned(hero[h], p, turn)
    BY <1>3, <2>2 DEF Planned, Pending
  <2>4. hero' = [hero EXCEPT ![h] = hero[h]]
    BY <2>1 DEF TypeOK
  <2>. HIDE DEF p
  <2>. QED BY <1>2, <1>3, <2>1, <2>2, <2>3, <2>4, ClosingGuard, PlanningStep DEF IInv
<1>. QED BY <1>1, <1>4, <1>5, <1>6, <1>7

-----------------------------------------------------------------------------
(* Revelation and the acting order. *)

LEMMA RevealKeeps == IInv /\ Reveal => IInv'
<1>. SUFFICES ASSUME IInv, Reveal PROVE IInv'
  OBVIOUS
<1>1. /\ phase = "PLANNING" /\ turn \in Slots /\ phase' = "RESOLUTION" /\ turn' = turn
      /\ owner = NoHero /\ owner' = owner
      /\ pc' = "opening" /\ plan' = [h \in Heroes |-> NoPlan]
      /\ \A h \in Heroes : Pending(plan[h]) /\ Planned(hero[h], plan[h], turn)
                           /\ hero[h] \in Hero /\ plan[h] \in Plan
  BY DEF IInv, TypeOK, PcFits, PoolFits, Owned, AllCardsFit, CardsFit, Reveal
<1>2. /\ unresolved' = {h \in Heroes : plan[h].first # NoCard}
      /\ owed' = unresolved'
      /\ stack'.dual = {h \in unresolved' : hero'[h].extra # NoCard}
      /\ stack'.payloads \subseteq Heroes /\ stack'.tied = {} /\ stack'.flip = FALSE
      /\ stack' \in [dual : SUBSET Heroes, payloads : SUBSET Heroes,
                     tied : SUBSET Heroes, flip : BOOLEAN]
  BY DEF Reveal, NoWork, IInv, TypeOK
<1>3. ASSUME NEW h \in Heroes
      PROVE  /\ hero'[h] \in Hero /\ Once(hero'[h], hero'[h].current, hero'[h].extra)
             /\ Revealed(hero'[h], turn)
             /\ h \in unresolved' => hero'[h].current # NoCard
             /\ h \notin unresolved' => /\ hero'[h].current = NoCard
                                        /\ hero'[h].extra = NoCard
                                        /\ hero'[h].count = turn
  <2>1. hero'[h] = RevealedHero(hero[h], plan[h])
    BY DEF Reveal
  <2>2. Pending(plan[h]) /\ Planned(hero[h], plan[h], turn)
        /\ hero[h] \in Hero /\ plan[h] \in Plan /\ turn \in Slots
    BY <1>1
  <2>3. CASE plan[h].passed
    <3>1. /\ plan[h].first = NoCard /\ plan[h].second = NoCard
          /\ hero[h].current = NoCard /\ hero[h].extra = NoCard
      BY <2>2, <2>3 DEF Planned
    <3>2. Once(hero[h], NoCard, NoCard) /\ Revealed(hero[h], turn)
      BY <2>2, <3>1, Constants DEF Planned, Revealed, EmptyFrom
    <3>3. hero'[h] = ResolveCurrent(hero[h], turn) /\ h \notin unresolved'
      BY <1>2, <2>1, <2>3, <3>1 DEF RevealedHero
    <3>. QED BY <2>2, <3>1, <3>2, <3>3, ResolveKeeps
  <2>4. CASE ~ plan[h].passed
    <3>1. plan[h].first # NoCard /\ h \in unresolved'
      BY <1>2, <2>2, <2>4 DEF Pending
    <3>2. /\ hero'[h].hand = hero[h].hand /\ hero'[h].discard = hero[h].discard
          /\ hero'[h].slots = hero[h].slots /\ hero'[h].count = hero[h].count
          /\ hero'[h].deck = hero[h].deck
          /\ hero'[h].current = plan[h].first /\ hero'[h].extra = plan[h].second
          /\ hero'[h] \in Hero
      <4>1. hero[h].extra = NoCard /\ plan[h].second \in Cards \cup {NoCard}
            /\ plan[h].first \in Cards \cup {NoCard}
        BY <2>2 DEF Planned, Plan
      <4>2. hero'[h] = [hero[h] EXCEPT !.current = plan[h].first, !.extra = plan[h].second]
        BY <2>1, <2>2, <2>4, <4>1 DEF RevealedHero, Hero
      <4>. QED BY <2>2, <4>1, <4>2 DEF Hero
    <3>3. Once(hero'[h], plan[h].first, plan[h].second) /\ Revealed(hero'[h], turn)
      BY <2>2, <3>2, Constants DEF Planned, Once, Heaped, Revealed, EmptyFrom
    <3>. QED BY <3>1, <3>2, <3>3
  <2>. QED BY <2>3, <2>4
<1>4. TypeOK'
  <2>1. hero' \in [Heroes -> Hero]
    BY <1>3 DEF Reveal
  <2>2. plan' \in [Heroes -> Plan]
    BY <1>1 DEF NoPlan, Plan
  <2>3. due' \in [turn : SUBSET Heroes, round : SUBSET Heroes, next : SUBSET Heroes]
    BY DEF Reveal, IInv, TypeOK
  <2>4. budget' \in [effects : 0 .. MaxEffects, undo : 0 .. MaxUndo]
    BY TurnAssumption DEF Reveal, IInv, TypeOK
  <2>. QED BY <1>1, <1>2, <2>1, <2>2, <2>3, <2>4 DEF IInv, TypeOK, Reveal
<1>5. AllCardsFit'
  <2>. SUFFICES ASSUME NEW h \in Heroes PROVE CardsFit(h)'
    BY DEF AllCardsFit
  <2>. QED BY <1>1, <1>2, <1>3 DEF CardsFit, Waiting
<1>6. PcFits' /\ PoolFits'
  BY <1>1, <1>2, Constants DEF PcFits, PoolFits, Owned
<1>7. StoryFits'
  BY <1>2 DEF StoryFits, Waiting, IInv, TypeOK
<1>. QED BY <1>4, <1>5, <1>6, <1>7 DEF IInv

LEMMA RetrieveUnresolvedKeeps ==
    ASSUME IInv, NEW h \in Heroes, RetrieveUnresolved(h) PROVE IInv'
<1>1. /\ pc = "opening" /\ phase = "RESOLUTION" /\ h \in stack.dual /\ h \in unresolved
      /\ hero[h] \in Hero /\ hero[h].current # NoCard /\ CardsFit(h)
      /\ owner = NoHero /\ turn \in Slots
  BY DEF RetrieveUnresolved, IInv, TypeOK, PcFits, PoolFits, AllCardsFit, CardsFit, Owned
<1>2. PICK kept \in {hero[h].current, hero[h].extra} :
          hero' = [hero EXCEPT ![h] = KeepCard(hero[h], kept)]
  BY <1>1 DEF RetrieveUnresolved, IInv, TypeOK
<1>. DEFINE y == KeepCard(hero[h], kept)
<1>3. /\ y \in Hero /\ y.slots = hero[h].slots /\ y.count = hero[h].count
      /\ y.extra = NoCard /\ y.current # NoCard /\ Once(y, y.current, NoCard)
  <2>1. hero[h].extra # NoCard /\ Once(hero[h], hero[h].current, hero[h].extra)
    BY <1>1 DEF CardsFit
  <2>. QED BY <1>1, <2>1, KeepCardKeeps
<1>4. Revealed(y, turn)
  <2>1. Revealed(hero[h], turn) /\ hero[h].slots[turn] = NoCard
    BY <1>1 DEF CardsFit, Revealed
  <2>. QED BY <1>3, <2>1 DEF Revealed, EmptyFrom
<1>. HIDE DEF y
<1>5. /\ UNCHANGED <<phase, turn, plan, unresolved, board, actor, owner, pc, coin,
                     due, upgrades, budget, owed>>
      /\ stack' = [stack EXCEPT !.dual = @ \ {h}]
  BY DEF RetrieveUnresolved
<1>6. TypeOK'
  BY <1>2, <1>3, <1>5 DEF IInv, TypeOK, y
<1>7. AllCardsFit'
  <2>. SUFFICES ASSUME NEW g \in Heroes PROVE CardsFit(g)'
    BY DEF AllCardsFit
  <2>1. hero'[g] = (IF g = h THEN y ELSE hero[g]) /\ stack'.dual = stack.dual \ {h}
    BY <1>2, <1>5 DEF IInv, TypeOK, y
  <2>2. CardsFit(g)
    BY DEF IInv, AllCardsFit
  <2>3. CASE g = h
    BY <1>1, <1>3, <1>4, <1>5, <2>1, <2>2, <2>3 DEF CardsFit, Waiting
  <2>4. CASE g # h
    BY <1>5, <2>1, <2>2, <2>4 DEF CardsFit, Waiting
  <2>. QED BY <2>3, <2>4
<1>8. PcFits' /\ PoolFits' /\ StoryFits'
  <2>1. stack'.dual = stack.dual \ {h}
    BY <1>5 DEF IInv, TypeOK
  <2>. QED BY <1>1, <1>5, <2>1 DEF IInv, PcFits, PoolFits, StoryFits, Waiting
<1>. QED BY <1>6, <1>7, <1>8 DEF IInv

\* If no hero's cards change, and nobody leaves the pool without becoming the
\* owner.
LEMMA CardsFitStay ==
    ASSUME IInv, UNCHANGED <<phase, turn, hero, plan>>, stack'.dual = stack.dual,
           unresolved' \subseteq unresolved, Waiting \cap Heroes \subseteq Waiting'
    PROVE  AllCardsFit'
<1>. SUFFICES ASSUME NEW h \in Heroes PROVE CardsFit(h)'
  BY DEF AllCardsFit
<1>1. CardsFit(h) /\ (h \notin Waiting' => h \notin Waiting)
  BY DEF IInv, AllCardsFit
<1>. QED BY <1>1 DEF CardsFit, Waiting

\* A payload is started and ends; the turn opens.
LEMMA PayloadKeeps ==
    ASSUME IInv, EndPayload \/ Opened \/ (\E s \in Heroes : StartPayload(s))
    PROVE  IInv'
<1>1. /\ UNCHANGED <<phase, turn, hero, plan, unresolved, board, owner, coin, due, upgrades, budget, owed>>
      /\ pc' \in {"opening", "trigger", "next", "closing", "finishing"}
      /\ pc \in {"opening", "trigger", "closing", "finishing"}
      /\ pc' \in {"closing", "finishing"} <=> pc \in {"closing", "finishing"}
      /\ pc' # "opening" => stack.dual = {}
      /\ actor' \in Heroes \cup {NoHero}
  BY DEF EndPayload, Opened, StartPayload, IInv, TypeOK, PoolFits
<1>2. /\ stack'.dual = stack.dual
      /\ stack' \in [dual : SUBSET Heroes, payloads : SUBSET Heroes,
                     tied : SUBSET Heroes, flip : BOOLEAN]
  BY DEF EndPayload, Opened, StartPayload, IInv, TypeOK
<1>3. TypeOK'
  BY <1>1, <1>2 DEF IInv, TypeOK
<1>4. AllCardsFit'
  BY <1>1, <1>2, CardsFitStay DEF Waiting
<1>5. PcFits'
  BY <1>1 DEF IInv, PcFits, Owned
<1>6. PoolFits' /\ StoryFits'
  BY <1>1, <1>2 DEF IInv, PoolFits, StoryFits, Waiting, Owned
<1>. QED BY <1>3, <1>4, <1>5, <1>6 DEF IInv

LEMMA OpeningKeeps == IInv /\ Opening => IInv'
BY RevealKeeps, RetrieveUnresolvedKeeps, PayloadKeeps DEF Opening

\* A hero leaves the pool to play its card.
LEMMA StartTurnKeeps ==
    ASSUME IInv, NEW h \in unresolved, NEW flip \in BOOLEAN, pc \in {"next", "tie"},
           StartTurn(h, flip), OrderFrame, UNCHANGED owed
    PROVE  IInv'
<1>1. /\ phase = "RESOLUTION" /\ owner = NoHero /\ h \in Heroes /\ stack.dual = {}
      /\ owner' = h /\ actor' = h /\ unresolved' = unresolved \ {h}
      /\ pc' \in {"act", "respawn"}
      /\ UNCHANGED <<phase, turn, hero, plan, board, coin, due, upgrades,
                     budget, owed>>
  BY DEF IInv, TypeOK, PcFits, PoolFits, Owned, StartTurn, OrderFrame
<1>2. /\ stack'.dual = {}
      /\ stack' \in [dual : SUBSET Heroes, payloads : SUBSET Heroes,
                     tied : SUBSET Heroes, flip : BOOLEAN]
  BY DEF StartTurn, NoWork
<1>3. TypeOK'
  BY <1>1, <1>2 DEF IInv, TypeOK
<1>4. AllCardsFit'
  BY <1>1, <1>2, CardsFitStay, Constants DEF Waiting
<1>5. PcFits' /\ PoolFits'
  BY <1>1, <1>2, Constants DEF IInv, PcFits, PoolFits, Owned
<1>6. StoryFits'
  BY <1>1, Constants DEF IInv, TypeOK, StoryFits, Waiting
<1>. QED BY <1>3, <1>4, <1>5, <1>6 DEF IInv

\* The pool is not empty, all in it hold a card: somebody is the fastest.
LEMMA SomebodyActs ==
    ASSUME IInv, pc = "next", unresolved # {}
    PROVE  Fastest # {} /\ Fastest \subseteq unresolved
<1>1. phase = "RESOLUTION" /\ unresolved \subseteq Heroes /\ IsFiniteSet(unresolved)
  BY TurnAssumption, FS_Subset DEF IInv, PcFits, TypeOK, Owned
<1>2. Candidates = unresolved
  BY <1>1 DEF Candidates, IInv, AllCardsFit, CardsFit
<1>. DEFINE f == [h \in unresolved |-> Initiative(h)]
<1>3. \A h \in unresolved : f[h] \in Nat
  <2>. SUFFICES ASSUME NEW h \in unresolved PROVE Initiative(h) \in Nat
    OBVIOUS
  <2>1. hero[h] \in Hero /\ Bonus[h] \in Nat
    BY <1>1, TurnAssumption DEF IInv, TypeOK
  <2>2. hero[h].current \in Nat
    <3>1. hero[h].current \in Cards \cup {NoCard}
      BY <2>1 DEF Hero
    <3>2. Cards \subseteq Nat /\ NoCard \in Nat
      BY Constants DEF NoCard
    <3>. QED BY <3>1, <3>2
  <2>. QED BY <2>1, <2>2 DEF Initiative
<1>4. PICK h \in unresolved : \A g \in unresolved : f[g] <= f[h]
  BY <1>1, <1>3, SomebodyIsFastest
<1>5. h \in Fastest
  BY <1>2, <1>4 DEF Fastest
<1>. QED BY <1>2, <1>5 DEF Fastest

LEMMA OrderingKeeps == IInv /\ Ordering => IInv'
<1>. SUFFICES ASSUME IInv, Ordering PROVE IInv'
  OBVIOUS
<1>1. ASSUME NextActor PROVE IInv'
  <2>1. pc = "next" /\ Fastest # {} /\ Fastest \subseteq unresolved /\ OrderFrame
        /\ UNCHANGED owed
    BY <1>1, SomebodyActs DEF NextActor
  <2>2. CASE Cardinality(Fastest) = 1
    <3>1. PICK h \in Fastest : StartTurn(h, FALSE)
      BY <1>1, <2>2 DEF NextActor
    <3>. QED BY <2>1, <3>1, StartTurnKeeps
  <2>3. CASE Cardinality(Fastest) # 1
    <3>1. /\ pc' = "tie" /\ stack' = [NoWork EXCEPT !.tied = Fastest]
          /\ UNCHANGED <<unresolved, actor, owner, phase, turn, hero, plan, board, coin,
                         due, upgrades, budget, owed>>
      BY <1>1, <2>1, <2>3 DEF NextActor, OrderFrame
    <3>2. /\ phase = "RESOLUTION" /\ owner = NoHero /\ stack.dual = {}
      BY <2>1 DEF IInv, PcFits, PoolFits, Owned
    <3>3. /\ stack'.dual = {} /\ stack'.tied \subseteq unresolved /\ stack'.tied # {}
          /\ stack' \in [dual : SUBSET Heroes, payloads : SUBSET Heroes,
                         tied : SUBSET Heroes, flip : BOOLEAN]
      BY <2>1, <3>1 DEF NoWork, IInv, TypeOK
    <3>4. TypeOK'
      BY <3>1, <3>3 DEF IInv, TypeOK
    <3>5. AllCardsFit'
      BY <3>1, <3>2, <3>3, CardsFitStay DEF Waiting
    <3>6. PcFits' /\ PoolFits' /\ StoryFits'
      BY <3>1, <3>2, <3>3 DEF IInv, PcFits, PoolFits, StoryFits, Waiting, Owned
    <3>. QED BY <3>4, <3>5, <3>6 DEF IInv
  <2>. QED BY <2>2, <2>3
<1>2. ASSUME NEW h \in Heroes, BreakTie(h) PROVE IInv'
  <2>1. pc = "tie" /\ h \in unresolved /\ StartTurn(h, BothTied) /\ OrderFrame
        /\ UNCHANGED owed
    BY <1>2 DEF BreakTie, Favoured, IInv, PoolFits
  <2>2. BothTied \in BOOLEAN
    BY DEF BothTied
  <2>. QED BY <2>1, <2>2, StartTurnKeeps
<1>3. ASSUME Respawn PROVE IInv'
  <2>1. /\ pc = "respawn" /\ phase = "RESOLUTION" /\ owner \in Heroes
        /\ pc' \in {"act", "settle"} /\ board' \subseteq Heroes
        /\ pc' = "act" => actor \in Heroes
        /\ UNCHANGED <<phase, turn, hero, plan, unresolved, actor, owner, stack, coin,
                       due, upgrades, budget, owed>>
    BY <1>3 DEF Respawn, IInv, TypeOK, PcFits, PoolFits, Owned
  <2>2. TypeOK'
    BY <2>1 DEF IInv, TypeOK
  <2>3. AllCardsFit'
    BY <2>1, CardsFitStay DEF Waiting
  <2>4. PcFits' /\ PoolFits' /\ StoryFits'
    BY <2>1 DEF IInv, PcFits, PoolFits, StoryFits, Waiting, Owned
  <2>. QED BY <2>2, <2>3, <2>4 DEF IInv
<1>. QED BY <1>1, <1>2, <1>3 DEF Ordering

-----------------------------------------------------------------------------
(* What cards do. *)

LEMMA EffectBasics ==
    ASSUME IInv, NEW kind, Effect(kind)
    PROVE  /\ phase \in {"RESOLUTION", "CLEANUP"} /\ turn \in Slots /\ stack.dual = {}
           /\ pc \in {"act", "nested", "trigger", "finishing"}
           /\ budget' \in [effects : 0 .. MaxEffects, undo : 0 .. MaxUndo]
           /\ UNCHANGED <<phase, turn, plan, owner, stack, upgrades>>
           /\ hero \in [Heroes -> Hero]
           /\ \A h \in Heroes : /\ hero[h] \in Hero /\ hero[h].extra = NoCard
                                /\ Once(hero[h], hero[h].current, NoCard)
                                /\ Revealed(hero[h], turn)
<1>1. /\ pc \in {"act", "nested", "trigger", "finishing"} /\ budget.effects > 0
      /\ budget' = [budget EXCEPT !.effects = @ - 1]
      /\ UNCHANGED <<phase, turn, plan, owner, stack, upgrades>>
  BY DEF Effect, Resolving
<1>2. phase \in {"RESOLUTION", "CLEANUP"} /\ turn \in Slots /\ stack.dual = {}
  BY <1>1 DEF IInv, TypeOK, PcFits, PoolFits, Owned
<1>3. budget' \in [effects : 0 .. MaxEffects, undo : 0 .. MaxUndo]
  BY <1>1, TurnAssumption DEF IInv, TypeOK
<1>4. ASSUME NEW h \in Heroes
      PROVE  /\ hero[h] \in Hero /\ hero[h].extra = NoCard
             /\ Once(hero[h], hero[h].current, NoCard) /\ Revealed(hero[h], turn)
  <2>1. CardsFit(h) /\ hero[h] \in Hero
    BY DEF IInv, TypeOK, AllCardsFit
  <2>2. hero[h].extra = NoCard
    BY <1>2, <2>1 DEF CardsFit
  <2>. QED BY <1>2, <2>1, <2>2 DEF CardsFit
<1>5. hero \in [Heroes -> Hero]
  BY DEF IInv, TypeOK
<1>. QED BY <1>1, <1>2, <1>3, <1>4, <1>5

\* An effect that moves cards of one hero and never gives it a card to play,
\* nor takes the card of a hero in the pool.
LEMMA MovingCards ==
    ASSUME IInv, NEW kind, Effect(kind), EffectFrame, NEW v \in Heroes, NEW y \in Hero,
           UNCHANGED <<actor, pc, due>>,
           hero' = [hero EXCEPT ![v] = y], Once(y, y.current, NoCard), y.extra = NoCard,
           Revealed(y, turn), y.count = hero[v].count,
           hero[v].current = NoCard => y.current = NoCard,
           v \in unresolved => y.current # NoCard
    PROVE  IInv'
<1>1. /\ UNCHANGED <<phase, turn, plan, unresolved, board, actor, owner, pc, stack, coin,
                     due, upgrades, owed>>
      /\ phase \in {"RESOLUTION", "CLEANUP"} /\ stack.dual = {}
      /\ budget' \in [effects : 0 .. MaxEffects, undo : 0 .. MaxUndo]
  BY EffectBasics DEF EffectFrame
<1>2. TypeOK'
  BY <1>1 DEF IInv, TypeOK
<1>3. AllCardsFit'
  <2>. SUFFICES ASSUME NEW g \in Heroes PROVE CardsFit(g)'
    BY DEF AllCardsFit
  <2>1. hero'[g] = (IF g = v THEN y ELSE hero[g]) /\ CardsFit(g)
    BY DEF IInv, TypeOK, AllCardsFit
  <2>2. CASE g = v
    BY <1>1, <2>1, <2>2 DEF CardsFit, Waiting
  <2>3. CASE g # v
    BY <1>1, <2>1, <2>3 DEF CardsFit, Waiting
  <2>. QED BY <2>2, <2>3
<1>4. PcFits' /\ PoolFits' /\ StoryFits'
  BY <1>1 DEF IInv, PcFits, PoolFits, StoryFits, Waiting
<1>. QED BY <1>2, <1>3, <1>4 DEF IInv

LEMMA DiscardStep ==
    ASSUME IInv, NEW v \in Heroes, NEW c \in Cards, Discard(v, c) PROVE IInv'
<1>. DEFINE y == DiscardCard(hero[v], c)
<1>1. /\ Effect("discard") /\ EffectFrame /\ UNCHANGED <<actor, pc, due>>
      /\ \/ c \in hero[v].hand \cup Resolved(hero[v])
         \/ v = owner /\ hero[v].current = c
      /\ hero' = [hero EXCEPT ![v] = y]
  BY DEF Discard
<1>2. /\ hero[v] \in Hero /\ hero[v].extra = NoCard
      /\ phase \in {"RESOLUTION", "CLEANUP"} /\ turn \in Slots
      /\ Once(hero[v], hero[v].current, NoCard) /\ Revealed(hero[v], turn)
  BY <1>1, EffectBasics
<1>3. v # owner => hero[v].current # c
  BY <1>1, <1>2, Constants DEF Once, Heaped, Resolved
<1>4. /\ y \in Hero /\ y.count = hero[v].count /\ y.extra = NoCard
      /\ y.current = (IF hero[v].current = c THEN NoCard ELSE hero[v].current)
      /\ Once(y, y.current, NoCard) /\ Revealed(y, turn)
  BY <1>1, <1>2, DiscardKeeps
<1>5. v \in unresolved => y.current # NoCard
  BY <1>2, <1>3, <1>4 DEF IInv, PoolFits, AllCardsFit, CardsFit
<1>. HIDE DEF y
<1>. QED BY <1>1, <1>4, <1>5, MovingCards

LEMMA RetrieveStep ==
    ASSUME IInv, NEW v \in Heroes, NEW c \in Cards, Retrieve(v, c) PROVE IInv'
<1>. DEFINE y == ReturnToHand(hero[v], c)
<1>1. /\ Effect("retrieve") /\ EffectFrame /\ UNCHANGED <<actor, pc, due>>
      /\ \/ c \in hero[v].discard \cup Resolved(hero[v])
         \/ v = owner /\ hero[v].current = c
      /\ hero' = [hero EXCEPT ![v] = y]
  BY DEF Retrieve
<1>2. /\ hero[v] \in Hero /\ hero[v].extra = NoCard
      /\ phase \in {"RESOLUTION", "CLEANUP"} /\ turn \in Slots
      /\ Once(hero[v], hero[v].current, NoCard) /\ Revealed(hero[v], turn)
  BY <1>1, EffectBasics
<1>3. v # owner => hero[v].current # c
  BY <1>1, <1>2, Constants DEF Once, Heaped, Resolved
<1>4. /\ y \in Hero /\ y.count = hero[v].count /\ y.extra = NoCard
      /\ y.current = (IF hero[v].current = c THEN NoCard ELSE hero[v].current)
      /\ Once(y, y.current, NoCard) /\ Revealed(y, turn)
  BY <1>1, <1>2, ReturnKeeps
<1>5. v \in unresolved => y.current # NoCard
  BY <1>2, <1>3, <1>4 DEF IInv, PoolFits, AllCardsFit, CardsFit
<1>. HIDE DEF y
<1>. QED BY <1>1, <1>4, <1>5, MovingCards

LEMMA RetrieveDiscardStep ==
    ASSUME IInv, NEW v \in Heroes, RetrieveDiscard(v) PROVE IInv'
<1>. DEFINE y == [hero[v] EXCEPT !.hand = hero[v].hand \cup hero[v].discard,
                                 !.discard = {}]
<1>1. /\ Effect("retrieve") /\ EffectFrame /\ UNCHANGED <<actor, pc, due>>
      /\ hero' = [hero EXCEPT ![v].hand = @ \cup hero[v].discard, ![v].discard = {}]
  BY DEF RetrieveDiscard
<1>2. /\ hero[v] \in Hero /\ hero[v].extra = NoCard /\ turn \in Slots
      /\ phase \in {"RESOLUTION", "CLEANUP"} /\ hero \in [Heroes -> Hero]
      /\ Once(hero[v], hero[v].current, NoCard) /\ Revealed(hero[v], turn)
  BY <1>1, EffectBasics
<1>3. hero' = [hero EXCEPT ![v] = y]
  BY <1>1, <1>2 DEF Hero
<1>4. /\ y \in Hero /\ y.count = hero[v].count /\ y.extra = NoCard
      /\ y.current = hero[v].current
      /\ Once(y, y.current, NoCard) /\ Revealed(y, turn)
  BY <1>2, ReturnAllKeeps
<1>5. v \in unresolved => y.current # NoCard
  BY <1>2, <1>4 DEF IInv, AllCardsFit, CardsFit
<1>. HIDE DEF y
<1>. QED BY <1>1, <1>3, <1>4, <1>5, MovingCards

LEMMA SwapStep ==
    ASSUME IInv, NEW v \in Heroes, NEW a \in Cards, NEW b \in Cards, Swap(v, a, b)
    PROVE  IInv'
<1>. DEFINE y == SwapCards(hero[v], a, b)
<1>1. /\ Effect("swap") /\ EffectFrame /\ UNCHANGED <<actor, pc, due>>
      /\ hero' = [hero EXCEPT ![v] = y]
  BY DEF Swap
<1>2. /\ hero[v] \in Hero /\ hero[v].extra = NoCard /\ turn \in Slots
      /\ phase \in {"RESOLUTION", "CLEANUP"}
      /\ Once(hero[v], hero[v].current, NoCard) /\ Revealed(hero[v], turn)
  BY <1>1, EffectBasics
<1>3. /\ y \in Hero /\ y.count = hero[v].count /\ y.extra = NoCard
      /\ y.current = NoCard <=> hero[v].current = NoCard
      /\ Once(y, y.current, NoCard) /\ Revealed(y, turn)
  BY <1>2, SwapKeeps
<1>4. v \in unresolved => y.current # NoCard
  BY <1>2, <1>3 DEF IInv, AllCardsFit, CardsFit
<1>. HIDE DEF y
<1>. QED BY <1>1, <1>3, <1>4, MovingCards

LEMMA DefeatStep ==
    ASSUME IInv, NEW v \in Heroes, Defeat(v) PROVE IInv'
<1>. DEFINE y == ResolveCurrent(hero[v], turn)
<1>1. /\ Effect("defeat") /\ hero' = [hero EXCEPT ![v] = y] /\ unresolved' = unresolved \ {v}
      /\ board' = board \ {v} /\ due' = [t \in DOMAIN due |-> due[t] \ {v}]
      /\ owed' = owed \ {v} /\ pc' \in {pc, "over"}
      /\ UNCHANGED <<actor, coin>>
  BY DEF Defeat
<1>2. /\ phase \in {"RESOLUTION", "CLEANUP"} /\ turn \in Slots /\ stack.dual = {}
      /\ pc \in {"act", "nested", "trigger", "finishing"}
      /\ budget' \in [effects : 0 .. MaxEffects, undo : 0 .. MaxUndo]
      /\ UNCHANGED <<phase, turn, plan, owner, stack, upgrades>>
      /\ hero[v] \in Hero /\ hero[v].extra = NoCard
      /\ Once(hero[v], hero[v].current, NoCard) /\ Revealed(hero[v], turn)
  BY <1>1, EffectBasics
<1>3. /\ y \in Hero /\ y.current = NoCard /\ y.extra = NoCard /\ y.count = turn
      /\ Once(y, NoCard, NoCard) /\ Revealed(y, turn)
  BY <1>2, ResolveKeeps
<1>. HIDE DEF y
<1>4. TypeOK'
  <2>1. due' \in [turn : SUBSET Heroes, round : SUBSET Heroes, next : SUBSET Heroes]
    BY <1>1 DEF IInv, TypeOK
  <2>. QED BY <1>1, <1>2, <1>3, <2>1 DEF IInv, TypeOK
<1>5. AllCardsFit'
  <2>. SUFFICES ASSUME NEW g \in Heroes PROVE CardsFit(g)'
    BY DEF AllCardsFit
  <2>1. hero'[g] = (IF g = v THEN y ELSE hero[g]) /\ CardsFit(g)
    BY <1>1 DEF IInv, TypeOK, AllCardsFit
  <2>2. CASE g = v
    BY <1>1, <1>2, <1>3, <2>1, <2>2 DEF CardsFit, Waiting
  <2>3. CASE g # v
    BY <1>1, <1>2, <2>1, <2>3 DEF CardsFit, Waiting
  <2>. QED BY <2>2, <2>3
<1>6. PcFits' /\ PoolFits'
  BY <1>1, <1>2 DEF IInv, PcFits, PoolFits, Owned
<1>7. StoryFits'
  BY <1>1, <1>2 DEF IInv, TypeOK, StoryFits, Waiting
<1>. QED BY <1>4, <1>5, <1>6, <1>7 DEF IInv

\* Nested actions, scheduled payloads, the coin, and the end of the card.
LEMMA OtherActing ==
    ASSUME IInv, (\E v \in Heroes : Nest(v)) \/ Schedule \/ FlipCoin \/ EndNested \/ EndAct
    PROVE  IInv'
<1>1. /\ UNCHANGED <<phase, turn, hero, plan, unresolved, board, owner, stack, upgrades,
                     owed>>
      /\ pc \in {"act", "nested"} /\ pc' \in {"act", "nested", "settle"}
      /\ actor' \in Heroes \cup {NoHero}
      /\ due' \in [turn : SUBSET Heroes, round : SUBSET Heroes, next : SUBSET Heroes]
      /\ coin' \in {"red", "blue"}
      /\ pc' # "settle" => actor' \in Heroes
      /\ actor \in Heroes /\ owner \in Heroes
  BY DEF Nest, Schedule, FlipCoin, EndNested, EndAct, Effect, EffectFrame, Other,
         IInv, TypeOK, PoolFits, Owned
<1>2. budget' \in [effects : 0 .. MaxEffects, undo : 0 .. MaxUndo]
  <2>1. ASSUME NEW kind, Effect(kind)
        PROVE  budget' \in [effects : 0 .. MaxEffects, undo : 0 .. MaxUndo]
    BY <2>1, EffectBasics
  <2>2. (\E kind \in {"nested", "schedule", "flip"} : Effect(kind)) \/ budget' = budget
    BY DEF Nest, Schedule, FlipCoin, EndNested, EndAct
  <2>. QED BY <2>1, <2>2 DEF IInv, TypeOK
<1>3. TypeOK'
  BY <1>1, <1>2 DEF IInv, TypeOK
<1>4. AllCardsFit'
  BY <1>1, CardsFitStay DEF Waiting
<1>5. PcFits' /\ PoolFits' /\ StoryFits'
  BY <1>1 DEF IInv, PcFits, PoolFits, StoryFits, Waiting, Owned
<1>. QED BY <1>3, <1>4, <1>5 DEF IInv

LEMMA ActingKeeps == IInv /\ Acting => IInv'
BY DiscardStep, RetrieveStep, RetrieveDiscardStep, SwapStep, DefeatStep, OtherActing
   DEF Acting

-----------------------------------------------------------------------------
(* The end of a hero's turn, of a turn and of a round. *)

LEMMA FinalizeKeeps == IInv /\ Finalize => IInv'
<1>. SUFFICES ASSUME IInv, Finalize PROVE IInv'
  OBVIOUS
<1>. DEFINE y == ResolveCurrent(hero[owner], turn)
<1>1. /\ pc = "settle" /\ pc' \in {"next", "over"} /\ hero' = [hero EXCEPT ![owner] = y]
      /\ actor' = NoHero /\ owner' = NoHero /\ stack' = NoWork
      /\ owed' = owed \ {owner} /\ coin' \in {"red", "blue"}
      /\ UNCHANGED <<phase, turn, plan, unresolved, board, due, upgrades, budget>>
  BY DEF Finalize, Other, IInv, TypeOK
<1>2. /\ phase = "RESOLUTION" /\ turn \in Slots /\ stack.dual = {}
      /\ owner \in Heroes /\ owner \notin unresolved /\ hero[owner] \in Hero
  BY <1>1 DEF IInv, TypeOK, PcFits, PoolFits, Owned
<1>3. /\ hero[owner].extra = NoCard /\ Once(hero[owner], hero[owner].current, NoCard)
      /\ Revealed(hero[owner], turn)
  <2>1. hero[owner].extra = NoCard
    BY <1>2 DEF IInv, AllCardsFit, CardsFit
  <2>. QED BY <1>2, <2>1 DEF IInv, AllCardsFit, CardsFit
<1>4. /\ y \in Hero /\ y.current = NoCard /\ y.extra = NoCard /\ y.count = turn
      /\ Once(y, NoCard, NoCard) /\ Revealed(y, turn)
  BY <1>2, <1>3, ResolveKeeps
<1>. HIDE DEF y
<1>5. /\ stack'.dual = {}
      /\ stack' \in [dual : SUBSET Heroes, payloads : SUBSET Heroes,
                     tied : SUBSET Heroes, flip : BOOLEAN]
  BY <1>1 DEF NoWork
<1>6. TypeOK'
  BY <1>1, <1>2, <1>4, <1>5 DEF IInv, TypeOK
<1>7. AllCardsFit'
  <2>. SUFFICES ASSUME NEW g \in Heroes PROVE CardsFit(g)'
    BY DEF AllCardsFit
  <2>1. hero'[g] = (IF g = owner THEN y ELSE hero[g]) /\ CardsFit(g)
    BY <1>1 DEF IInv, TypeOK, AllCardsFit
  <2>2. CASE g = owner
    BY <1>1, <1>2, <1>4, <1>5, <2>1, <2>2 DEF CardsFit, Waiting
  <2>3. CASE g # owner
    BY <1>1, <1>2, <1>5, <2>1, <2>3 DEF CardsFit, Waiting
  <2>. QED BY <2>2, <2>3
<1>8. PcFits' /\ PoolFits'
  BY <1>1, <1>2, <1>5, Constants DEF IInv, PcFits, PoolFits, Owned, TypeOK
<1>9. StoryFits'
  BY <1>1, <1>2 DEF IInv, TypeOK, StoryFits, Waiting
<1>. QED BY <1>6, <1>7, <1>8, <1>9 DEF IInv

\* The payloads of expired effects are put on the stack.
LEMMA ExpiryKeeps == IInv /\ (EndTurn \/ EndPhase) => IInv'
<1>. SUFFICES ASSUME IInv, EndTurn \/ EndPhase PROVE IInv'
  OBVIOUS
<1>1. /\ pc \in {"next", "end"} /\ unresolved = {} /\ pc' = "closing"
      /\ UNCHANGED <<phase, turn, hero, plan, unresolved, board, actor, owner, coin,
                     upgrades, budget, owed>>
      /\ phase \in {"RESOLUTION", "CLEANUP"} /\ stack.dual = {} /\ owner = NoHero
  BY DEF EndTurn, EndPhase, IInv, PcFits, PoolFits, Owned
<1>2. /\ stack'.dual = {}
      /\ stack' \in [dual : SUBSET Heroes, payloads : SUBSET Heroes,
                     tied : SUBSET Heroes, flip : BOOLEAN]
      /\ due' \in [turn : SUBSET Heroes, round : SUBSET Heroes, next : SUBSET Heroes]
  BY <1>1 DEF EndTurn, EndPhase, NoWork, IInv, TypeOK
<1>3. TypeOK'
  BY <1>1, <1>2 DEF IInv, TypeOK
<1>4. AllCardsFit'
  BY <1>1, <1>2, CardsFitStay DEF Waiting
<1>5. PcFits' /\ PoolFits' /\ StoryFits'
  BY <1>1, <1>2 DEF IInv, PcFits, PoolFits, StoryFits, Waiting, Owned
<1>. QED BY <1>3, <1>4, <1>5 DEF IInv

\* The next turn is planned from where the last one ended.
LEMMA AdvanceTurnKeeps == IInv /\ AdvanceTurn => IInv'
<1>. SUFFICES ASSUME IInv, AdvanceTurn PROVE IInv'
  OBVIOUS
<1>1. /\ pc = "closing" /\ phase = "RESOLUTION" /\ unresolved = {} /\ owner = NoHero
      /\ stack.dual = {} /\ turn \in Slots
      /\ UNCHANGED <<hero, unresolved, board, actor, owner, stack, coin, due,
                     upgrades, budget, owed>>
  BY DEF AdvanceTurn, AdvanceFrame, IInv, TypeOK, PcFits, PoolFits, Owned
<1>2. ASSUME NEW h \in Heroes
      PROVE  /\ hero[h] \in Hero /\ hero[h].current = NoCard /\ hero[h].extra = NoCard
             /\ hero[h].count = turn /\ Once(hero[h], NoCard, NoCard)
             /\ EmptyFrom(hero[h], turn + 1) /\ plan[h] = NoPlan
  <2>1. CardsFit(h) /\ hero[h] \in Hero /\ h \notin Waiting
    BY <1>1, Constants DEF IInv, TypeOK, AllCardsFit, Waiting
  <2>2. hero[h].current = NoCard /\ hero[h].extra = NoCard
    BY <1>1, <2>1 DEF CardsFit
  <2>. QED BY <1>1, <2>1, <2>2 DEF CardsFit, Revealed
<1>3. CASE turn < LastTurn
  <2>1. /\ turn' = turn + 1 /\ phase' = "PLANNING" /\ plan' = AutoPassed
        /\ pc' = (IF AllPlanned(plan', hero) THEN "reveal" ELSE "plan")
    BY <1>3 DEF AdvanceTurn
  <2>2. turn + 1 \in Slots
    BY <1>1, <1>3, Constants DEF Slots
  <2>3. /\ plan' \in [Heroes -> Plan]
        /\ \A h \in Heroes : /\ plan'[h].first = NoCard /\ plan'[h].second = NoCard
                             /\ hero[h].hand = {} => plan'[h].passed
    BY <2>1 DEF AutoPassed, Plan, NoPlan, PassPlan
  <2>4. TypeOK'
    BY <1>1, <2>1, <2>2, <2>3 DEF IInv, TypeOK
  <2>5. AllCardsFit'
    <3>. SUFFICES ASSUME NEW h \in Heroes
                 PROVE  /\ Planned(hero[h], plan'[h], turn + 1)
                        /\ plan'[h].second # NoCard => h \in TwoCard
      BY <1>1, <2>1 DEF AllCardsFit, CardsFit
    <3>1. hero[h].count = (turn + 1) - 1
      BY <1>1, <1>2, Constants
    <3>2. Pending(plan'[h]) \/ hero[h].hand # {}
      BY <2>3 DEF Pending
    <3>. QED BY <1>2, <2>3, <3>1, <3>2 DEF Planned
  <2>6. PcFits'
    <3>1. hero' = hero
      BY <1>1
    <3>2. pc' = "plan" => ~ AllPlanned(plan', hero')
      BY <2>1, <3>1
    <3>3. pc' = "reveal" => \A h \in Heroes : Pending(plan'[h])
      BY <2>1 DEF AllPlanned
    <3>. QED BY <2>1, <3>2, <3>3 DEF PcFits, Owned
  <2>7. PoolFits' /\ StoryFits'
    BY <1>1, <2>1, Constants DEF IInv, PoolFits, StoryFits, Waiting, Owned
  <2>. QED BY <2>4, <2>5, <2>6, <2>7 DEF IInv
<1>4. CASE ~ (turn < LastTurn)
  <2>1. phase' = "CLEANUP" /\ pc' = "end" /\ UNCHANGED <<turn, plan>>
    BY <1>4 DEF AdvanceTurn
  <2>2. TypeOK'
    BY <1>1, <2>1 DEF IInv, TypeOK
  <2>3. AllCardsFit'
    <3>. SUFFICES ASSUME NEW h \in Heroes PROVE CardsFit(h)'
      BY DEF AllCardsFit
    <3>1. CardsFit(h)
      BY DEF IInv, AllCardsFit
    <3>. QED BY <1>1, <2>1, <3>1 DEF CardsFit, Waiting
  <2>4. PcFits' /\ PoolFits' /\ StoryFits'
    BY <1>1, <2>1, Constants DEF IInv, PcFits, PoolFits, StoryFits, Waiting, Owned
  <2>. QED BY <2>2, <2>3, <2>4 DEF IInv
<1>. QED BY <1>3, <1>4

\* A round opens, or the table upgrades, for heroes at rest.
LEMMA RoundOpens ==
    ASSUME IInv, UNCHANGED <<plan, unresolved, board, actor, owner, stack, coin, due,
                             budget, owed>>,
           pc \in {"closing", "upgrade"}, phase # "PLANNING", upgrades' \subseteq Heroes,
           hero' \in [Heroes -> Hero], \A h \in Heroes : AtRest(hero'[h]),
           \/ phase' = "LEVEL_UP" /\ pc' = "upgrade" /\ upgrades' # {} /\ UNCHANGED turn
           \/ NewRound
    PROVE  IInv'
<1>1. /\ stack.dual = {} /\ owner = NoHero
      /\ \A h \in Heroes : plan[h] = NoPlan
  BY DEF IInv, PoolFits, AllCardsFit, CardsFit, Owned
<1>2. TypeOK'
  BY Constants DEF IInv, TypeOK, NewRound
<1>3. AllCardsFit'
  <2>. SUFFICES ASSUME NEW h \in Heroes PROVE CardsFit(h)'
    BY DEF AllCardsFit
  <2>1. AtRest(hero'[h]) /\ plan'[h] = NoPlan /\ stack'.dual = {} /\ NoPlan.second = NoCard
    BY <1>1 DEF NoPlan
  <2>3. hero'[h] \in Hero /\ Planned(hero'[h], NoPlan, 1)
    BY <2>1, RestedPlans
  <2>2. hero'[h].current = NoCard /\ hero'[h].extra = NoCard
        /\ Once(hero'[h], NoCard, NoCard)
    BY <2>1 DEF AtRest
  <2>. QED BY <2>1, <2>2, <2>3 DEF CardsFit, NewRound
<1>4. PcFits'
  <2>1. ~ AllPlanned(plan', hero')
    BY <1>1, NoneHasPlanned, Constants
  <2>. QED BY <2>1 DEF PcFits, NewRound, Owned
<1>5. PoolFits' /\ StoryFits'
  BY <1>1 DEF IInv, PoolFits, StoryFits, Waiting, NewRound, Owned
<1>. QED BY <1>2, <1>3, <1>4, <1>5 DEF IInv

\* The game stops where it is.
LEMMA GameEnds ==
    ASSUME IInv, UNCHANGED <<turn, hero, plan, unresolved, board, actor, owner, coin, due,
                             upgrades, budget, owed>>,
           pc' = "over", pc \in {"closing", "over"}, phase # "PLANNING",
           phase' \in {phase, "GAME_OVER"}, stack' \in {stack, NoWork}
    PROVE  IInv'
<1>1. stack.dual = {} /\ stack'.dual = {}
      /\ stack' \in [dual : SUBSET Heroes, payloads : SUBSET Heroes,
                     tied : SUBSET Heroes, flip : BOOLEAN]
  <2>1. stack.dual = {}
    BY DEF IInv, PoolFits
  <2>2. NoWork.dual = {} /\ NoWork \in [dual : SUBSET Heroes, payloads : SUBSET Heroes,
                                       tied : SUBSET Heroes, flip : BOOLEAN]
    BY DEF NoWork
  <2>3. stack \in [dual : SUBSET Heroes, payloads : SUBSET Heroes,
                   tied : SUBSET Heroes, flip : BOOLEAN]
    BY DEF IInv, TypeOK
  <2>4. CASE stack' = stack
    BY <2>1, <2>3, <2>4
  <2>5. CASE stack' = NoWork
    BY <2>1, <2>2, <2>5
  <2>. QED BY <2>4, <2>5
<1>2. TypeOK'
  BY <1>1 DEF IInv, TypeOK
<1>3. AllCardsFit'
  <2>. SUFFICES ASSUME NEW h \in Heroes PROVE CardsFit(h)'
    BY DEF AllCardsFit
  <2>1. CardsFit(h)
    BY DEF IInv, AllCardsFit
  <2>. QED BY <1>1, <2>1 DEF CardsFit, Waiting
<1>4. PcFits' /\ PoolFits' /\ StoryFits'
  <2>1. PcFits'
    BY DEF PcFits, Owned
  <2>2. PoolFits' /\ StoryFits'
    BY <1>1 DEF IInv, PoolFits, StoryFits, Waiting, Owned
  <2>. QED BY <2>1, <2>2
<1>. QED BY <1>2, <1>3, <1>4 DEF IInv

LEMMA RoundKeeps ==
    ASSUME IInv, EndPhaseCleanup \/ GameOver \/ \E h \in Heroes : Upgrade(h)
    PROVE  IInv'
<1>1. CASE GameOver
  <2>1. phase # "PLANNING"
    BY <1>1 DEF GameOver, IInv, PcFits
  <2>. QED BY <1>1, <2>1, GameEnds DEF GameOver
<1>2. ASSUME NEW h \in Heroes, Upgrade(h) PROVE IInv'
  <2>1. /\ pc = "upgrade" /\ phase = "LEVEL_UP" /\ upgrades' \subseteq Heroes
        /\ hero \in [Heroes -> Hero] /\ \A g \in Heroes : AtRest(hero[g])
        /\ UNCHANGED <<plan, unresolved, board, actor, owner, stack, coin, due,
                       budget, owed>>
        /\ \/ phase' = "LEVEL_UP" /\ pc' = "upgrade" /\ upgrades' # {} /\ UNCHANGED turn
           \/ NewRound
    BY <1>2 DEF Upgrade, IInv, TypeOK, PcFits, AllCardsFit, CardsFit
  <2>2. hero' \in [Heroes -> Hero] /\ \A g \in Heroes : AtRest(hero'[g])
    <3>1. CASE hero' = hero
      BY <2>1, <3>1
    <3>2. ASSUME NEW a \in hero[h].hand, NEW b \in hero[h].deck,
                 hero' = [hero EXCEPT ![h] = SwapCards(hero[h], a, b)]
          PROVE  hero' \in [Heroes -> Hero] /\ \A g \in Heroes : AtRest(hero'[g])
      <4>1. /\ a \in Cards /\ b \in Cards /\ hero[h] \in Hero /\ AtRest(hero[h])
            /\ hero[h].extra = NoCard /\ Once(hero[h], hero[h].current, NoCard)
        BY <2>1 DEF Hero, AtRest
      <4>. DEFINE y == SwapCards(hero[h], a, b)
      <4>2. y \in Hero /\ AtRest(y)
        BY <4>1, SwapKeeps
      <4>. HIDE DEF y
      <4>3. hero' = [hero EXCEPT ![h] = y]
        BY <3>2 DEF y
      <4>. QED BY <2>1, <4>2, <4>3
    <3>. QED BY <1>2, <3>1, <3>2 DEF Upgrade
  <2>. QED BY <2>1, <2>2, RoundOpens
<1>3. CASE EndPhaseCleanup
  <2>1. /\ pc = "closing" /\ phase = "CLEANUP" /\ stack.dual = {}
        /\ UNCHANGED <<plan, unresolved, board, actor, owner, stack, coin, due,
                       budget, owed>>
    BY <1>3 DEF EndPhaseCleanup, IInv, PoolFits
  <2>2. CASE pc' = "over" /\ UNCHANGED <<phase, turn, hero, upgrades>>
    BY <2>1, <2>2, GameEnds
  <2>3. ASSUME NEW U \in SUBSET Heroes,
               hero' = [h \in Heroes |-> RetrieveCards(hero[h])], upgrades' = U,
               \/ phase' = "LEVEL_UP" /\ pc' = "upgrade" /\ U # {} /\ UNCHANGED turn
               \/ NewRound
        PROVE  IInv'
    <3>1. ASSUME NEW h \in Heroes
          PROVE  RetrieveCards(hero[h]) \in Hero /\ AtRest(RetrieveCards(hero[h]))
      <4>1. hero[h] \in Hero /\ CardsFit(h)
        BY DEF IInv, TypeOK, AllCardsFit
      <4>2. hero[h].extra = NoCard
        BY <2>1, <4>1 DEF CardsFit
      <4>. QED BY <2>1, <4>1, <4>2, RetrieveAll DEF CardsFit
    <3>2. hero' \in [Heroes -> Hero] /\ \A h \in Heroes : AtRest(hero'[h])
      BY <2>3, <3>1
    <3>. QED BY <2>1, <2>3, <3>2, RoundOpens
  <2>4. Growing \subseteq Heroes
    BY TurnAssumption
  <2>. QED BY <1>3, <2>2, <2>3, <2>4 DEF EndPhaseCleanup
<1>. QED BY <1>1, <1>2, <1>3

LEMMA ClosingsKeep == IInv /\ Closings => IInv'
BY FinalizeKeeps, ExpiryKeeps, AdvanceTurnKeeps, RoundKeeps DEF Closings

-----------------------------------------------------------------------------
(* The theorems. *)

LEMMA Inductive == IInv /\ [Next]_vars => IInv'
<1>1. IInv /\ UNCHANGED vars => IInv'
  BY DEF vars, IInv, TypeOK, PcFits, PoolFits, StoryFits, AllCardsFit, CardsFit,
         Waiting, AllPlanned, OpenForSecond, Pending, Planned
<1>. QED BY <1>1, PlanningKeeps, OpeningKeeps, OrderingKeeps, ActingKeeps, ClosingsKeep
         DEF Next

\* The inductive invariant holds throughout.
THEOREM Invariance == Spec => []IInv
BY Initially, Inductive, PTL DEF Spec

\* The variables of the turn cycle keep to their types.
THEOREM TypeCorrect == Spec => []TypeOK
<1>1. IInv => TypeOK
  BY DEF IInv
<1>. QED BY <1>1, Invariance, PTL

\* No step waits for somebody who is not there: resolve_next_action's silent return
\* when nobody in the pool holds a card is dead, what runs in Resolution has an
\* owner, a tie has a hero who may win it, in planning somebody has still to plan
\* and holds a card for it, and who upgrades owes an upgrade.
THEOREM EngineNeverStuck == Spec => []NeverStuck
<1>1. IInv => NeverStuck
  BY Consequences
<1>. QED BY <1>1, Invariance, PTL

\* Commits, takebacks, reveals, discards from any place, retrievals, exchanges with
\* the hand, the discard, the slots or the deck, defeats, upgrades and the ends of
\* turns and rounds leave every card of a hero in exactly one place.
THEOREM CardsAreConserved == Spec => []CardsConserved
<1>1. IInv => CardsConserved
  BY Consequences
<1>. QED BY <1>1, Invariance, PTL

\* When a turn opens every hero has used one slot for each turn played.
THEOREM OneSlotPerTurn == Spec => []SlotPerTurn
<1>1. IInv => SlotPerTurn
  BY Consequences
<1>. QED BY <1>1, Invariance, PTL

\* When a turn closes every hero that committed a card has acted or fallen.
THEOREM CommitsHonoured == Spec => []CommitsAreHonoured
<1>1. IInv => CommitsAreHonoured
  BY Consequences
<1>. QED BY <1>1, Invariance, PTL
=============================================================================
