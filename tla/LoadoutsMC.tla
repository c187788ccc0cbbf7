----------------------------- MODULE LoadoutsMC -----------------------------
(***************************************************************************)
(* Loadouts over every way to upgrade a hero, with items that tell the     *)
(* cards of a pair apart, items that do not, and a mixture.                *)
(***************************************************************************)
EXTENDS Loadouts

ItemTables ==
    {[u \in Upgrades |-> IF u.side = 1 THEN "ATTACK" ELSE "DEFENSE"],
     [u \in Upgrades |-> "MOVEMENT"],
     [u \in Upgrades |-> IF u.color = "RED" /\ u.side = 1 THEN "ATTACK" ELSE "DEFENSE"]}

Novice(item) ==
    [level |-> 1, gold |-> 0, pending |-> 0, item |-> item, standard |-> TRUE,
     cards |-> [c \in Colors \cup Basics |->
                   IF c \in Colors THEN TierI(c) ELSE [color |-> c, tier |-> 0, side |-> 1]],
     at |-> [c \in Colors \cup Basics |-> "hand"], down |-> {},
     tucked |-> {}, items |-> [s \in Stats |-> 0], shown |-> {}]

\* The heroes after so many upgrades, made by the engine's own steps.
Raised(item) ==
    LET raised[n \in 0 .. 6] ==
            IF n = 0 THEN {Novice(item)}
            ELSE UNION {LET ready == [h EXCEPT !.level = n + 1, !.pending = 1]
                        IN  {ApplyUpgrade(ready, u) : u \in Options(ready)} : h \in raised[n - 1]}
    IN  [n \in 0 .. 6 |-> raised[n]]

Loadout(h) == [cards |-> [c \in Colors |-> h.cards[c]], tucked |-> h.tucked]
\* The upgrades a hero ever held: it chose each against the card it tucked.
Worn(h) == {Pair(u) : u \in h.tucked}

\* Levels are bought while they can be paid, nobody saves; every level below the
\* eighth brings one upgrade, there is something to offer as long as an upgrade is
\* due (or the phase would never end), and the last one leaves no tier below III.
ASSUME UpgradesNeverStick ==
    \A item \in ItemTables, n \in 0 .. 6 : \A h \in Raised(item)[n] :
        /\ (n < 6) = (Options(h) # {})
        /\ \A gold \in 0 .. 30 :
              LET before == [h EXCEPT !.gold = gold]
                  after  == LevelUp(before)
              IN  /\ after.pending = (IF after.level > 7 THEN 6 ELSE after.level - 1) - n
                  /\ after.level < 8 => after.gold <= after.level
                  /\ after.gold + LevelCost(h.level, after.level) - gold \in {0, 1}

\* The knowledge given to the others follows the engine: the loadouts it lists are
\* those the upgrades lead to, and of those it leaves exactly the ones that have
\* the public items and held every card revealed.
ASSUME KnowledgeIsExact ==
    \A item \in ItemTables, n \in 0 .. 6 :
        LET real == Raised(item)[n]
        IN  /\ {Loadout(h) : h \in real} = Ordinary[n]
            /\ \A h \in real : KnowledgeStatus(h, FALSE, Worn(h)) = "INFERRED"
            /\ \A h \in real :
                  \A revealed \in {{u} : u \in Worn(h)} \cup {{}, Worn(h)} :
                      Hypotheses(h, revealed) =
                          {Loadout(g) : g \in {g \in real : /\ g.items = h.items
                                                            /\ revealed \subseteq Worn(g)}}

\* Until everybody has chosen, what the others see of a hero does not depend on
\* what anybody chose.
Table0 ==
    LET item == CHOOSE i \in ItemTables : i[CHOOSE u \in Upgrades : u.side = 1] = "ATTACK"
        rich == LevelUp([Novice(item) EXCEPT !.gold = 3])
        poor == LevelUp([Novice(item) EXCEPT !.gold = 1])
    IN  [x \in {"rich", "poor"} |-> IF x = "rich" THEN rich ELSE poor]
ASSUME PicksStaySecret ==
    LET tables[n \in 0 .. 3] ==
            IF n = 0 THEN {Table0}
            ELSE {ResolveUpgrade(t, x, u) : t \in tables[n - 1], x \in DOMAIN Table0, u \in Upgrades}
    IN  /\ \A n \in 0 .. 3 : \A t \in tables[n] :
              (\E x \in DOMAIN t : t[x].pending > 0) =>
                  \A x \in DOMAIN t : View(t[x]) = View(Table0[x])
        /\ \E t \in tables[3] : \A x \in DOMAIN t : t[x].pending = 0 /\ t[x].shown = {}

\* One hero of each level, its cards anywhere.
Places == {"hand", "slot1", "slot2", "discard", "first", "second"}
Placed(n) ==
    LET item == CHOOSE i \in ItemTables : i[CHOOSE u \in Upgrades : TRUE] = "MOVEMENT"
        h == CHOOSE g \in Raised(item)[n] : TRUE
        ats == {f \in [Colors \cup Basics -> Places] :
                   /\ f["SILVER"] = "hand"
                   /\ \A c, d \in Colors \cup Basics :
                         c # d /\ f[c] = f[d] => f[c] \in {"hand", "discard"}
                   /\ (\E c \in DOMAIN f : f[c] = "second") => \E c \in DOMAIN f : f[c] = "first"}
    IN  {[h EXCEPT !.at = f] : f \in ats}

\* The cards of a colour everybody sees.
OpenColors(h) == {c \in Colors : h.at[c] \in Slots \cup {"discard"}}
Open(h) == AreActive(h, OpenColors(h))

\* The true world is among those a bot samples, and each of them looks to it like
\* the true one if its loadout has the cards that lie open. Between two tiers a
\* loadout that fits all reveals need not have them: a card that lies open is then
\* missing from the sample, and its owner holds a card too many.
ASSUME SamplesLookTheSame ==
    /\ \A n \in {0, 1, 2, 3} : \A h \in Placed(n) :
          /\ h \in DeterminizeHero(h, Open(h))
          /\ \A l \in Candidates(h, Open(h)) :
                (\A c \in OpenColors(h) : l.cards[c] = h.cards[c]) =>
                    \A g \in Deal(h, l) : View(g) = View(h)
    /\ \A h \in Placed(3), l \in Ordinary[3] :
          l \in Candidates(h, Open(h)) =>
              \A c \in OpenColors(h) : l.cards[c] = h.cards[c]
    /\ \E h \in Placed(1) : \E g \in DeterminizeHero(h, Open(h)) :
          View(g).hand_size > View(h).hand_size

\* A message beside a view names no card the view hides, and may name every card
\* the view shows.
ASSUME MessagesMatchViews ==
    \A n \in {0, 2} : \A placed \in Placed(n) : \A down \in SUBSET OpenColors(placed) :
        LET h == [placed EXCEPT !.down = down]
            seen == UNION {View(h).played[s] : s \in Slots}
                    \cup {View(h).discard[c] : c \in DOMAIN View(h).discard}
        IN  {c \in Card : CardVisible(h, c, FALSE)} = seen \ {Blank}
=============================================================================
