------------------------------ MODULE TokensMC ------------------------------
(***************************************************************************)
(* Tokens on a small board and on the strip of MovesMC, against what may   *)
(* be done by hand.                                                        *)
(***************************************************************************)
EXTENDS Tokens, MovesMC

\* A hero at the centre, an enemy next to it, the spaces around the enemy, and two
\* far off.
Hero == At(0, 0)
Anchor == At(1, 0)
Field == {Anchor} \cup Neighbors(Anchor) \cup {At(0, -2), At(-2, 2)}
Worlds(stones, areas) ==
    {[board |-> [tiles |-> Field, blocked |-> {Hero, Anchor} \cup stones \cup ts, passable |-> {},
                 denied |-> areas[1], barriers |-> areas[2], unit |-> {Hero}, cracks |-> cracks],
      tokens |-> ts, supply |-> 3] :
        cracks \in {{}} \cup (IF stones = {} THEN {{Split("q", 1)}} ELSE {}),
        ts \in {ts \in SUBSET (Field \ ({Hero, Anchor} \cup stones)) : Cardinality(ts) <= 3}}
OpenWorlds ==
    UNION {Worlds(stones, <<{}, {}>>) : stones \in {{}, {At(-2, 2)}, {At(0, 1), At(1, -1)}}}

\* The batches of the cards: two or three tokens at least three spaces apart, or
\* three next to an enemy. No type that is placed so has more than three tokens.
Spread == [kind |-> "spread", origin |-> Hero, radius |-> 2, spacing |-> 3]
Grip   == [kind |-> "grip", origin |-> Hero, anchor |-> Anchor]
Batches == {<<Spread, 2>>, <<Spread, 3>>, <<Grip, 3>>}

\* A batch is offered exactly if some tokens can be removed and the others then
\* placed, one after the other, on the board as it will be.
ByHand(w, rule, count) ==
    LET Legal(x) == {h \in Field : /\ Fits(x.world.board, rule, {}, x.chosen, h)
                                   /\ ~ObstacleForActor(x.world.board, h)}
        Place(x) ==
            {[world |-> PutToken(x.world, h), chosen |-> x.chosen \cup {h}] : h \in Legal(x)}
    IN  \E y \in RemoveTokens(w, Removals(w, count)) :
            \E x \in Rounds([world |-> y, chosen |-> {}], Place, count)[count] :
                Cardinality(x.chosen) = count
ASSUME OfferedIfPossible ==
    \A batch \in Batches, w \in OpenWorlds :
        Feasible(w, batch[1], batch[2]) <=> ByHand(w, batch[1], batch[2])

\* No answer leads a batch into a dead end: it goes on until it is done, and then
\* none of its tokens has been taken away again.
Stuck(x, rule, count) == ~BatchDone(x, count) /\ BatchSteps(x, rule, count) = {}
ASSUME BatchesGoThrough ==
    \A batch \in Batches, w \in OpenWorlds :
        \A x \in PlaceTokenBatch(w, batch[1], batch[2]) :
            ~Stuck(x, batch[1], batch[2]) /\ x.chosen \subseteq x.world.tokens
ASSUME BatchesHappen ==
    \A batch \in Batches : \E w \in OpenWorlds :
        Removals(w, batch[2]) >= 2 /\ Feasible(w, batch[1], batch[2])

\* Where an enemy closes empty spaces, a token's space is taken for free once the
\* token goes, but is not: tokens are removed, and then the action is aborted.
ASSUME ClosedSpacesTrapBatches ==
    \A batch \in {<<Spread, 3>>, <<Grip, 3>>} :
        \E w \in Worlds({}, <<{[at |-> At(2, 0), radius |-> 1]}, {}>>) :
            \E x \in PlaceTokenBatch(w, batch[1], batch[2]) :
                Stuck(x, batch[1], batch[2]) /\ x.world.tokens # w.tokens

-----------------------------------------------------------------------------
(* Rows, on the strip of MovesMC. *)

RowWorlds(at, spaces, supply) ==
    {[board |-> [tiles |-> Strip, blocked |-> {at} \cup stones \cup ts, passable |-> {},
                 denied |-> {}, barriers |-> {}, unit |-> {at}, cracks |-> {}],
      tokens |-> ts, supply |-> supply] :
        stones \in SUBSET ({At(1, 0), At(3, 0)} \cap spaces),
        ts \in {ts \in SUBSET (spaces \ {At(1, 0), At(3, 0)}) : Cardinality(ts) <= supply}}

\* What is removed is no more than what is missing.
Spared(before, after, filled) ==
    Cardinality(before.tokens \ after.tokens)
        = Larger(0, Cardinality(filled) - Available(before))

\* A line fills the first free spaces there are once the removals are done. No
\* token is removed that it could do without, and none of its own.
ASSUME LinesAreFilled ==
    \A count \in 1 .. 3, w \in RowWorlds(At(-1, 0), Strip \ {At(-1, 0)}, 3) :
        LET Targets(x) == LineTargets(x, At(-1, 0), At(0, 0), count)
        IN  \A x \in Reconciled(w, Targets) :
                LET filled == Values(Targets(x))
                IN  /\ Spared(w, x, filled)
                    /\ \A y \in PlaceAll(x, Targets(x)) : y.tokens = x.tokens \cup filled

\* So does a trail of up to four spaces, with four tokens. A card may be performed
\* with tokens of another type, and there are three of those: then the trail takes
\* up again what it has placed.
Beside(dest) == {h \in Strip : h.r # 0 \/ h.q > dest.q}
Filled(w, dest) ==
    LET spaces == Values(TrailTargets(At(-1, 0), dest, {}))
    IN  \A x \in PlaceTokenTrail(w, At(-1, 0), dest, {}) :
            spaces \subseteq x.tokens /\ Spared(w, x, spaces)
ASSUME TrailsAreFilled ==
    \A dest \in {At(1, 0), At(3, 0)} : \A w \in RowWorlds(dest, Beside(dest), 4) : Filled(w, dest)
ASSUME ShortSupplyBreaksTrails ==
    /\ \A w \in RowWorlds(At(2, 0), Beside(At(2, 0)), 3) : Filled(w, At(2, 0))
    /\ \A w \in RowWorlds(At(3, 0), Beside(At(3, 0)), 3) : ~Filled(w, At(3, 0))
=============================================================================
