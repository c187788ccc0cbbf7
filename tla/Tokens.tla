------------------------------- MODULE Tokens -------------------------------
(***************************************************************************)
(* Tokens of one type: their supply, how one is placed, and how several    *)
(* are: in a line, along a trail, or as a batch that must be completed.    *)
(*                                                                         *)
(* A world is a record: the board as the one who places sees it (Paths),   *)
(* the spaces of the tokens on it, and their supply, on and off the board. *)
(* No token is placed on terrain, so that a blocked space is an occupied   *)
(* one. An operation has a set of outcomes, one for every answer its       *)
(* prompts may get.                                                        *)
(***************************************************************************)
EXTENDS Moves, Sequences

Available(w) == w.supply - Cardinality(w.tokens)

RemoveToken(w, h) == [w EXCEPT !.tokens = @ \ {h}, !.board.blocked = @ \ {h}]
PutToken(w, h) == [w EXCEPT !.tokens = @ \cup {h}, !.board.blocked = @ \cup {h}]

\* If the supply is out, its owner chooses a token to take from the board.
PlaceToken(w, h) ==
    IF h \in w.board.blocked THEN {w}
    ELSE IF Available(w) > 0 THEN {PutToken(w, h)}
    ELSE IF w.tokens = {} THEN {w}
    ELSE {PutToken(RemoveToken(w, t), h) : t \in w.tokens}

-----------------------------------------------------------------------------
(* Rows of tokens. *)

Shortfall(w, needed) ==
    LET missing == Larger(0, needed - Available(w))
    IN  IF missing < Cardinality(w.tokens) THEN missing ELSE Cardinality(w.tokens)

RemoveTokens(w, n) ==
    {[w EXCEPT !.tokens = @ \ ts, !.board.blocked = @ \ ts] :
        ts \in {ts \in SUBSET w.tokens : Cardinality(ts) = n}}

\* What is due may grow with every removal, for one may clear a target.
Reconciled(w, Targets(_)) ==
    LET Due(x) == Shortfall(x, Len(Targets(x)))
        worlds[n \in 0 .. w.supply] ==
            IF n = 0 THEN {w} ELSE UNION {RemoveTokens(x, Due(x)) : x \in worlds[n - 1]}
    IN  worlds[w.supply]

PlaceAll(w, targets) ==
    LET worlds[n \in 0 .. Len(targets)] ==
            IF n = 0 THEN {w} ELSE UNION {PlaceToken(x, targets[n]) : x \in worlds[n - 1]}
    IN  worlds[Len(targets)]

PlaceRow(w, Targets(_)) == UNION {PlaceAll(x, Targets(x)) : x \in Reconciled(w, Targets)}

\* The first free spaces of a line; obstacles are skipped, not landed on.
LineTargets(w, origin, ref, count) ==
    LET Space(n) == Plus(origin, Scale(UnitStep(origin, ref), n))
        edge == CHOOSE n \in 1 .. 50 :
                    /\ Space(n) \notin w.board.tiles
                    /\ \A m \in 1 .. n - 1 : Space(m) \in w.board.tiles
        Clear(h) == h \notin w.board.blocked
        targets == SelectSeq([n \in 1 .. edge - 1 |-> Space(n)], Clear)
    IN  IF Len(targets) < count THEN targets ELSE SubSeq(targets, 1, count)

PlaceTokensInLine(w, origin, ref, count) ==
    LET Targets(x) == LineTargets(x, origin, ref, count)
    IN  IF origin = ref \/ ~StraightLine(origin, ref) THEN {w} ELSE PlaceRow(w, Targets)

\* The spaces a unit left and moved through, but for the ones it was let through.
TrailTargets(origin, dest, excluded) ==
    LET Crossed(h) == h \notin excluded
    IN  SelectSeq([n \in 1 .. Distance(origin, dest) |->
                      Plus(origin, Scale(UnitStep(origin, dest), n - 1))], Crossed)

PlaceTokenTrail(w, origin, dest, excluded) ==
    LET Targets(x) == TrailTargets(origin, dest, excluded)
    IN  IF origin = dest \/ ~StraightLine(origin, dest) THEN {w} ELSE PlaceRow(w, Targets)

-----------------------------------------------------------------------------
(* Batches. A rule says where each of the tokens may go: those of a spread *)
(* within a radius and apart from each other, those of a grip next to an   *)
(* anchor and as far from the origin as possible. A search through the     *)
(* batch takes some occupied spaces for freed.                             *)

Far(board, a, b) == IF Connected(a, b, board.cracks) THEN Distance(a, b) ELSE 50

EmptyAdjacent(board, anchor, freed, chosen) ==
    {h \in ConnectedNeighbors(anchor, board.cracks) \cap board.tiles :
        h \notin chosen /\ (h \notin board.blocked \/ h \in freed)}

Fits(board, rule, freed, chosen, h) ==
    IF rule.kind = "spread"
    THEN /\ InRange(board, rule.origin, h, 0, rule.radius)
         /\ \A c \in chosen : Distance(c, h) >= rule.spacing
    ELSE LET empty == EmptyAdjacent(board, rule.anchor, freed, chosen)
         IN  /\ h \in empty
             /\ \A e \in empty : Far(board, rule.origin, e) <= Far(board, rule.origin, h)

\* The full choices of count spaces that go on from chosen. Spaces of free are as
\* good as empty; at most budget of the removable ones will be.
Completions(board, rule, free, removable, budget, chosen, count) ==
    LET Spent(hs) == (hs \cap removable) \ free
        certain == free \cup (IF budget >= Cardinality(removable) THEN removable ELSE {})
        Next(hs) ==
            {hs \cup {h} : h \in {h \in board.tiles \ hs :
                /\ Cardinality(Spent(hs \cup {h})) <= budget
                /\ h \in free \cup removable \/ ~ObstacleForActor(board, h)
                /\ Fits(board, rule, certain \cup Spent(hs \cup {h}), hs, h)}}
        choices[n \in Cardinality(chosen) .. count] ==
            IF n = Cardinality(chosen) THEN {chosen} ELSE UNION {Next(hs) : hs \in choices[n - 1]}
    IN  choices[count]

Removals(w, count) == Larger(0, count - Available(w))

Feasible(w, rule, count) ==
    /\ count <= w.supply
    /\ Completions(w.board, rule, {}, w.tokens, Removals(w, count), {}, count) # {}

\* May token t be removed, if with it left removals are due?
TokenRemovalCompletable(w, rule, count, left, t) ==
    Completions(w.board, rule, {t}, w.tokens \ {t}, left - 1, {}, count) # {}

\* May the next token be placed on h?
HexBatchCompletable(w, rule, count, chosen, h) ==
    /\ h \notin chosen /\ ~ObstacleForActor(w.board, h) /\ Fits(w.board, rule, {}, chosen, h)
    /\ Completions(w.board, rule, {}, {}, 0, chosen \cup {h}, count) # {}

\* A batch that goes on: first the removals, then the spaces. It is stuck if it is
\* not done and nothing is on offer; the action is then aborted.
BatchSteps(x, rule, count) ==
    IF x.left > 0
    THEN {[x EXCEPT !.world = RemoveToken(@, t), !.left = @ - 1] :
             t \in {t \in x.world.tokens :
                       TokenRemovalCompletable(x.world, rule, count, x.left, t)}}
    ELSE IF Cardinality(x.chosen) = count THEN {}
    ELSE UNION {{[x EXCEPT !.world = y, !.chosen = @ \cup {h}] : y \in PlaceToken(x.world, h)} :
             h \in {h \in x.world.board.tiles :
                       HexBatchCompletable(x.world, rule, count, x.chosen, h)}}

BatchDone(x, count) == x.left = 0 /\ Cardinality(x.chosen) = count

\* Whatever a batch may come to; nothing happens if it is not feasible.
PlaceTokenBatch(w, rule, count) ==
    LET start == [world |-> w, left |-> Removals(w, count), chosen |-> {}]
        after[n \in 0 .. start.left + count] ==
            IF n = 0 THEN {start} ELSE UNION {BatchSteps(x, rule, count) : x \in after[n - 1]}
    IN  IF Feasible(w, rule, count) THEN UNION {after[n] : n \in DOMAIN after} ELSE {}
=============================================================================
