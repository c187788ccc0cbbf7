------------------------------ MODULE BoardProofs ------------------------------
(***************************************************************************)
(* What stands on the board, what acts on it and who comes to it.  Lanes:  *)
(* for any maps and minions, a push that waits is still due, a push brings *)
(* back every minion it can, no zone is left to one team, and a match that *)
(* is decided ends.  Effects, an instance: for any heroes, cards and kinds *)
(* of effects, no effect sleeps for ever, no card has one twice, a played  *)
(* card's effects end with the round, what is left over is late, and       *)
(* payloads run once and in their time.  Draft: for any lobby and roster,  *)
(* the order of every mode fits the teams, and the draft goes on to its    *)
(* last claim.                                                             *)
(***************************************************************************)
EXTENDS Lanes, Draft, FiniteSetTheorems, SequenceTheorems, WellFoundedInduction, TLAPS

(* The steps on the stack. *)

Anywhere == {Limbo, Wild} \cup (Lane \X Int)

Steps ==
    [do : {"battle", "check"}] \cup [do : {"return"}, done : SUBSET Minions]
      \cup [do : {"remove"}, team : Teams, left : Nat, from : Anywhere]
      \cup [do : {"push"}, lane : Lane, loser : Teams, decides : BOOLEAN, target : Int]
      \cup [do : {"displace"}, who : SUBSET Minions]
      \cup [do : {"over"}, winner : Teams]

TypeOK ==
    /\ board \in Boards /\ zone \in [Lane -> Int]
    /\ Lanes \subseteq DOMAIN waves /\ \A l \in Lanes : waves[l] \in Int
    /\ at \in [Minions -> Anywhere] /\ lives \in [Teams -> Nat]
    /\ todo \in Seq(Steps) /\ over \in Teams \cup {Nobody} /\ patches \in Nat

\* What may lie above a step of a kind.
Above(kind) ==
    CASE kind = "check"                            -> {"return", "battle", "remove", "over"}
      [] kind = "remove"                           -> {"remove", "over"}
      [] kind = "push"                             -> {"push", "displace", "over"}
      [] kind \in {"return", "battle", "displace"} -> {"over"}
      [] OTHER                                     -> {}

Ordered(s) == \A i, j \in DOMAIN s : i < j => s[i].do \in Above(s[j].do)

\* A push that waits knows its lane as it is.
PushFits(step) ==
    step.do = "push" =>
        /\ step.lane \in Lanes /\ step.decides = ~Multi
        /\ Loser(Here(step.lane)) = step.loser
        /\ step.decides \/ (step.target = Target(step.lane, step.loser) /\ ~Throne(step.target))

\* No lane is pushed twice, and nobody who looks for a space counts in a lane
\* that is still to be pushed, before or after.
Apart(f, g) ==
    g.do = "push" =>
        /\ f.do = "push" => f.lane # g.lane
        /\ f.do = "displace" => \A m \in f.who : at[m] = Limbo /\ LaneOf[m] # g.lane

Pushes(s) == /\ \A i \in DOMAIN s : PushFits(s[i])
             /\ \A i, j \in DOMAIN s : i < j => Apart(s[i], s[j])

NoThrone == \A l \in Lanes : ~Throne(zone[l])

Finished == over # Nobody => todo = <<>>

PushInv == TypeOK /\ Ordered(todo) /\ Finished /\ NoThrone /\ Pushes(todo)

\* Nothing decides the match.
Alive(T) == (\A t \in T : lives[t] > 0) /\ (Multi \/ \A l \in Lanes : waves[l] > 0)

Undecided == over = Nobody /\ \A i \in DOMAIN todo : todo[i].do # "over"

\* A patch may undo one decision, and there is but one to undo.
OneDecision ==
    /\ Undecided => Alive(Teams)
    /\ patches = 0 => \A t \in Teams : lives[t] = 0 => Alive({Other(t)})

LanesInv == PushInv /\ OneDecision
-----------------------------------------------------------------------------
(* Sequences. *)

\* What one stack put on another holds.
LEMMA Onto ==
    ASSUME NEW S, NEW s \in Seq(S), NEW r \in Seq(S)
    PROVE  /\ s \o r \in Seq(S)
           /\ \A i \in DOMAIN s : i \in DOMAIN (s \o r) /\ (s \o r)[i] = s[i]
           /\ \A i \in DOMAIN (s \o r) :
                \/ i \in DOMAIN s
                \/ i - Len(s) \in DOMAIN r /\ i > Len(s) /\ (s \o r)[i] = r[i - Len(s)]
  OBVIOUS

\* What is left when the first step is popped.
LEMMA Popped ==
    ASSUME NEW S, NEW s \in Seq(S), s # <<>>
    PROVE  /\ Tail(s) \in Seq(S) /\ Head(s) = s[1] /\ 1 \in DOMAIN s /\ Head(s) \in S
           /\ \A i \in DOMAIN Tail(s) : /\ i + 1 \in DOMAIN s /\ 1 < i + 1
                                        /\ Tail(s)[i] = s[i + 1]
  OBVIOUS

LEMMA Empty == ASSUME NEW S PROVE <<>> \in Seq(S) /\ DOMAIN <<>> = {}
  OBVIOUS

LEMMA Single ==
    ASSUME NEW S, NEW x \in S
    PROVE  <<x>> \in Seq(S) /\ DOMAIN <<x>> = {1} /\ <<x>>[1] = x
  OBVIOUS

LEMMA Pair ==
    ASSUME NEW S, NEW x \in S, NEW y \in S
    PROVE  <<x, y>> \in Seq(S) /\ DOMAIN <<x, y>> = {1, 2} /\ <<x, y>>[1] = x /\ <<x, y>>[2] = y
  OBVIOUS

\* The kinds of two stacks that may lie on each other.
LEMMA OrderedOnto ==
    ASSUME NEW S, NEW s \in Seq(S), NEW r \in Seq(S), Ordered(s), Ordered(r),
           \A i \in DOMAIN s, j \in DOMAIN r : s[i].do \in Above(r[j].do)
    PROVE  Ordered(s \o r)
<1>. DEFINE t == s \o r
<1> SUFFICES ASSUME NEW i \in DOMAIN t, NEW j \in DOMAIN t, i < j
             PROVE  t[i].do \in Above(t[j].do)
  BY DEF Ordered
<1>1. i \in Nat /\ j \in Nat /\ Len(s) \in Nat /\ DOMAIN s = 1 .. Len(s)
  OBVIOUS
<1>2. CASE j \in DOMAIN s
  <2>1. i \in DOMAIN s
    BY <1>1, <1>2
  <2>. QED BY <1>2, <2>1, Onto DEF Ordered
<1>3. CASE j \notin DOMAIN s
  <2>1. j - Len(s) \in DOMAIN r /\ t[j] = r[j - Len(s)]
    BY <1>3, Onto
  <2>2. CASE i \in DOMAIN s
    BY <2>1, <2>2, Onto
  <2>3. CASE i \notin DOMAIN s
    <3>1. i - Len(s) \in DOMAIN r /\ t[i] = r[i - Len(s)]
      BY <2>3, Onto
    <3>2. i - Len(s) < j - Len(s)
      BY <1>1
    <3>. HIDE DEF t
    <3>. QED BY <2>1, <3>1, <3>2 DEF Ordered
  <2>. QED BY <2>2, <2>3
<1>. QED BY <1>2, <1>3

LEMMA OrderedTail ==
    ASSUME NEW S, NEW s \in Seq(S), s # <<>>, Ordered(s)
    PROVE  Ordered(Tail(s)) /\ \A i \in DOMAIN Tail(s) : Head(s).do \in Above(Tail(s)[i].do)
<1>. DEFINE r == Tail(s)
<1>1. /\ Head(s) = s[1] /\ 1 \in DOMAIN s
      /\ \A i \in DOMAIN r : i + 1 \in DOMAIN s /\ 1 < i + 1 /\ r[i] = s[i + 1]
  BY Popped
<1>2. \A i, j \in DOMAIN r : i < j => i + 1 < j + 1
  OBVIOUS
<1>. HIDE DEF r
<1>3. Ordered(r)
  BY <1>1, <1>2 DEF Ordered
<1>4. \A i \in DOMAIN r : Head(s).do \in Above(r[i].do)
  BY <1>1 DEF Ordered
<1>. QED BY <1>3, <1>4 DEF r

-----------------------------------------------------------------------------
(* Counting. *)

LEMMA MaxOfTwo ==
    ASSUME NEW a \in Int, NEW b \in Int
    PROVE  Max({a, b}) \in {a, b} /\ Max({a, b}) >= a /\ Max({a, b}) >= b
<1>1. \E x \in {a, b} : \A y \in {a, b} : x >= y
  <2>1. CASE a >= b
    BY <2>1
  <2>2. CASE ~(a >= b)
    <3>1. b >= a /\ b >= b
      BY <2>2
    <3>. QED BY <3>1
  <2>. QED BY <2>1, <2>2
<1>. QED BY <1>1 DEF Max

LEMMA MinOfTwo ==
    ASSUME NEW a \in Int, NEW b \in Int
    PROVE  Min({a, b}) \in {a, b} /\ Min({a, b}) <= a /\ Min({a, b}) <= b
<1>1. \E x \in {a, b} : \A y \in {a, b} : x <= y
  <2>1. CASE a <= b
    BY <2>1
  <2>2. CASE ~(a <= b)
    <3>1. b <= a /\ b <= b
      BY <2>2
    <3>. QED BY <3>1
  <2>. QED BY <2>1, <2>2
<1>. QED BY <1>1 DEF Min

\* A set of natural numbers has a least one.
LEMMA Least ==
    ASSUME NEW N \in SUBSET Nat, N # {}
    PROVE  \E n \in N : \A m \in N : n <= m
<1>. DEFINE R == OpToRel(<, Nat)
<1>1. \A x, y \in Nat : x < y => <<x, y>> \in R
  BY Zenon DEF OpToRel
<1>2. IsWellFoundedOn(R, Nat)
  BY NatLessThanWellFounded, Zenon
<1>. HIDE DEF R
<1>3. N \subseteq Nat
  OBVIOUS
<1>4. PICK n \in N : \A m \in N : ~ (<<m, n>> \in R)
  BY <1>2, <1>3, WFMin, Zenon
<1>5. \A m \in N : ~ (m < n)
  BY <1>1, <1>3, <1>4, Zenon
<1>6. \A m \in N : n <= m
  BY <1>3, <1>5
<1>. QED BY <1>6

\* A finite set has subsets of every smaller size.
LEMMA SubsetOfSize ==
    ASSUME NEW S, IsFiniteSet(S), NEW n \in Nat, n <= Cardinality(S)
    PROVE  \E T \in SUBSET S : Cardinality(T) = n
<1>. DEFINE N == {c \in Nat : n <= c /\ \E T \in SUBSET S : Cardinality(T) = c}
<1>1. N \in SUBSET Nat /\ N # {}
  <2>1. Cardinality(S) \in N
    BY FS_CardinalityType
  <2>. QED BY <2>1
<1>2. PICK c \in N : \A m \in N : c <= m
  BY <1>1, Least
<1>3. PICK T \in SUBSET S : Cardinality(T) = c
  OBVIOUS
<1>4. CASE c = n
  BY <1>3, <1>4
<1>5. CASE c # n
  <2>1. c > n /\ c > 0 /\ c \in Nat
    BY <1>5
  <2>2. IsFiniteSet(T)
    BY FS_Subset
  <2>3. T # {}
    BY <1>3, <2>1, FS_EmptySet
  <2>4. PICK x \in T : TRUE
    BY <2>3
  <2>5. Cardinality(T \ {x}) = c - 1
    BY <1>3, <2>2, <2>4, FS_RemoveElement
  <2>6. T \ {x} \in SUBSET S
    OBVIOUS
  <2>7. c - 1 \in N
    BY <2>1, <2>5, <2>6
  <2>. QED BY <1>2, <2>1, <2>7
<1>. QED BY <1>4, <1>5

\* The kinds of minions.
LEMMA KindType == ASSUME NEW m \in Minions PROVE Kind(m) \in MinionKinds
<1>1. TeamOf[m] \in Teams /\ (m \in Heavies) \in BOOLEAN
  BY LanesAssumption
<1>. QED BY <1>1, Zenon DEF Kind, MinionKinds

LEMMA CountType == ASSUME NEW t, NEW z PROVE Count(t, z) \in Nat
<1>1. IsFiniteSet({m \in Minions : TeamOf[m] = t /\ at[m] = z})
  BY LanesAssumption, FS_Subset
<1>. QED BY <1>1, FS_CardinalityType DEF Count

\* The minions drafted for a zone wait in the box; of each kind they are all
\* that wait, or as many as there are spawn points.
Box(place, l, k)  == {m \in Bound(l, k) : place[m] = Limbo}
Room(points, k)   == Cardinality({p \in points : PointKind(p) = k})
OfKind(M, k)      == {m \in M : Kind(m) = k}

LEMMA Drafts ==
    ASSUME NEW place, NEW l, NEW points, IsFiniteSet(points)
    PROVE  /\ \A m \in Drafted(place, l, points) :
                m \in Minions /\ LaneOf[m] = l /\ place[m] = Limbo
           /\ \A k \in MinionKinds :
                LET chosen == OfKind(Drafted(place, l, points), k)
                IN  chosen = Box(place, l, k) \/ Cardinality(chosen) = Room(points, k)
<1>. DEFINE Part(k) == Min({Room(points, k), Cardinality(Box(place, l, k))})
            Chosen(k) == CHOOSE S \in SUBSET Box(place, l, k) : Cardinality(S) = Part(k)
<1>1. ASSUME NEW k \in MinionKinds
      PROVE  /\ Chosen(k) \subseteq Box(place, l, k)
             /\ Chosen(k) = Box(place, l, k) \/ Cardinality(Chosen(k)) = Room(points, k)
  <2>1. IsFiniteSet(Box(place, l, k)) /\ IsFiniteSet({p \in points : PointKind(p) = k})
    BY LanesAssumption, FS_Subset DEF Box, Bound
  <2>2. Room(points, k) \in Nat /\ Cardinality(Box(place, l, k)) \in Nat
    BY <2>1, FS_CardinalityType DEF Room
  <2>3. /\ Part(k) \in {Room(points, k), Cardinality(Box(place, l, k))}
        /\ Part(k) <= Cardinality(Box(place, l, k))
    BY <2>2, MinOfTwo
  <2>4. Part(k) \in Nat
    BY <2>2, <2>3
  <2>5. \E S \in SUBSET Box(place, l, k) : Cardinality(S) = Part(k)
    <3>. HIDE DEF Part
    <3>. QED BY <2>1, <2>3, <2>4, SubsetOfSize
  <2>6. Chosen(k) \in SUBSET Box(place, l, k) /\ Cardinality(Chosen(k)) = Part(k)
    <3>. HIDE DEF Part
    <3>. QED BY <2>5, Zenon
  <2>. HIDE DEF Part, Chosen
  <2>7. Cardinality(Chosen(k)) = Cardinality(Box(place, l, k)) => Chosen(k) = Box(place, l, k)
    BY <2>1, <2>6, FS_Subset
  <2>. QED BY <2>3, <2>6, <2>7
<1>2. Drafted(place, l, points) = UNION {Chosen(k) : k \in MinionKinds}
  BY Zenon DEF Drafted, Box, Room
<1>. HIDE DEF Chosen
<1>3. \A k \in MinionKinds : \A m \in Chosen(k) :
          m \in Minions /\ LaneOf[m] = l /\ Kind(m) = k /\ place[m] = Limbo
  BY <1>1 DEF Box, Bound
<1>4. \A k \in MinionKinds : OfKind(Drafted(place, l, points), k) = Chosen(k)
  BY <1>2, <1>3 DEF OfKind
<1>. QED BY <1>1, <1>2, <1>3, <1>4

-----------------------------------------------------------------------------
(* Lanes. *)

\* What holds of the board all along.
Board == board \in Boards /\ zone \in [Lane -> Int] /\ NoThrone

LEMMA LaneFacts ==
    ASSUME board \in Boards
    PROVE  /\ Lanes \subseteq Lane /\ IsFiniteSet(Lanes) /\ Len(board) \in Nat
           /\ ~Multi => \A l, k \in Lanes : l = k
           /\ \A l \in Lanes : ~Before(l, l)
<1>1. board \in Seq(Lane) /\ \A i, j \in DOMAIN board : board[i] = board[j] => i = j
  BY LanesAssumption
<1>2. Lanes = {board[i] : i \in DOMAIN board}
  BY DEF Lanes, ToSet
<1>3. DOMAIN board = 1 .. Len(board) /\ Len(board) \in Nat
  BY <1>1
<1>4. IsFiniteSet(Lanes)
  <2>1. board \in Surjection(1 .. Len(board), Lanes)
    BY <1>1, <1>2, <1>3 DEF Surjection
  <2>2. IsFiniteSet(1 .. Len(board))
    BY <1>3, FS_Interval
  <2>. QED BY <2>1, <2>2, FS_Surjection
<1>5. ~Multi => \A l, k \in Lanes : l = k
  <2>1. ~Multi => \A i, j \in DOMAIN board : i = j
    BY <1>3 DEF Multi
  <2>. QED BY <1>2, <2>1
<1>6. Lanes \subseteq Lane
  BY <1>1, <1>2
<1>7. \A l : ~Before(l, l)
  <2>1. \A i, j \in DOMAIN board : i < j => i # j
    BY <1>3
  <2>. QED BY <1>1, <2>1 DEF Before
<1>. QED BY <1>3, <1>4, <1>5, <1>6, <1>7

LEMMA Listed ==
    ASSUME board \in Boards, NEW S \in SUBSET Lanes, NEW s \in InOrder(S)
    PROVE  /\ s \in Seq(Lanes) /\ \A i \in DOMAIN s : s[i] \in S
           /\ Len(s) \in Nat /\ DOMAIN s = 1 .. Len(s)
           /\ \A i, j \in DOMAIN s : i < j => s[i] # s[j]
<1>1. IsFiniteSet(S)
  BY LaneFacts, FS_Subset
<1>2. Cardinality(S) \in Nat
  BY <1>1, FS_CardinalityType
<1>3. s \in [1 .. Cardinality(S) -> S] /\ \A i, j \in DOMAIN s : i < j => Before(s[i], s[j])
  BY DEF InOrder
<1>4. s \in Seq(Lanes) /\ DOMAIN s = 1 .. Len(s) /\ Len(s) \in Nat
  BY <1>2, <1>3
<1>5. \A i \in DOMAIN s : s[i] \in S
  BY <1>3
<1>6. \A i, j \in DOMAIN s : i < j => s[i] # s[j]
  BY <1>3, <1>5, LaneFacts
<1>. QED BY <1>4, <1>5, <1>6

LEMMA LoserType == ASSUME NEW z PROVE Loser(z) \in Teams \cup {Nobody}
  BY DEF Loser, Teams

LEMMA OtherType == ASSUME NEW t \in Teams PROVE Other(t) \in Teams /\ Other(t) # t
  BY DEF Teams, Other

LEMMA HereType ==
    ASSUME Board, NEW l \in Lanes
    PROVE  /\ l \in Lane /\ zone[l] \in 1 .. Length /\ Here(l) \in Anywhere /\ Here(l) # Limbo
           /\ \A k \in Lanes : Here(k) = Here(l) => k = l
           /\ \A t : Target(l, t) \in Int
<1>1. l \in Lane /\ zone[l] \in Int /\ ~Throne(zone[l]) /\ Length \in Nat
  BY LaneFacts, LanesAssumption DEF Board, NoThrone
<1>2. zone[l] > 1 /\ zone[l] < Length
  BY <1>1 DEF Throne
<1>. QED BY <1>1, <1>2 DEF Here, Limbo, Anywhere, Target

LEMMA PointsFinite ==
    ASSUME NEW l \in Lane, NEW i \in 1 .. Length, NEW B \in SUBSET Points[l][i]
    PROVE  IsFiniteSet(Points[l][i]) /\ IsFiniteSet(B) /\ IsFiniteSet(Points[l][i] \ B)
<1>1. IsFiniteSet(Points[l][i])
  BY LanesAssumption
<1>. QED BY <1>1, FS_Subset

\* Where minions stand, before and after a zone is emptied and filled.
Standing == [Minions -> Anywhere]

LEMMA SpawnType ==
    ASSUME NEW place \in Standing, NEW l \in Lane, NEW i \in 1 .. Length,
           NEW B \in SUBSET Points[l][i]
    PROVE  LET s == Spawn(Wipe(place, Here(l)), l, <<l, i>>, B)
           IN  s.place \in Standing /\ s.queued \in SUBSET Minions
<1>. DEFINE wiped == Wipe(place, Here(l))
            now   == Drafted(wiped, l, Points[l][i] \ B)
            after == [m \in Minions |-> IF m \in now THEN <<l, i>> ELSE wiped[m]]
<1>1. wiped \in Standing
  BY DEF Standing, Wipe, Anywhere
<1>2. <<l, i>> \in Anywhere
  BY DEF Anywhere
<1>3. Spawn(wiped, l, <<l, i>>, B) = [place |-> after, queued |-> Drafted(after, l, B)]
  BY DEF Spawn
<1>. HIDE DEF wiped
<1>4. after \in Standing
  BY <1>1, <1>2 DEF Standing
<1>. HIDE DEF after
<1>5. Drafted(after, l, B) \in SUBSET Minions
  BY PointsFinite, Drafts
<1>. QED BY <1>3, <1>4, <1>5 DEF wiped

\* A function defined by recursion from the number before.
Runs(f, V, base, step, n) ==
    f \in [0 .. n -> V] /\ f[0] = base /\ \A i \in 1 .. n : f[i] = step[<<i, f[i - 1]>>]

LEMMA Recursion ==
    ASSUME NEW V, NEW base \in V, NEW step, NEW n \in Nat,
           \A i \in 1 .. n, v \in V : step[<<i, v>>] \in V
    PROVE  \E f : Runs(f, V, base, step, n)
<1>. DEFINE Defined(k) == \E f : Runs(f, V, base, step, k)
            N == {k \in 0 .. n : ~Defined(k)}
<1>. SUFFICES N = {}
  OBVIOUS
<1>1. Defined(0)
  <2>. DEFINE f == [i \in 0 .. 0 |-> base]
  <2>1. f \in [0 .. 0 -> V] /\ f[0] = base
    OBVIOUS
  <2>2. 1 .. 0 = {}
    OBVIOUS
  <2>. HIDE DEF f
  <2>. QED BY <2>1, <2>2 DEF Runs
<1>2. ASSUME NEW k \in 1 .. n, Defined(k - 1) PROVE Defined(k)
  <2>1. PICK f : /\ f \in [0 .. k - 1 -> V] /\ f[0] = base
                 /\ \A i \in 1 .. k - 1 : f[i] = step[<<i, f[i - 1]>>]
    BY <1>2 DEF Runs
  <2>2. k - 1 \in 0 .. k - 1 /\ \A i \in 0 .. k : i \in 0 .. k - 1 \/ i = k
    OBVIOUS
  <2>3. f[k - 1] \in V
    BY <2>1, <2>2
  <2>. DEFINE g == [i \in 0 .. k |-> IF i = k THEN step[<<k, f[k - 1]>>] ELSE f[i]]
  <2>4. g \in [0 .. k -> V] /\ g[0] = base
    BY <2>1, <2>2, <2>3
  <2>5. ASSUME NEW i \in 1 .. k PROVE g[i] = step[<<i, g[i - 1]>>]
    <3>1. CASE i = k
      <4>1. g[k - 1] = f[k - 1] /\ g[k] = step[<<k, f[k - 1]>>]
        OBVIOUS
      <4>. QED BY <3>1, <4>1
    <3>2. CASE i # k
      <4>1. i \in 1 .. k - 1 /\ g[i] = f[i] /\ g[i - 1] = f[i - 1]
        BY <3>2
      <4>. QED BY <2>1, <4>1
    <3>. QED BY <3>1, <3>2
  <2>. HIDE DEF g
  <2>. QED BY <2>4, <2>5 DEF Runs
<1>3. ASSUME N # {} PROVE FALSE
  <2>. HIDE DEF Defined
  <2>0. N \in SUBSET Nat
    OBVIOUS
  <2>1. PICK k \in N : \A m \in N : k <= m
    <3>. HIDE DEF N
    <3>. QED BY <1>3, <2>0, Least
  <2>2. k # 0
    BY <1>1
  <2>3. k \in 1 .. n /\ k - 1 \in 0 .. n /\ k - 1 \notin N
    BY <2>1, <2>2
  <2>4. Defined(k - 1)
    BY <2>3
  <2>. QED BY <1>2, <2>3, <2>4
<1>. QED BY <1>3

\* What holds at the start and is handed on holds to the end.
LEMMA UpTo ==
    ASSUME NEW n \in Nat, NEW G, 0 \in G, \A i \in 1 .. n : i - 1 \in G => i \in G
    PROVE  0 .. n \subseteq G
<1>. DEFINE N == {i \in 0 .. n : i \notin G}
<1>1. N \in SUBSET Nat
  OBVIOUS
<1>2. ASSUME N # {} PROVE FALSE
  <2>1. PICK i \in N : \A m \in N : i <= m
    <3>. HIDE DEF N
    <3>. QED BY <1>1, <1>2, Least
  <2>2. i # 0
    OBVIOUS
  <2>3. i \in 1 .. n /\ i - 1 \in 0 .. n /\ i - 1 \notin N
    BY <2>1, <2>2
  <2>. QED BY <2>3
<1>. QED BY <1>2

\* A tied check empties and fills its lanes one after the other.
Refilled == [place : Standing, queued : SUBSET Minions]

LEMMA TieRuns ==
    ASSUME Board, at \in Standing, NEW s \in Seq(Lanes), NEW blocked,
           \A i \in DOMAIN s : blocked[s[i]] \subseteq Points[s[i]][zone[s[i]]]
    PROVE  \E g \in [0 .. Len(s) -> Refilled] :
             /\ g[0] = [place |-> at, queued |-> {}] /\ TieRemedy(s, blocked) = g[Len(s)]
             /\ \A i \in 1 .. Len(s) : g[i] = Refill(g[i - 1], s[i], blocked)
<1>. DEFINE V == Refilled
            base == [place |-> at, queued |-> {}]
            step == [x \in (1 .. Len(s)) \X V |-> Refill(x[2], s[x[1]], blocked)]
            Run(f) == f = [i \in 0 .. Len(s) |->
                             IF i = 0 THEN base ELSE Refill(f[i - 1], s[i], blocked)]
<1>1. base \in V
  BY DEF Refilled
<1>2. ASSUME NEW i \in 1 .. Len(s), NEW v \in V
      PROVE  Refill(v, s[i], blocked) \in V
  <2>1. s[i] \in Lanes /\ i \in DOMAIN s
    OBVIOUS
  <2>2. s[i] \in Lane /\ zone[s[i]] \in 1 .. Length
    BY <2>1, HereType
  <2>3. Here(s[i]) = <<s[i], zone[s[i]]>>
    BY DEF Here
  <2>. DEFINE r == Spawn(Wipe(v.place, Here(s[i])), s[i], Here(s[i]), blocked[s[i]])
  <2>4. r.place \in Standing /\ r.queued \in SUBSET Minions
    <3>1. v.place \in Standing /\ blocked[s[i]] \in SUBSET Points[s[i]][zone[s[i]]]
      BY <2>1 DEF Refilled
    <3>. QED BY <2>2, <2>3, <3>1, SpawnType
  <2>5. Refill(v, s[i], blocked) = [place |-> r.place, queued |-> v.queued \cup r.queued]
    BY DEF Refill
  <2>. HIDE DEF r
  <2>. QED BY <2>4, <2>5 DEF Refilled
<1>3. \A i \in 1 .. Len(s), v \in V :
          <<i, v>> \in (1 .. Len(s)) \X V /\ step[<<i, v>>] = Refill(v, s[i], blocked)
  OBVIOUS
<1>4. Len(s) \in Nat
  OBVIOUS
<1>. HIDE DEF V, base, step
<1>5. \E f : Runs(f, V, base, step, Len(s))
  <2>1. \A i \in 1 .. Len(s), v \in V : step[<<i, v>>] \in V
    BY <1>2, <1>3
  <2>. QED BY <1>1, <1>4, <2>1, Recursion, Zenon
<1>6. ASSUME NEW g, g = [i \in 0 .. Len(s) |-> IF i = 0 THEN base ELSE Refill(g[i - 1], s[i], blocked)]
      PROVE  /\ g \in [0 .. Len(s) -> V] /\ g[0] = base
             /\ \A i \in 1 .. Len(s) : g[i] = Refill(g[i - 1], s[i], blocked)
  <2>. DEFINE N == {i \in 0 .. Len(s) : g[i] \notin V}
  <2>1. N \in SUBSET Nat
    OBVIOUS
  <2>2. ASSUME N # {} PROVE FALSE
    <3>1. PICK i \in N : \A m \in N : i <= m
      <4>. HIDE DEF N
      <4>. QED BY <2>1, <2>2, Least
    <3>2. i # 0
      BY <1>1, <1>6
    <3>3. i \in 1 .. Len(s) /\ i - 1 \in 0 .. Len(s) /\ i - 1 \notin N
      BY <3>1, <3>2
    <3>4. g[i - 1] \in V /\ g[i] = Refill(g[i - 1], s[i], blocked)
      BY <1>6, <3>2, <3>3
    <3>. QED BY <1>2, <3>3, <3>4
  <2>3. g \in [0 .. Len(s) -> V]
    <3>1. \A i \in 0 .. Len(s) : g[i] \in V
      BY <2>2
    <3>. QED BY <1>6, <3>1
  <2>. QED BY <1>4, <1>6, <2>3
<1>. PICK f : /\ f \in [0 .. Len(s) -> V] /\ f[0] = base
             /\ \A i \in 1 .. Len(s) : f[i] = step[<<i, f[i - 1]>>]
  BY <1>5 DEF Runs
<1>7. Run(f)
  <2>1. \A i \in 1 .. Len(s) : i - 1 \in 0 .. Len(s)
    BY <1>4
  <2>2. \A i \in 0 .. Len(s) : f[i] = IF i = 0 THEN base ELSE Refill(f[i - 1], s[i], blocked)
    <3> SUFFICES ASSUME NEW i \in 0 .. Len(s), i # 0
                 PROVE  f[i] = Refill(f[i - 1], s[i], blocked)
      BY <1>5
    <3>1. i \in 1 .. Len(s)
      OBVIOUS
    <3>2. f[i - 1] \in V
      BY <2>1, <3>1
    <3>. QED BY <1>3, <1>5, <3>1, <3>2
  <2>. QED BY <2>2
<1>8. TieRemedy(s, blocked) = (CHOOSE g : Run(g))[Len(s)]
  BY Zenon DEF TieRemedy, base
<1>9. Run(CHOOSE g : Run(g))
  <2>. HIDE DEF Run
  <2>. QED BY <1>7, Zenon
<1>. PICK g : g = CHOOSE h : Run(h)
  OBVIOUS
<1>10. /\ g \in [0 .. Len(s) -> V] /\ g[0] = base
       /\ \A i \in 1 .. Len(s) : g[i] = Refill(g[i - 1], s[i], blocked)
  BY <1>6, <1>9
<1>11. TieRemedy(s, blocked) = g[Len(s)]
  BY <1>8
<1>. QED BY <1>10, <1>11 DEF V, base

LEMMA TieType ==
    ASSUME Board, at \in Standing, NEW s \in Seq(Lanes), NEW blocked,
           \A i \in DOMAIN s : blocked[s[i]] \subseteq Points[s[i]][zone[s[i]]]
    PROVE  TieRemedy(s, blocked).place \in Standing /\ TieRemedy(s, blocked).queued \in SUBSET Minions
<1>1. TieRemedy(s, blocked) \in Refilled
  <2>1. PICK g \in [0 .. Len(s) -> Refilled] : TieRemedy(s, blocked) = g[Len(s)]
    BY TieRuns
  <2>2. Len(s) \in 0 .. Len(s)
    OBVIOUS
  <2>. QED BY <2>1, <2>2
<1>. QED BY <1>1 DEF Refilled

-----------------------------------------------------------------------------
(* The stack of the turns' ends. *)

\* What each kind of step carries.
LEMMA StepTypes ==
    /\ \A s \in Steps : /\ s.do \in {"battle", "check", "return", "remove", "push", "displace", "over"}
                        /\ s.do = "return" => s \in [do : {"return"}, done : SUBSET Minions]
                        /\ s.do = "remove" => s \in [do : {"remove"}, team : Teams, left : Nat, from : Anywhere]
                        /\ s.do = "push" => s \in [do : {"push"}, lane : Lane, loser : Teams,
                                                   decides : BOOLEAN, target : Int]
                        /\ s.do = "displace" => s \in [do : {"displace"}, who : SUBSET Minions]
                        /\ s.do = "over" => s \in [do : {"over"}, winner : Teams]
    /\ Step("battle") \in Steps /\ Step("check") \in Steps
    /\ \A done \in SUBSET Minions : [do |-> "return", done |-> done] \in Steps
  BY DEF Steps, Step

LEMMA OverType ==
    ASSUME NEW t \in Teams
    PROVE  /\ GameOver(t) \in Seq(Steps) /\ DOMAIN GameOver(t) = {1}
           /\ GameOver(t)[1].do = "over" /\ Ordered(GameOver(t))
<1>1. [do |-> "over", winner |-> t] \in Steps
  BY DEF Steps
<1>2. GameOver(t) \in Seq(Steps) /\ DOMAIN GameOver(t) = {1} /\ GameOver(t)[1].do = "over"
  BY <1>1, Single DEF GameOver
<1>. QED BY <1>2 DEF Ordered

LEMMA DisplaceType ==
    ASSUME NEW M \in SUBSET Minions
    PROVE  /\ Displace(M) \in Seq(Steps) /\ Ordered(Displace(M))
           /\ \A i \in DOMAIN Displace(M) :
                Displace(M)[i].do = "displace" /\ Displace(M)[i].who = M
           /\ M # {} => 1 \in DOMAIN Displace(M)
<1>1. [do |-> "displace", who |-> M] \in Steps
  BY DEF Steps
<1>2. CASE M = {}
  BY <1>2, Empty DEF Displace, Ordered
<1>3. CASE M # {}
  <2>1. Displace(M) = <<[do |-> "displace", who |-> M]>>
    BY <1>3 DEF Displace
  <2>2. Displace(M) \in Seq(Steps) /\ DOMAIN Displace(M) = {1}
        /\ Displace(M)[1] = [do |-> "displace", who |-> M]
    BY <1>1, <2>1, Single
  <2>. QED BY <2>2 DEF Ordered
<1>. QED BY <1>2, <1>3

\* A check is the last step; under a step of a turn's end nothing is pushed yet.
LEMMA Quiet ==
    ASSUME PushInv, todo # <<>>
    PROVE  /\ Rest \in Seq(Steps) /\ Ordered(Rest) /\ Head(todo) \in Steps
           /\ \A i \in DOMAIN Rest : Head(todo).do \in Above(Rest[i].do)
           /\ Head(todo).do \notin {"push", "displace", "over"} =>
                \A i \in DOMAIN Rest : Rest[i].do # "push"
           /\ Head(todo).do = "check" => Rest = <<>>
           /\ \A i \in DOMAIN Rest : Rest[i].do # "over"
<1>1. todo \in Seq(Steps) /\ Ordered(todo)
  BY DEF PushInv, TypeOK
<1>2. /\ Rest \in Seq(Steps) /\ Ordered(Rest) /\ Head(todo) \in Steps
      /\ \A i \in DOMAIN Rest : Head(todo).do \in Above(Rest[i].do)
  BY <1>1, Popped, OrderedTail DEF Rest
<1>3. \A i \in DOMAIN Rest : Head(todo).do \notin {"push", "displace", "over"} => Rest[i].do # "push"
  BY <1>2 DEF Above
<1>4. Head(todo).do = "check" => DOMAIN Rest = {}
  BY <1>2 DEF Above
<1>5. \A i \in DOMAIN Rest : Rest[i].do # "over"
  BY <1>2 DEF Above
<1>. QED BY <1>2, <1>3, <1>4, <1>5

LEMMA PushesOnto ==
    ASSUME NEW S, NEW s \in Seq(S), NEW r \in Seq(S), Pushes(s), Pushes(r),
           \A i \in DOMAIN s, j \in DOMAIN r : Apart(s[i], r[j])
    PROVE  Pushes(s \o r)
<1>. DEFINE t == s \o r
<1>1. /\ \A i \in DOMAIN s : i \in DOMAIN t /\ t[i] = s[i]
      /\ \A i \in DOMAIN t : \/ i \in DOMAIN s
                             \/ i - Len(s) \in DOMAIN r /\ i > Len(s) /\ t[i] = r[i - Len(s)]
  BY Onto
<1>2. DOMAIN t \subseteq Nat \ {0} /\ Len(s) \in Nat /\ DOMAIN s = 1 .. Len(s)
  <2>1. t \in Seq(S)
    OBVIOUS
  <2>. HIDE DEF t
  <2>. QED BY <2>1
<1>. HIDE DEF t
<1>3. \A i \in DOMAIN t : PushFits(t[i])
  BY <1>1 DEF Pushes
<1>4. ASSUME NEW i \in DOMAIN t, NEW j \in DOMAIN t, i < j
      PROVE  Apart(t[i], t[j])
  <2>1. CASE j \in DOMAIN s
    <3>1. i \in DOMAIN s
      BY <1>2, <1>4, <2>1
    <3>. QED BY <1>1, <1>4, <2>1, <3>1 DEF Pushes
  <2>2. CASE j \notin DOMAIN s
    <3>1. j - Len(s) \in DOMAIN r /\ t[j] = r[j - Len(s)]
      BY <1>1, <2>2
    <3>2. CASE i \in DOMAIN s
      BY <1>1, <3>1, <3>2
    <3>3. CASE i \notin DOMAIN s
      <4>1. i - Len(s) \in DOMAIN r /\ t[i] = r[i - Len(s)]
        BY <1>1, <3>3
      <4>2. i - Len(s) < j - Len(s)
        BY <1>2, <1>4
      <4>. QED BY <3>1, <4>1, <4>2 DEF Pushes
    <3>. QED BY <3>2, <3>3
  <2>. QED BY <2>1, <2>2
<1>5. Pushes(t)
  BY <1>3, <1>4 DEF Pushes
<1>. QED BY <1>5 DEF t

LEMMA PushesTail ==
    ASSUME NEW S, NEW s \in Seq(S), s # <<>>, Pushes(s)
    PROVE  Pushes(Tail(s)) /\ PushFits(Head(s)) /\ \A i \in DOMAIN Tail(s) : Apart(Head(s), Tail(s)[i])
<1>. DEFINE r == Tail(s)
<1>1. /\ Head(s) = s[1] /\ 1 \in DOMAIN s
      /\ \A i \in DOMAIN r : i + 1 \in DOMAIN s /\ 1 < i + 1 /\ r[i] = s[i + 1]
  BY Popped
<1>2. \A i, j \in DOMAIN r : i < j => i + 1 < j + 1
  OBVIOUS
<1>. HIDE DEF r
<1>3. Pushes(r)
  BY <1>1, <1>2 DEF Pushes
<1>4. PushFits(Head(s)) /\ \A i \in DOMAIN r : Apart(Head(s), r[i])
  BY <1>1 DEF Pushes
<1>. QED BY <1>3, <1>4 DEF r

\* A stack without pushes fits any board.
LEMMA NoPushes ==
    ASSUME NEW s, \A i \in DOMAIN s : s[i].do # "push"
    PROVE  Pushes(s)
  BY DEF Pushes, PushFits, Apart

\* Pushes read nothing but the board and where minions stand.
LEMMA SameBoard ==
    ASSUME UNCHANGED <<board, zone, at>>
    PROVE  /\ \A s : Pushes(s)' <=> Pushes(s)
           /\ (NoThrone' <=> NoThrone) /\ Lanes' = Lanes /\ (Multi' <=> Multi)
<1>1. Lanes' = Lanes /\ (Multi' <=> Multi)
  BY DEF Lanes, Multi
<1>2. \A l : Here(l)' = Here(l)
  BY DEF Here
<1>3. \A z : Loser(z)' = Loser(z)
  BY DEF Loser, Count
<1>4. \A l, t : Target(l, t)' = Target(l, t)
  BY DEF Target
<1>5. \A s : PushFits(s)' <=> PushFits(s)
  BY <1>1, <1>2, <1>3, <1>4 DEF PushFits
<1>6. \A f, g : Apart(f, g)' <=> Apart(f, g)
  BY DEF Apart
<1>7. NoThrone' <=> NoThrone
  BY <1>1 DEF NoThrone
<1>. QED BY <1>1, <1>5, <1>6, <1>7 DEF Pushes

-----------------------------------------------------------------------------
(* Every step keeps the pushes due. *)

LEMMA PushInit == Init => PushInv
<1> SUFFICES ASSUME Init PROVE PushInv
  OBVIOUS
<1>. DEFINE mid == Length \div 2 + 1
<1>1. Length \in Nat /\ Length > 2 /\ mid \in Int /\ mid > 1 /\ mid < Length
  BY LanesAssumption
<1>2. Lanes \subseteq Lane
  BY LaneFacts DEF Init
<1>3. NoThrone /\ zone \in [Lane -> Int]
  BY <1>1, <1>2 DEF Init, NoThrone, Throne
<1>4. at \in [Minions -> Anywhere]
  <2>1. \A m \in Minions : LaneOf[m] \in Lane
    BY LanesAssumption
  <2>2. \A m \in Minions : <<LaneOf[m], mid>> \in Anywhere /\ Limbo \in Anywhere
    BY <1>1, <2>1 DEF Anywhere
  <2>. QED BY <2>2 DEF Init
<1>5. lives \in [Teams -> Nat] /\ Lanes \subseteq DOMAIN waves /\ \A l \in Lanes : waves[l] \in Int
  BY <1>2, LanesAssumption DEF Init
<1>6. todo \in Seq(Steps) /\ DOMAIN todo = {}
  BY Empty DEF Init
<1>7. TypeOK
  BY <1>3, <1>4, <1>5, <1>6 DEF Init, TypeOK
<1>. QED BY <1>3, <1>6, <1>7 DEF Init, PushInv, Ordered, Finished, Pushes

\* What ends a turn or a round, and what happens between.
LEMMA IdleKeeps ==
    ASSUME PushInv, Idle, UNCHANGED <<board, zone>>, over' = over,
           TypeOK', todo' = <<>> \/ \E t \in Teams : todo' = GameOver(t)
    PROVE  PushInv'
<1>1. Ordered(todo)' /\ \A i \in DOMAIN todo' : todo'[i].do # "push"
  <2>1. CASE todo' = <<>>
    BY <2>1, Empty DEF Ordered
  <2>2. CASE \E t \in Teams : todo' = GameOver(t)
    BY <2>2, OverType DEF Ordered
  <2>. QED BY <2>1, <2>2
<1>2. Pushes(todo)'
  BY <1>1 DEF Pushes, PushFits, Apart
<1>3. NoThrone'
  BY DEF PushInv, NoThrone, Lanes
<1>. QED BY <1>1, <1>2, <1>3 DEF PushInv, Finished, Idle

LEMMA EffectsKeep == ASSUME PushInv, Effects PROVE PushInv'
<1>1. TypeOK /\ Idle /\ UNCHANGED <<board, zone>> /\ over' = over
  BY DEF PushInv, Effects, DefeatMinion, RespawnMinion, MoveMinion, RestoreLife, LoseLives
<1>2. TypeOK' /\ (todo' = <<>> \/ \E t \in Teams : todo' = GameOver(t))
  <2>1. ASSUME NEW m \in Minions, DefeatMinion(m) PROVE TypeOK' /\ todo' = <<>>
    BY <1>1, <2>1 DEF DefeatMinion, TypeOK, Idle, Anywhere, Lanes
  <2>2. ASSUME NEW m \in Minions, RespawnMinion(m) PROVE TypeOK' /\ todo' = <<>>
    <3>1. LaneOf[m] \in Lanes
      BY <2>2 DEF RespawnMinion
    <3>2. Here(LaneOf[m]) \in Anywhere
      BY <3>1, HereType DEF Board, PushInv, TypeOK
    <3>3. at' = [at EXCEPT ![m] = Here(LaneOf[m])] /\ UNCHANGED <<board, zone, waves, lives, todo, over, patches>>
      BY <2>2 DEF RespawnMinion
    <3>. QED BY <1>1, <3>2, <3>3 DEF TypeOK, Idle, Lanes
  <2>3. ASSUME NEW m \in Minions, NEW z \in Places, MoveMinion(m, z) PROVE TypeOK' /\ todo' = <<>>
    <3>1. z \in Anywhere
      BY LanesAssumption, LaneFacts, <1>1 DEF Places, Anywhere, TypeOK
    <3>. QED BY <1>1, <2>3, <3>1 DEF MoveMinion, TypeOK, Idle, Lanes
  <2>4. ASSUME NEW t \in Teams, RestoreLife(t) PROVE TypeOK' /\ todo' = <<>>
    BY <1>1, <2>4 DEF RestoreLife, TypeOK, Idle, Lanes
  <2>5. ASSUME NEW t \in Teams, NEW n \in 1 .. MaxPenalty, LoseLives(t, n)
        PROVE  TypeOK' /\ (todo' = <<>> \/ \E u \in Teams : todo' = GameOver(u))
    <3>1. lives \in [Teams -> Nat] /\ n \in Int
      BY <1>1 DEF TypeOK
    <3>2. Max({0, lives[t] - n}) \in Nat
      <4>. DEFINE k == lives[t] - n
      <4>1. k \in Int
        BY <3>1
      <4>. HIDE DEF k
      <4>2. Max({0, k}) \in {0, k} /\ Max({0, k}) >= 0
        <5>1. 0 \in Int
          OBVIOUS
        <5>. QED BY <4>1, <5>1, MaxOfTwo, Zenon
      <4>3. Max({0, k}) \in Nat
        BY <4>1, <4>2
      <4>. QED BY <4>3 DEF k
    <3>3. lives' = [lives EXCEPT ![t] = Max({0, lives[t] - n})]
      BY <2>5 DEF LoseLives
    <3>4. lives' \in [Teams -> Nat]
      BY <3>1, <3>2, <3>3
    <3>5. todo' = <<>> \/ todo' = GameOver(Other(t))
      BY <2>5 DEF LoseLives
    <3>6. todo' \in Seq(Steps)
      BY <3>5, OtherType, OverType, Empty
    <3>. QED BY <1>1, <2>5, <3>4, <3>5, <3>6, OtherType DEF LoseLives, TypeOK, Lanes
  <2>. QED BY <2>1, <2>2, <2>3, <2>4, <2>5 DEF Effects
<1>. QED BY <1>1, <1>2, IdleKeeps

\* A stack of new steps without a push, where nothing was to be pushed.
LEMMA FreshKeeps ==
    ASSUME PushInv, UNCHANGED <<board, zone>>, over' = Nobody, TypeOK', Ordered(todo'),
           \A i \in DOMAIN todo' : todo'[i].do # "push"
    PROVE  PushInv'
<1>1. Pushes(todo)'
  BY DEF Pushes, PushFits, Apart
<1>2. NoThrone'
  BY DEF PushInv, NoThrone, Lanes
<1>3. Ordered(todo)'
  BY DEF Ordered
<1>. QED BY <1>1, <1>2, <1>3 DEF PushInv, Finished

LEMMA TwoSteps ==
    ASSUME NEW x \in Steps, NEW y \in Steps, x.do \in Above(y.do)
    PROVE  <<x, y>> \in Seq(Steps) /\ Ordered(<<x, y>>) /\ \A i \in DOMAIN <<x, y>> : <<x, y>>[i] \in {x, y}
<1>. DEFINE s == <<x, y>>
<1>1. s \in Seq(Steps) /\ DOMAIN s = {1, 2} /\ s[1] = x /\ s[2] = y
  BY Pair
<1>. HIDE DEF s
<1>2. Ordered(s) /\ \A i \in DOMAIN s : s[i] \in {x, y}
  BY <1>1 DEF Ordered
<1>. QED BY <1>1, <1>2 DEF s

LEMMA ReturnCheck ==
    LET s == <<[do |-> "return", done |-> {}], Step("check")>>
    IN  s \in Seq(Steps) /\ Ordered(s) /\ \A i \in DOMAIN s : s[i].do \in {"return", "check"}
<1>. DEFINE x == [do |-> "return", done |-> {}]
            y == Step("check")
<1>1. x \in Steps /\ y \in Steps /\ x.do = "return" /\ y.do = "check"
  BY StepTypes DEF Step
<1>2. x.do \in Above(y.do)
  BY <1>1 DEF Above
<1>. HIDE DEF x, y
<1>3. <<x, y>> \in Seq(Steps) /\ Ordered(<<x, y>>) /\ \A i \in DOMAIN <<x, y>> : <<x, y>>[i] \in {x, y}
  BY <1>1, <1>2, TwoSteps
<1>4. \A i \in DOMAIN <<x, y>> : <<x, y>>[i].do \in {"return", "check"}
  BY <1>1, <1>3
<1>. QED BY <1>3, <1>4 DEF x, y

LEMMA SourcesKeep == ASSUME PushInv, Sources PROVE PushInv'
<1>1. /\ UNCHANGED <<board, zone, waves, at, lives, over, patches>> /\ over = Nobody
      /\ \/ todo' = <<[do |-> "return", done |-> {}], Step("check")>>
         \/ todo' = <<Step("battle"), Step("check")>>
         \/ todo' = <<Step("check")>>
  BY DEF Sources, EndTurn, EndRound, RepeatAction, Idle
<1>2. todo' \in Seq(Steps) /\ Ordered(todo') /\ \A i \in DOMAIN todo' : todo'[i].do # "push"
  <2>1. CASE todo' = <<[do |-> "return", done |-> {}], Step("check")>>
    <3>. DEFINE s == <<[do |-> "return", done |-> {}], Step("check")>>
    <3>1. s \in Seq(Steps) /\ Ordered(s) /\ \A i \in DOMAIN s : s[i].do \in {"return", "check"}
      BY ReturnCheck
    <3>. HIDE DEF s
    <3>2. todo' = s
      BY <2>1 DEF s
    <3>. QED BY <3>1, <3>2
  <2>2. CASE todo' = <<Step("battle"), Step("check")>>
    <3>. DEFINE x == Step("battle")
                y == Step("check")
    <3>1. x \in Steps /\ y \in Steps /\ x.do = "battle" /\ y.do = "check" /\ x.do \in Above(y.do)
      BY StepTypes DEF Step, Above
    <3>. HIDE DEF x, y
    <3>2. todo' = <<x, y>>
      BY <2>2 DEF x, y
    <3>. QED BY <3>1, <3>2, TwoSteps
  <2>3. CASE todo' = <<Step("check")>>
    <3>1. Step("check") \in Steps /\ Step("check").do = "check"
      BY StepTypes DEF Step
    <3>2. todo' \in Seq(Steps) /\ DOMAIN todo' = {1} /\ todo'[1] = Step("check")
      BY <2>3, <3>1, Single
    <3>. QED BY <3>1, <3>2 DEF Ordered
  <2>. QED BY <1>1, <2>1, <2>2, <2>3
<1>3. TypeOK'
  BY <1>1, <1>2 DEF PushInv, TypeOK, Lanes
<1>. QED BY <1>1, <1>2, <1>3, FreshKeeps

LEMMA PatchKeeps == ASSUME PushInv, Patch PROVE PushInv'
<1>. PICK t \in Teams, n \in 0 .. Lives : SetLifeCounters(t, n)
  BY DEF Patch
<1>1. /\ lives' = [lives EXCEPT ![t] = n] /\ patches' = patches + 1 /\ Asks
      /\ UNCHANGED <<board, zone, waves, at, astray>>
  BY DEF SetLifeCounters
<1>2. /\ TypeOK /\ todo \in Seq(Steps) /\ Ordered(todo) /\ Finished /\ NoThrone /\ Pushes(todo)
      /\ lives' \in [Teams -> Nat] /\ patches' \in Nat
  <2>1. n \in Nat
    BY LanesAssumption
  <2>. QED BY <1>1, <2>1 DEF PushInv, TypeOK
<1>3. NoThrone' /\ \A s : Pushes(s)' <=> Pushes(s)
  <2>1. UNCHANGED <<board, zone, at>>
    BY <1>1
  <2>. QED BY <1>2, <2>1, SameBoard
<1>4. CASE n = 0 /\ over = Nobody /\ todo' = GameOver(Other(t)) \o todo /\ UNCHANGED over
  <2>. DEFINE s == GameOver(Other(t))
  <2>1. s \in Seq(Steps) /\ Ordered(s) /\ \A i \in DOMAIN s : s[i].do = "over"
    BY OtherType, OverType
  <2>2. \A j \in DOMAIN todo : todo[j].do # "over"
    <3>1. CASE todo = <<>>
      BY <3>1, Empty
    <3>2. CASE todo # <<>>
      <4>1. Head(todo) = todo[1] /\ 1 \in DOMAIN todo /\ todo[1].do # "over" /\ DOMAIN todo = 1 .. Len(todo)
        BY <1>1, <1>2, <3>2, Popped DEF Asks
      <4>2. \A j \in DOMAIN todo : 1 < j => Above(todo[j].do) # {}
        BY <1>2, <4>1 DEF Ordered
      <4>3. Above("over") = {}
        BY DEF Above
      <4>. QED BY <1>2, <4>1, <4>2, <4>3
    <3>. QED BY <3>1, <3>2
  <2>3. \A i \in DOMAIN s, j \in DOMAIN todo : s[i].do \in Above(todo[j].do)
    <3>1. \A j \in DOMAIN todo : todo[j] \in Steps
      BY <1>2
    <3>2. \A k \in {"battle", "check", "return", "remove", "push", "displace"} : "over" \in Above(k)
      BY DEF Above
    <3>3. \A j \in DOMAIN todo : todo[j].do \in {"battle", "check", "return", "remove", "push", "displace"}
      BY <2>2, <3>1, StepTypes
    <3>. QED BY <2>1, <3>2, <3>3
  <2>4. Pushes(s)
    BY <2>1, NoPushes
  <2>5. \A i \in DOMAIN s, j \in DOMAIN todo : Apart(s[i], todo[j])
    BY <2>1 DEF Apart
  <2>. HIDE DEF s
  <2>6. todo' = s \o todo
    BY <1>4 DEF s
  <2>7. todo' \in Seq(Steps) /\ Ordered(todo')
    BY <1>2, <2>1, <2>3, <2>6, Onto, OrderedOnto
  <2>8. Pushes(s \o todo)
    BY <1>2, <2>1, <2>4, <2>5, PushesOnto
  <2>9. Pushes(todo)'
    BY <1>3, <2>6, <2>8
  <2>10. TypeOK'
    BY <1>1, <1>2, <1>4, <2>7 DEF TypeOK, Lanes
  <2>. QED BY <1>3, <1>4, <2>7, <2>9, <2>10 DEF PushInv, Finished, Ordered
<1>5. CASE /\ over # Nobody /\ over' = Nobody
           /\ todo' \in {<<>>, <<[do |-> "return", done |-> {}], Step("check")>>}
  <2>1. todo' \in Seq(Steps) /\ Ordered(todo') /\ \A i \in DOMAIN todo' : todo'[i].do # "push"
    <3>1. CASE todo' = <<>>
      BY <3>1, Empty DEF Ordered
    <3>2. CASE todo' = <<[do |-> "return", done |-> {}], Step("check")>>
      <4>. DEFINE s == <<[do |-> "return", done |-> {}], Step("check")>>
      <4>1. s \in Seq(Steps) /\ Ordered(s) /\ \A i \in DOMAIN s : s[i].do \in {"return", "check"}
        BY ReturnCheck
      <4>. HIDE DEF s
      <4>2. todo' = s
        BY <3>2 DEF s
      <4>. QED BY <4>1, <4>2
    <3>. QED BY <1>5, <3>1, <3>2
  <2>2. TypeOK'
    BY <1>1, <1>2, <1>5, <2>1 DEF TypeOK, Lanes
  <2>. QED BY <1>1, <1>5, <2>1, <2>2, FreshKeeps
<1>6. CASE UNCHANGED <<todo, over>>
  <2>1. TypeOK'
    BY <1>1, <1>2, <1>6 DEF TypeOK, Lanes
  <2>2. Pushes(todo)'
    BY <1>2, <1>3, <1>6
  <2>. QED BY <1>2, <1>3, <1>6, <2>1, <2>2 DEF PushInv, Ordered, Finished
<1>. QED BY <1>4, <1>5, <1>6 DEF SetLifeCounters

\* A step of a turn's end is replaced by others that may lie where it lay.
LEMMA QuietKeeps ==
    ASSUME PushInv, todo # <<>>, over = Nobody,
           Head(todo).do \notin {"push", "displace", "over"},
           NEW s \in Seq(Steps), Ordered(s), \A i \in DOMAIN s : s[i].do # "push",
           \A i \in DOMAIN s, j \in DOMAIN Rest : s[i].do \in Above(Rest[j].do),
           todo' = s \o Rest, UNCHANGED <<board, zone, lives, over, patches>>,
           at' \in Standing, Lanes \subseteq DOMAIN waves', \A l \in Lanes : waves'[l] \in Int
    PROVE  PushInv'
<1>1. /\ Rest \in Seq(Steps) /\ Ordered(Rest) /\ \A i \in DOMAIN Rest : Rest[i].do # "push"
  BY Quiet
<1>. DEFINE r == Rest
<1>. HIDE DEF r
<1>2. /\ r \in Seq(Steps) /\ Ordered(r) /\ \A i \in DOMAIN r : r[i].do # "push"
      /\ \A i \in DOMAIN s, j \in DOMAIN r : s[i].do \in Above(r[j].do)
      /\ todo' = s \o r
  BY <1>1 DEF r
<1>3. todo' \in Seq(Steps) /\ Ordered(todo')
  BY <1>2, Onto, OrderedOnto
<1>4. \A i \in DOMAIN (s \o r) : (s \o r)[i].do # "push"
  BY <1>2, Onto
<1>5. TypeOK'
  BY <1>3 DEF PushInv, TypeOK, Lanes, Standing
<1>. QED BY <1>2, <1>3, <1>4, <1>5, FreshKeeps

\* Steps that are popped.
LEMMA PopQuiet ==
    ASSUME PushInv, todo # <<>>, over = Nobody,
           Head(todo).do \notin {"push", "displace", "over"},
           todo' = Rest, UNCHANGED <<board, zone, waves, lives, over, patches>>, at' \in Standing
    PROVE  PushInv'
<1>1. Rest \in Seq(Steps)
  BY Quiet
<1>. DEFINE r == Rest
<1>2. <<>> \o r = r
  BY <1>1
<1>3. TypeOK
  BY DEF PushInv
<1>. HIDE DEF r
<1>4. <<>> \in Seq(Steps) /\ DOMAIN <<>> = {} /\ Ordered(<<>>)
  BY Empty DEF Ordered
<1>5. todo' = <<>> \o Rest
  BY <1>2 DEF r
<1>. QED BY <1>3, <1>4, <1>5, QuietKeeps DEF TypeOK

\* A step is replaced by one of its kind.
LEMMA SwapQuiet ==
    ASSUME PushInv, todo # <<>>, over = Nobody,
           Head(todo).do \notin {"push", "displace", "over"},
           NEW x \in Steps, x.do = Head(todo).do,
           todo' = <<x>> \o Rest, UNCHANGED <<board, zone, waves, lives, over, patches>>,
           at' \in Standing
    PROVE  PushInv'
<1>1. <<x>> \in Seq(Steps) /\ DOMAIN <<x>> = {1} /\ <<x>>[1] = x
  BY Single
<1>. DEFINE s == <<x>>
<1>2. s \in Seq(Steps) /\ DOMAIN s = {1} /\ s[1] = x
  BY <1>1
<1>. HIDE DEF s
<1>3. Ordered(s) /\ \A i \in DOMAIN s : s[i].do # "push"
  BY <1>2 DEF Ordered
<1>4. \A i \in DOMAIN s, j \in DOMAIN Rest : s[i].do \in Above(Rest[j].do)
  BY <1>2, Quiet
<1>5. TypeOK /\ todo' = s \o Rest
  BY DEF PushInv, s
<1>. QED BY <1>2, <1>3, <1>4, <1>5, QuietKeeps DEF TypeOK

LEMMA ReturnKeeps == ASSUME PushInv, ReturnMinion PROVE PushInv'
<1>. DEFINE left == Outside \ Head(todo).done
            Go(m, home) ==
               /\ at' = IF home THEN [at EXCEPT ![m] = Here(LaneOf[m])] ELSE at
               /\ todo' = IF left = {m} THEN Rest
                          ELSE <<[Head(todo) EXCEPT !.done = @ \cup {m}]>> \o Rest
<1>1. /\ todo # <<>> /\ Head(todo).do = "return" /\ over = Nobody
      /\ UNCHANGED <<board, zone, waves, lives, over, patches, astray>>
      /\ \/ todo' = Rest /\ at' = at
         \/ \E m \in left, home \in BOOLEAN : Go(m, home)
  BY DEF ReturnMinion, Ready
<1>2. TypeOK /\ Board /\ Head(todo) \in Steps
  BY <1>1, Quiet DEF PushInv, Board, TypeOK
<1>3. Head(todo) \in [do : {"return"}, done : SUBSET Minions]
  BY <1>1, <1>2, StepTypes
<1>4. CASE todo' = Rest /\ at' = at
  BY <1>1, <1>2, <1>4, PopQuiet DEF TypeOK, Standing
<1>5. ASSUME NEW m \in left, NEW home \in BOOLEAN, Go(m, home) PROVE PushInv'
  <2>1. m \in Minions /\ LaneOf[m] \in Lanes
    BY DEF Outside
  <2>2. Here(LaneOf[m]) \in Anywhere
    BY <1>2, <2>1, HereType
  <2>3. at' \in Standing
    BY <1>2, <1>5, <2>2 DEF TypeOK, Standing
  <2>4. CASE todo' = Rest
    BY <1>1, <2>3, <2>4, PopQuiet
  <2>5. CASE todo' = <<[Head(todo) EXCEPT !.done = @ \cup {m}]>> \o Rest
    <3>. DEFINE x == [Head(todo) EXCEPT !.done = @ \cup {m}]
    <3>1. x \in [do : {"return"}, done : SUBSET Minions]
      BY <1>3, <2>1
    <3>2. x \in Steps /\ x.do = Head(todo).do
      BY <1>1, <3>1 DEF Steps
    <3>3. todo' = <<x>> \o Rest
      BY <2>5
    <3>. HIDE DEF x
    <3>. QED BY <1>1, <2>3, <3>2, <3>3, SwapQuiet
  <2>. QED BY <1>5, <2>4, <2>5
<1>. QED BY <1>1, <1>4, <1>5

LEMMA RemovalKeeps == ASSUME PushInv, ChooseMinionRemoval PROVE PushInv'
<1>. DEFINE step    == Head(todo)
            losers  == {m \in Minions : TeamOf[m] = step.team /\ at[m] = step.from}
            offered == IF losers \subseteq Heavies THEN losers ELSE losers \ Heavies
<1>1. /\ todo # <<>> /\ step.do = "remove" /\ over = Nobody
      /\ UNCHANGED <<board, zone, waves, lives, over, patches, astray>>
      /\ \/ todo' = Rest /\ at' = at
         \/ /\ step.left > 0
            /\ \E m \in offered : at' = [at EXCEPT ![m] = Limbo]
            /\ todo' = <<[step EXCEPT !.left = @ - 1]>> \o Rest
  BY DEF ChooseMinionRemoval, Ready
<1>2. TypeOK /\ step \in Steps
  BY <1>1, Quiet DEF PushInv
<1>3. step \in [do : {"remove"}, team : Teams, left : Nat, from : Anywhere]
  BY <1>1, <1>2, StepTypes
<1>4. CASE todo' = Rest /\ at' = at
  BY <1>1, <1>2, <1>4, PopQuiet DEF TypeOK, Standing
<1>5. ASSUME step.left > 0, NEW m \in offered, at' = [at EXCEPT ![m] = Limbo],
             todo' = <<[step EXCEPT !.left = @ - 1]>> \o Rest
      PROVE  PushInv'
  <2>. DEFINE x == [step EXCEPT !.left = @ - 1]
  <2>1. x \in [do : {"remove"}, team : Teams, left : Nat, from : Anywhere]
    <3>. HIDE DEF step
    <3>. QED BY <1>3, <1>5
  <2>2. x \in Steps /\ x.do = step.do
    BY <1>1, <2>1 DEF Steps
  <2>3. at' \in Standing
    BY <1>2, <1>5 DEF TypeOK, Standing, Anywhere
  <2>4. todo' = <<x>> \o Rest
    BY <1>5
  <2>. HIDE DEF x
  <2>. QED BY <1>1, <2>2, <2>3, <2>4, SwapQuiet
<1>. QED BY <1>1, <1>4, <1>5

LEMMA BattleKeeps == ASSUME PushInv, MinionBattle PROVE PushInv'
<1>1. /\ todo # <<>> /\ Head(todo).do = "battle" /\ over = Nobody
      /\ UNCHANGED <<board, zone, waves, at, lives, over, patches, astray>>
  BY DEF MinionBattle, Ready
<1>2. TypeOK /\ Board /\ Rest \in Seq(Steps)
  BY <1>1, Quiet DEF PushInv, Board, TypeOK
<1>. PICK edge \in [Lanes -> Edges] :
       \E s \in InOrder({l \in Lanes : Lead(l, edge[l]) # 0}) :
         todo' = [i \in DOMAIN s |-> Losses(s[i], edge[s[i]])] \o Rest
  BY DEF MinionBattle
<1>. PICK s \in InOrder({l \in Lanes : Lead(l, edge[l]) # 0}) :
       todo' = [i \in DOMAIN s |-> Losses(s[i], edge[s[i]])] \o Rest
  OBVIOUS
<1>3. s \in Seq(Lanes) /\ DOMAIN s = 1 .. Len(s) /\ Len(s) \in Nat
  BY <1>2, Listed DEF Board
<1>4. ASSUME NEW l \in Lanes, NEW n \in Edges
      PROVE  Losses(l, n) \in Steps /\ Losses(l, n).do = "remove"
  <2>1. Lead(l, n) \in Int
    BY CountType, LanesAssumption DEF Lead
  <2>. DEFINE a == Lead(l, n)
              b == 0 - Lead(l, n)
  <2>2. a \in Int /\ b \in Int /\ (a >= 0 \/ b >= 0)
    BY <2>1
  <2>3. Losses(l, n) = [do |-> "remove", team |-> IF a < 0 THEN "RED" ELSE "BLUE",
                        left |-> Max({a, b}), from |-> Here(l)]
    BY DEF Losses
  <2>. HIDE DEF a, b
  <2>4. Max({a, b}) \in {a, b} /\ Max({a, b}) >= a /\ Max({a, b}) >= b
    BY <2>2, MaxOfTwo
  <2>5. Max({a, b}) \in Nat
    BY <2>2, <2>4
  <2>6. Here(l) \in Anywhere
    BY <1>2, HereType
  <2>. QED BY <2>3, <2>5, <2>6 DEF Steps, Teams
<1>. DEFINE t == [i \in DOMAIN s |-> Losses(s[i], edge[s[i]])]
<1>5. \A i \in DOMAIN s : t[i] \in Steps /\ t[i].do = "remove"
  BY <1>3, <1>4
<1>6. t \in Seq(Steps) /\ DOMAIN t = DOMAIN s
  BY <1>3, <1>5
<1>7. todo' = t \o Rest
  OBVIOUS
<1>. HIDE DEF t
<1>8. Ordered(t)
  BY <1>5, <1>6 DEF Ordered, Above
<1>9. \A i \in DOMAIN t, j \in DOMAIN Rest : t[i].do \in Above(Rest[j].do)
  <2>1. \A j \in DOMAIN Rest : "battle" \in Above(Rest[j].do)
    BY <1>1, Quiet
  <2>2. \A k : "battle" \in Above(k) => k = "check"
    BY DEF Above
  <2>3. "remove" \in Above("check")
    BY DEF Above
  <2>. QED BY <1>5, <1>6, <2>1, <2>2, <2>3
<1>. QED BY <1>1, <1>2, <1>5, <1>6, <1>7, <1>8, <1>9, QuietKeeps DEF TypeOK, Standing

\* What a check knows of its lanes.
LEMMA DueFacts ==
    ASSUME Board, TypeOK, NEW l \in Due
    PROVE  /\ l \in Lanes /\ Loser(Here(l)) \in Teams /\ Pushed[l] = Target(l, Loser(Here(l)))
           /\ Target(l, Loser(Here(l))) \in Int
           /\ Throne(Pushed[l]) => ThroneWinners # {}
<1>1. l \in Lanes /\ Loser(Here(l)) # Nobody
  BY DEF Due
<1>2. Loser(Here(l)) \in Teams
  BY <1>1, LoserType
<1>3. Pushed[l] = Target(l, Loser(Here(l)))
  BY <1>1 DEF Pushed
<1>4. Throne(Pushed[l]) => ThroneWinners # {}
  BY DEF ThroneWinners
<1>. QED BY <1>1, <1>2, <1>3, <1>4, HereType

LEMMA FlippedType ==
    ASSUME TypeOK
    PROVE  Lanes \subseteq DOMAIN Flipped /\ \A l \in Lanes : Flipped[l] \in Int
<1>1. DOMAIN Flipped = Lanes /\ \A l \in Lanes : Flipped[l] = IF l \in Due THEN Max({0, waves[l] - 1}) ELSE waves[l]
  BY DEF Flipped
<1>2. \A k \in Int : Max({0, k}) \in Int
  <2>1. 0 \in Int
    OBVIOUS
  <2>2. \A k \in Int : Max({0, k}) \in {0, k}
    BY <2>1, MaxOfTwo, Zenon
  <2>. QED BY <2>2
<1>3. \A l \in Lanes : waves[l] \in Int /\ waves[l] - 1 \in Int
  BY DEF TypeOK
<1>. QED BY <1>1, <1>2, <1>3

LEMMA CheckQuiet ==
    ASSUME PushInv, CheckNothing \/ CheckWon \/ CheckTied
    PROVE  PushInv'
<1>1. /\ todo # <<>> /\ Head(todo).do = "check" /\ over = Nobody
      /\ UNCHANGED <<board, zone, lives, over, patches>>
  BY DEF CheckNothing, CheckWon, CheckTied, Checking, Ready
<1>2. TypeOK /\ Board /\ Rest = <<>>
  BY <1>1, Quiet DEF PushInv, Board, TypeOK
<1>3. CASE CheckNothing
  BY <1>1, <1>2, <1>3, PopQuiet DEF CheckNothing, TypeOK, Standing
<1>4. CASE CheckWon
  <2>1. Verdict \in Teams /\ waves' = Flipped /\ at' = at /\ todo' = GameOver(Verdict) \o Rest
    BY <1>4 DEF CheckWon
  <2>2. /\ GameOver(Verdict) \in Seq(Steps) /\ Ordered(GameOver(Verdict))
        /\ \A i \in DOMAIN GameOver(Verdict) : GameOver(Verdict)[i].do # "push"
    BY <2>1, OverType
  <2>3. \A i \in DOMAIN GameOver(Verdict), j \in DOMAIN Rest :
            GameOver(Verdict)[i].do \in Above(Rest[j].do)
    BY <1>2, Empty
  <2>4. Lanes \subseteq DOMAIN waves' /\ \A l \in Lanes : waves'[l] \in Int
    BY <1>2, <2>1, FlippedType
  <2>. QED BY <1>1, <1>2, <2>1, <2>2, <2>3, <2>4, QuietKeeps DEF TypeOK, Standing
<1>5. CASE CheckTied
  <2>1. /\ waves' = Flipped
        /\ \E s \in DueOrder, blocked \in [Due -> UNION {Blocks(Points[l][zone[l]]) : l \in Due}] :
             /\ \A l \in Due : blocked[l] \subseteq Points[l][zone[l]]
             /\ at' = TieRemedy(s, blocked).place
             /\ todo' = Displace(TieRemedy(s, blocked).queued) \o Rest
    BY <1>5 DEF CheckTied
  <2>. PICK s \in DueOrder, blocked \in [Due -> UNION {Blocks(Points[l][zone[l]]) : l \in Due}] :
         /\ \A l \in Due : blocked[l] \subseteq Points[l][zone[l]]
         /\ at' = TieRemedy(s, blocked).place
         /\ todo' = Displace(TieRemedy(s, blocked).queued) \o Rest
    BY <2>1
  <2>. DEFINE Q == TieRemedy(s, blocked).queued
  <2>2. s \in Seq(Lanes) /\ \A i \in DOMAIN s : s[i] \in Due
    <3>1. Due \in SUBSET Lanes
      BY DEF Due
    <3>. QED BY <1>2, <3>1, Listed DEF Board, DueOrder
  <2>3. at' \in Standing /\ Q \in SUBSET Minions
    BY <1>2, <2>2, TieType DEF TypeOK, Standing
  <2>. HIDE DEF Q
  <2>4. /\ Displace(Q) \in Seq(Steps) /\ Ordered(Displace(Q))
        /\ \A i \in DOMAIN Displace(Q) : Displace(Q)[i].do # "push"
    BY <2>3, DisplaceType
  <2>5. \A i \in DOMAIN Displace(Q), j \in DOMAIN Rest : Displace(Q)[i].do \in Above(Rest[j].do)
    BY <1>2, Empty
  <2>6. Lanes \subseteq DOMAIN waves' /\ \A l \in Lanes : waves'[l] \in Int
    BY <1>2, <2>1, FlippedType
  <2>7. todo' = Displace(Q) \o Rest
    BY DEF Q
  <2>. QED BY <1>1, <2>3, <2>4, <2>5, <2>6, <2>7, QuietKeeps
<1>. QED BY <1>3, <1>4, <1>5

\* The pushes of one check, as they are put on an empty stack.
PushStep(l, decides, target) ==
    [do |-> "push", lane |-> l, loser |-> Loser(Here(l)), decides |-> decides, target |-> target]

LEMMA NewPushes ==
    ASSUME PushInv, Checking, UNCHANGED <<board, zone, at, lives, over, patches>>,
           NEW s \in DueOrder, NEW t, Len(t) = Len(s), DOMAIN t = DOMAIN s, t \in Seq(Steps),
           \A i \in DOMAIN s : \/ ~Multi /\ t[i] = PushStep(s[i], TRUE, 0)
                               \/ /\ Multi /\ ThroneWinners = {}
                                  /\ t[i] = PushStep(s[i], FALSE, Pushed[s[i]]),
           todo' = t \o Rest, Lanes \subseteq DOMAIN waves', \A l \in Lanes : waves'[l] \in Int
    PROVE  PushInv'
<1>1. todo # <<>> /\ Head(todo).do = "check" /\ over = Nobody
  BY DEF Checking, Ready
<1>2. TypeOK /\ Board /\ Rest = <<>> /\ NoThrone
  BY <1>1, Quiet DEF PushInv, Board, TypeOK
<1>3. todo' = t
  BY <1>2
<1>4. /\ \A i \in DOMAIN s : s[i] \in Due
      /\ \A i, j \in DOMAIN s : i < j => s[i] # s[j]
  <2>1. Due \in SUBSET Lanes
    BY DEF Due
  <2>. QED BY <1>2, <2>1, Listed DEF Board, DueOrder
<1>5. \A i \in DOMAIN t : t[i].do = "push" /\ t[i].lane = s[i]
  BY DEF PushStep
<1>6. Ordered(t)
  BY <1>5 DEF Ordered, Above
<1>7. \A i \in DOMAIN t : PushFits(t[i])
  <2> SUFFICES ASSUME NEW i \in DOMAIN t PROVE PushFits(t[i])
    OBVIOUS
  <2>1. s[i] \in Due /\ i \in DOMAIN s
    BY <1>4
  <2>2. /\ s[i] \in Lanes /\ Pushed[s[i]] = Target(s[i], Loser(Here(s[i])))
        /\ Throne(Pushed[s[i]]) => ThroneWinners # {}
    BY <1>2, <2>1, DueFacts
  <2>3. CASE ~Multi /\ t[i] = PushStep(s[i], TRUE, 0)
    <3>1. t[i].lane = s[i] /\ t[i].loser = Loser(Here(s[i])) /\ t[i].decides = TRUE
      BY <2>3 DEF PushStep
    <3>. QED BY <2>2, <2>3, <3>1 DEF PushFits
  <2>4. CASE Multi /\ ThroneWinners = {} /\ t[i] = PushStep(s[i], FALSE, Pushed[s[i]])
    <3>1. /\ t[i].lane = s[i] /\ t[i].loser = Loser(Here(s[i])) /\ t[i].decides = FALSE
          /\ t[i].target = Pushed[s[i]]
      BY <2>4 DEF PushStep
    <3>2. ~Throne(t[i].target) /\ t[i].target = Target(t[i].lane, t[i].loser)
      BY <2>2, <2>4, <3>1
    <3>. QED BY <2>2, <2>4, <3>1, <3>2 DEF PushFits
  <2>. QED BY <2>1, <2>3, <2>4
<1>8. \A i, j \in DOMAIN t : i < j => Apart(t[i], t[j])
  BY <1>4, <1>5 DEF Apart
<1>9. Pushes(t)
  BY <1>7, <1>8 DEF Pushes
<1>10. Pushes(t)' /\ NoThrone'
  BY <1>2, <1>9, SameBoard
<1>11. TypeOK'
  BY <1>2, <1>3 DEF TypeOK, Lanes
<1>12. Pushes(todo)' /\ Ordered(todo)'
  BY <1>3, <1>6, <1>10 DEF Ordered
<1>. QED BY <1>1, <1>10, <1>11, <1>12 DEF PushInv, Finished

LEMMA CheckPushing ==
    ASSUME PushInv, CheckSingle \/ CheckPushes
    PROVE  PushInv'
<1>1. TypeOK /\ Board /\ Due \in SUBSET Lanes
  BY DEF PushInv, Board, TypeOK, Due
<1>2. ASSUME NEW l \in Due, NEW d \in BOOLEAN, NEW target \in Int
      PROVE  PushStep(l, d, target) \in Steps
  <2>1. l \in Lane /\ Loser(Here(l)) \in Teams
    BY <1>1, DueFacts, LaneFacts DEF Board
  <2>. QED BY <2>1 DEF PushStep, Steps
<1>3. ASSUME NEW s \in DueOrder
      PROVE  DOMAIN s = 1 .. Len(s) /\ Len(s) \in Nat /\ \A i \in DOMAIN s : s[i] \in Due
  BY <1>1, Listed DEF Board, DueOrder
<1>4. CASE CheckSingle
  <2>1. /\ Checking /\ ~Multi
        /\ UNCHANGED <<board, zone, waves, at, lives, over, patches>>
        /\ \E s \in DueOrder : todo' = [i \in DOMAIN s |-> PushStep(s[i], TRUE, 0)] \o Rest
    BY <1>4 DEF CheckSingle, PushStep
  <2>. PICK s \in DueOrder : todo' = [i \in DOMAIN s |-> PushStep(s[i], TRUE, 0)] \o Rest
    BY <2>1
  <2>. DEFINE t == [i \in DOMAIN s |-> PushStep(s[i], TRUE, 0)]
  <2>2. /\ t \in Seq(Steps) /\ DOMAIN t = DOMAIN s /\ Len(t) = Len(s)
        /\ \A i \in DOMAIN s : t[i] = PushStep(s[i], TRUE, 0)
    <3>1. \A l \in Due : PushStep(l, TRUE, 0) \in Steps
      <4>1. TRUE \in BOOLEAN /\ 0 \in Int
        OBVIOUS
      <4>. QED BY <1>2, <4>1, Zenon
    <3>2. \A i \in DOMAIN s : t[i] \in Steps
      BY <1>3, <3>1
    <3>3. t \in [1 .. Len(s) -> Steps]
      BY <1>3, <3>2
    <3>4. DOMAIN t = DOMAIN s /\ \A i \in DOMAIN s : t[i] = PushStep(s[i], TRUE, 0)
      OBVIOUS
    <3>. HIDE DEF t
    <3>5. Len(s) \in Nat
      BY <1>3
    <3>6. t \in Seq(Steps) /\ Len(t) = Len(s)
      BY ONLY <3>3, <3>5
    <3>. QED BY <3>4, <3>6
  <2>3. todo' = t \o Rest
    OBVIOUS
  <2>. HIDE DEF t
  <2>. QED BY <1>1, <2>1, <2>2, <2>3, NewPushes DEF TypeOK
<1>5. CASE CheckPushes
  <2>1. /\ Checking /\ Multi /\ Verdict = "none" /\ waves' = Flipped
        /\ UNCHANGED <<board, zone, at, lives, over, patches>>
        /\ \E s \in DueOrder : todo' = [i \in DOMAIN s |-> PushStep(s[i], FALSE, Pushed[s[i]])] \o Rest
    BY <1>5 DEF CheckPushes, PushStep
  <2>. PICK s \in DueOrder : todo' = [i \in DOMAIN s |-> PushStep(s[i], FALSE, Pushed[s[i]])] \o Rest
    BY <2>1
  <2>. DEFINE t == [i \in DOMAIN s |-> PushStep(s[i], FALSE, Pushed[s[i]])]
  <2>2. \A i \in DOMAIN s : Pushed[s[i]] \in Int
    BY <1>1, <1>3, DueFacts
  <2>3. /\ t \in Seq(Steps) /\ DOMAIN t = DOMAIN s /\ Len(t) = Len(s)
        /\ \A i \in DOMAIN s : t[i] = PushStep(s[i], FALSE, Pushed[s[i]])
    <3>1. \A l \in Due, target \in Int : PushStep(l, FALSE, target) \in Steps
      <4>1. FALSE \in BOOLEAN
        OBVIOUS
      <4>. QED BY <1>2, <4>1, Zenon
    <3>2. \A i \in DOMAIN s : t[i] \in Steps
      BY <1>3, <2>2, <3>1
    <3>3. t \in [1 .. Len(s) -> Steps]
      BY <1>3, <3>2
    <3>4. DOMAIN t = DOMAIN s /\ \A i \in DOMAIN s : t[i] = PushStep(s[i], FALSE, Pushed[s[i]])
      OBVIOUS
    <3>. HIDE DEF t
    <3>5. Len(s) \in Nat
      BY <1>3
    <3>6. t \in Seq(Steps) /\ Len(t) = Len(s)
      BY ONLY <3>3, <3>5
    <3>. QED BY <3>4, <3>6
  <2>4. todo' = t \o Rest
    OBVIOUS
  <2>5. ThroneWinners = {}
    <3>1. ASSUME ThroneWinners # {}, ThroneWinners # Teams PROVE \E t1 \in Teams : t1 \in ThroneWinners
      <4>1. \A d \in Due : Other(Loser(Here(d))) \in Teams
        BY <1>1, DueFacts, OtherType
      <4>. QED BY <3>1, <4>1 DEF ThroneWinners
    <3>2. ASSUME ThroneWinners # {}, ThroneWinners # Teams PROVE Verdict \in Teams
      <4>1. Verdict = CHOOSE t1 \in Teams : t1 \in ThroneWinners
        BY <3>2 DEF Verdict
      <4>. QED BY <3>1, <3>2, <4>1
    <3>3. ThroneWinners = Teams => Verdict = "tie"
      BY DEF Verdict
    <3>. QED BY <2>1, <3>2, <3>3 DEF Teams
  <2>6. Lanes \subseteq DOMAIN waves' /\ \A l \in Lanes : waves'[l] \in Int
    BY <1>1, <2>1, FlippedType
  <2>. HIDE DEF t
  <2>. QED BY <2>1, <2>3, <2>4, <2>5, <2>6, NewPushes
<1>. QED BY <1>4, <1>5

\* What is popped from, or put on, a stack that pushes wait on.
LEMMA RestFits ==
    ASSUME PushInv, todo # <<>>
    PROVE  /\ Rest \in Seq(Steps) /\ Ordered(Rest) /\ Pushes(Rest) /\ PushFits(Head(todo))
           /\ \A i \in DOMAIN Rest : Apart(Head(todo), Rest[i])
  BY Quiet, PushesTail DEF PushInv, TypeOK, Rest

LEMMA OverKeeps == ASSUME PushInv, TriggerGameOver PROVE PushInv'
<1>1. /\ todo # <<>> /\ Head(todo).do = "over" /\ over' = Head(todo).winner /\ todo' = <<>>
      /\ UNCHANGED <<board, zone, waves, at, lives, patches, astray>>
  BY DEF TriggerGameOver, Ready
<1>2. TypeOK /\ NoThrone /\ Head(todo) \in Steps
  BY <1>1, Quiet DEF PushInv
<1>3. over' \in Teams
  <2>1. Head(todo) \in [do : {"over"}, winner : Teams]
    BY <1>1, <1>2, StepTypes
  <2>. QED BY <1>1, <2>1
<1>4. todo' \in Seq(Steps) /\ DOMAIN todo' = {}
  BY <1>1, Empty
<1>5. TypeOK'
  BY <1>1, <1>2, <1>3, <1>4 DEF TypeOK, Lanes
<1>6. NoThrone'
  BY <1>1, <1>2 DEF NoThrone, Lanes
<1>. QED BY <1>1, <1>4, <1>5, <1>6 DEF PushInv, Ordered, Finished, Pushes

LEMMA WinsKeeps == ASSUME PushInv, PushWins PROVE PushInv'
<1>. DEFINE step == Head(todo)
            s    == GameOver(Other(step.loser))
<1>1. /\ todo # <<>> /\ step.do = "push" /\ over = Nobody /\ step.decides
      /\ waves' = [waves EXCEPT ![step.lane] = @ - 1] /\ todo' = s \o Rest
      /\ UNCHANGED <<board, zone, at, lives, over, patches, astray>>
  BY DEF PushWins, Ready
<1>2. /\ TypeOK /\ NoThrone /\ step \in Steps /\ Rest \in Seq(Steps) /\ Ordered(Rest) /\ Pushes(Rest)
      /\ \A j \in DOMAIN Rest : step.do \in Above(Rest[j].do)
  BY <1>1, Quiet, RestFits DEF PushInv
<1>3. step \in [do : {"push"}, lane : Lane, loser : Teams, decides : BOOLEAN, target : Int]
  BY <1>1, <1>2, StepTypes
<1>4. s \in Seq(Steps) /\ Ordered(s) /\ DOMAIN s = {1} /\ s[1].do = "over"
  BY <1>3, OtherType, OverType
<1>5. \A i \in DOMAIN s, j \in DOMAIN Rest : s[i].do \in Above(Rest[j].do)
  BY <1>1, <1>2, <1>4 DEF Above
<1>6. Pushes(s) /\ \A i \in DOMAIN s, j \in DOMAIN Rest : Apart(s[i], Rest[j])
  BY <1>4, NoPushes DEF Apart
<1>. HIDE DEF s
<1>. DEFINE r == Rest
<1>. HIDE DEF r
<1>7. r \in Seq(Steps) /\ Ordered(r) /\ Pushes(r) /\ todo' = s \o r
      /\ \A i \in DOMAIN s, j \in DOMAIN r : s[i].do \in Above(r[j].do) /\ Apart(s[i], r[j])
  BY <1>1, <1>2, <1>5, <1>6 DEF r
<1>8. s \o r \in Seq(Steps) /\ Ordered(s \o r) /\ Pushes(s \o r)
  BY <1>4, <1>6, <1>7, Onto, OrderedOnto, PushesOnto
<1>9. NoThrone' /\ \A q : Pushes(q)' <=> Pushes(q)
  BY <1>1, <1>2, SameBoard
<1>10. Lanes \subseteq DOMAIN waves' /\ \A l \in Lanes : waves'[l] \in Int
  BY <1>1, <1>2 DEF TypeOK
<1>11. TypeOK'
  BY <1>1, <1>2, <1>7, <1>8, <1>10 DEF TypeOK, Lanes
<1>12. Pushes(todo)' /\ Ordered(todo)'
  BY <1>7, <1>8, <1>9 DEF Ordered
<1>. QED BY <1>1, <1>9, <1>11, <1>12 DEF PushInv, Finished

\* A zone of another lane has the minions it had.
LEMMA LoserStays ==
    ASSUME NEW z, \A m \in Minions : (at[m] = z <=> at'[m] = z)
    PROVE  Loser(z)' = Loser(z)
<1>1. \A t : {m \in Minions : TeamOf[m] = t /\ at'[m] = z} = {m \in Minions : TeamOf[m] = t /\ at[m] = z}
  OBVIOUS
<1>2. \A t : Count(t, z)' = Count(t, z)
  BY <1>1 DEF Count
<1>. QED BY <1>2 DEF Loser

\* A push that waits survives what happens to the other lanes.
LEMMA PushStays ==
    ASSUME UNCHANGED board, NEW step, PushFits(step), step.do = "push" => zone'[step.lane] = zone[step.lane],
           step.do = "push" => \A m \in Minions : (at[m] = Here(step.lane) <=> at'[m] = Here(step.lane))
    PROVE  PushFits(step)'
<1>. SUFFICES ASSUME step.do = "push" PROVE PushFits(step)'
  BY DEF PushFits
<1>1. Lanes' = Lanes /\ (Multi' <=> Multi)
  BY DEF Lanes, Multi
<1>2. Here(step.lane)' = Here(step.lane)
  BY DEF Here
<1>3. \A t : Target(step.lane, t)' = Target(step.lane, t)
  BY DEF Target
<1>. DEFINE z == Here(step.lane)
<1>4. Loser(z)' = Loser(z)
  <2>1. z' = z /\ \A m \in Minions : (at[m] = z <=> at'[m] = z)
    BY <1>2
  <2>. HIDE DEF z
  <2>2. \A y : (\A m \in Minions : (at[m] = y <=> at'[m] = y)) => Loser(y)' = Loser(y)
    BY LoserStays
  <2>. QED BY <2>1, <2>2
<1>. QED BY <1>1, <1>2, <1>3, <1>4 DEF PushFits

\* So do all that wait, when nobody is displaced between them.
LEMMA PushesStay ==
    ASSUME UNCHANGED board, NEW r, Pushes(r), \A i \in DOMAIN r : r[i].do # "displace",
           \A i \in DOMAIN r : r[i].do = "push" =>
             /\ zone'[r[i].lane] = zone[r[i].lane]
             /\ \A m \in Minions : (at[m] = Here(r[i].lane) <=> at'[m] = Here(r[i].lane))
    PROVE  Pushes(r)'
<1>1. \A i \in DOMAIN r : PushFits(r[i])'
  <2> SUFFICES ASSUME NEW i \in DOMAIN r PROVE PushFits(r[i])'
    OBVIOUS
  <2>1. PushFits(r[i])
    BY DEF Pushes
  <2>. QED BY <2>1, PushStays
<1>2. \A i, j \in DOMAIN r : i < j => Apart(r[i], r[j])'
  BY DEF Pushes, Apart
<1>. QED BY <1>1, <1>2 DEF Pushes

\* What holds of stacks in a state holds in the next one.
LEMMA PushesOntoAlways ==
    \A s, r \in Seq(Steps) :
        Pushes(s) /\ Pushes(r) /\ (\A i \in DOMAIN s, j \in DOMAIN r : Apart(s[i], r[j]))
            => Pushes(s \o r)
  BY PushesOnto

LEMMA PushesOntoNext ==
    (\A s, r \in Seq(Steps) :
        Pushes(s) /\ Pushes(r) /\ (\A i \in DOMAIN s, j \in DOMAIN r : Apart(s[i], r[j]))
            => Pushes(s \o r))'
  BY PushesOntoAlways, PTL

\* A displaced minion comes to stand in a lane that is not pushed any more.
LEMMA DisplacedKeeps == ASSUME PushInv, ResolveDisplacement PROVE PushInv'
<1>. DEFINE who == Head(todo).who
<1>1. /\ todo # <<>> /\ Head(todo).do = "displace" /\ over = Nobody
      /\ UNCHANGED <<board, zone, waves, lives, over, patches, astray>>
      /\ \E m \in who : /\ at' = [at EXCEPT ![m] = Here(LaneOf[m])]
                        /\ todo' = Displace(who \ {m}) \o Rest
  BY DEF ResolveDisplacement, Ready
<1>2. /\ TypeOK /\ NoThrone /\ Board /\ Head(todo) \in Steps
      /\ Rest \in Seq(Steps) /\ Ordered(Rest) /\ Pushes(Rest)
      /\ \A j \in DOMAIN Rest : Head(todo).do \in Above(Rest[j].do) /\ Apart(Head(todo), Rest[j])
  BY <1>1, Quiet, RestFits DEF PushInv, Board, TypeOK
<1>3. who \in SUBSET Minions
  BY <1>1, <1>2, StepTypes
<1>. PICK m \in who : /\ at' = [at EXCEPT ![m] = Here(LaneOf[m])]
                      /\ todo' = Displace(who \ {m}) \o Rest
  BY <1>1
<1>4. m \in Minions /\ LaneOf[m] \in Lane
  BY <1>3, LanesAssumption
<1>5. at \in Standing /\ at' \in Standing
  <2>1. Here(LaneOf[m]) \in Anywhere
    BY <1>2, <1>4 DEF Board, Here, Anywhere
  <2>. QED BY <1>2, <1>4, <2>1 DEF TypeOK, Standing
<1>6. \A j \in DOMAIN Rest : Rest[j].do = "push" =>
         /\ Rest[j].lane \in Lanes
         /\ \A g \in who : at[g] = Limbo /\ LaneOf[g] # Rest[j].lane
  <2>1. \A j \in DOMAIN Rest : PushFits(Rest[j])
    BY <1>2 DEF Pushes
  <2>2. \A j \in DOMAIN Rest : Apart(Head(todo), Rest[j])
    BY <1>2
  <2>. QED BY <1>1, <2>1, <2>2 DEF PushFits, Apart
<1>. PICK s, r : s = Displace(who \ {m}) /\ r = Rest
  OBVIOUS
<1>7. /\ s \in Seq(Steps) /\ Ordered(s)
      /\ \A i \in DOMAIN s : s[i].do = "displace" /\ s[i].who = who \ {m}
  BY <1>3, DisplaceType
<1>8. /\ r \in Seq(Steps) /\ Ordered(r) /\ Pushes(r) /\ todo' = s \o r
      /\ \A j \in DOMAIN r : "displace" \in Above(r[j].do)
  BY <1>1, <1>2
<1>. HIDE DEF who
<1>9. \A i \in DOMAIN s, j \in DOMAIN r : s[i].do \in Above(r[j].do)
  BY <1>7, <1>8
<1>10. \A j \in DOMAIN r : /\ r[j].do # "displace"
                           /\ r[j].do = "push" => /\ r[j].lane \in Lanes
                                                 /\ \A g \in who : at[g] = Limbo /\ LaneOf[g] # r[j].lane
  BY <1>6, <1>8 DEF Above
<1>11. \A j \in DOMAIN r : r[j].do = "push" =>
          \A g \in Minions : (at[g] = Here(r[j].lane) <=> at'[g] = Here(r[j].lane))
  <2> SUFFICES ASSUME NEW j \in DOMAIN r, r[j].do = "push", NEW g \in Minions
               PROVE  at[g] = Here(r[j].lane) <=> at'[g] = Here(r[j].lane)
    OBVIOUS
  <2>1. /\ r[j].lane \in Lanes /\ at[m] = Limbo /\ LaneOf[m] # r[j].lane
        /\ Here(r[j].lane) # Limbo
    BY <1>2, <1>10, HereType
  <2>2. Here(LaneOf[m]) # Here(r[j].lane)
    BY <2>1 DEF Here
  <2>3. at'[g] = IF g = m THEN Here(LaneOf[m]) ELSE at[g]
    BY <1>4, <1>5 DEF Standing
  <2>. QED BY <2>1, <2>2, <2>3
<1>12. \A g \in who \ {m} : at'[g] = at[g]
  BY <1>3, <1>5 DEF Standing
<1>13. Pushes(r)'
  <2>1. \A q : /\ Pushes(q) /\ \A j \in DOMAIN q : q[j].do # "displace"
               /\ \A j \in DOMAIN q : q[j].do = "push" =>
                     /\ zone'[q[j].lane] = zone[q[j].lane]
                     /\ \A g \in Minions : (at[g] = Here(q[j].lane) <=> at'[g] = Here(q[j].lane))
               => Pushes(q)'
    BY <1>1, PushesStay
  <2>. QED BY <1>1, <1>8, <1>10, <1>11, <2>1
<1>14. /\ \A i \in DOMAIN s : s[i].do = "displace" /\ s[i].who = who \ {m}
       /\ Pushes(s)'
  BY <1>7 DEF Pushes, PushFits, Apart
<1>15. \A i \in DOMAIN s, j \in DOMAIN r : Apart(s[i], r[j])'
  <2> SUFFICES ASSUME NEW i \in DOMAIN s, NEW j \in DOMAIN r PROVE Apart(s[i], r[j])'
    OBVIOUS
  <2>1. r[j].do = "push" => \A g \in s[i].who : at'[g] = Limbo /\ LaneOf[g] # r[j].lane
    BY <1>7, <1>10, <1>12
  <2>2. s[i].do = "displace"
    BY <1>7
  <2>. QED BY <2>1, <2>2 DEF Apart
<1>16. Pushes(s \o r)'
  BY <1>7, <1>8, <1>13, <1>14, <1>15, PushesOntoNext
<1>17. s \o r \in Seq(Steps) /\ Ordered(s \o r)
  BY <1>7, <1>8, <1>9, Onto, OrderedOnto
<1>18. TypeOK'
  BY <1>1, <1>2, <1>5, <1>8, <1>17 DEF TypeOK, Lanes, Standing
<1>19. NoThrone'
  BY <1>1, <1>2 DEF NoThrone, Lanes
<1>20. Pushes(todo)' /\ Ordered(todo)'
  BY <1>8, <1>16, <1>17 DEF Ordered
<1>. QED BY <1>1, <1>18, <1>19, <1>20 DEF PushInv, Finished

\* The minions of a spawn: those who stood there are gone, those drafted stand
\* in the new zone, those without a space stay in the box.
LEMMA SpawnFacts ==
    ASSUME Board, NEW place \in Standing, NEW l \in Lanes, NEW i \in 2 .. Length - 1,
           NEW B \in SUBSET Points[l][i], NEW s,
           s = Spawn(Wipe(place, Here(l)), l, <<l, i>>, B)
    PROVE  /\ s.place \in Standing /\ s.queued \in SUBSET Minions
           /\ \A m \in s.queued : s.place[m] = Limbo /\ LaneOf[m] = l
           /\ \A k \in Lanes \ {l}, m \in Minions : s.place[m] = Here(k) <=> place[m] = Here(k)
<1>. DEFINE wiped == Wipe(place, Here(l))
            now   == Drafted(wiped, l, Points[l][i] \ B)
            after == [m \in Minions |-> IF m \in now THEN <<l, i>> ELSE wiped[m]]
<1>1. l \in Lane /\ i \in 1 .. Length
  BY LaneFacts, LanesAssumption DEF Board
<1>2. s = [place |-> after, queued |-> Drafted(after, l, B)]
  BY DEF Spawn
<1>3. s.place \in Standing /\ s.queued \in SUBSET Minions
  BY <1>1, SpawnType
<1>4. \A m \in s.queued : s.place[m] = Limbo /\ LaneOf[m] = l
  <2>1. IsFiniteSet(B)
    BY <1>1, PointsFinite
  <2>. HIDE DEF after
  <2>2. s.queued = Drafted(after, l, B) /\ s.place = after
    BY <1>2
  <2>. QED BY <2>1, <2>2, Drafts
<1>5. \A m \in now : m \in Minions /\ wiped[m] = Limbo
  <2>1. PICK w, P : w = wiped /\ P = Points[l][i] \ B
    OBVIOUS
  <2>2. IsFiniteSet(P)
    BY <1>1, <2>1, PointsFinite
  <2>3. \A m \in Drafted(w, l, P) : m \in Minions /\ w[m] = Limbo
    BY <2>2, Drafts
  <2>. QED BY <2>1, <2>3
<1>6. ASSUME NEW k \in Lanes \ {l}, NEW m \in Minions
      PROVE  s.place[m] = Here(k) <=> place[m] = Here(k)
  <2>1. Here(k) # Limbo /\ Here(k) # Here(l)
    BY HereType
  <2>2. Here(k) # <<l, i>>
    BY DEF Here
  <2>3. wiped[m] = IF place[m] = Here(l) THEN Limbo ELSE place[m]
    BY DEF Wipe
  <2>4. s.place[m] = IF m \in now THEN <<l, i>> ELSE wiped[m]
    BY <1>2
  <2>. QED BY <1>5, <2>1, <2>2, <2>3, <2>4
<1>. QED BY <1>3, <1>4, <1>6

LEMMA MovesKeep == ASSUME PushInv, PushMoves PROVE PushInv'
<1>a. PICK step, r : step = Head(todo) /\ r = Rest
  OBVIOUS
<1>b. PICK l, new : l = step.lane /\ new = IF step.decides THEN Target(l, step.loser) ELSE step.target
  OBVIOUS
<1>1. /\ todo # <<>> /\ step.do = "push" /\ over = Nobody
      /\ waves' = IF step.decides THEN [waves EXCEPT ![l] = @ - 1] ELSE waves
      /\ step.decides => ~Throne(new)
      /\ zone' = [zone EXCEPT ![l] = new]
      /\ UNCHANGED <<board, lives, over, patches, astray>>
      /\ \E blocked \in Blocks(Points[l][new]) :
           LET s == Spawn(Wipe(at, Here(l)), l, <<l, new>>, blocked)
           IN  at' = s.place /\ todo' = Displace(s.queued) \o r
  BY <1>a, <1>b DEF PushMoves, Ready
<1>2. /\ TypeOK /\ NoThrone /\ Board /\ step \in Steps
      /\ r \in Seq(Steps) /\ Ordered(r) /\ Pushes(r) /\ PushFits(step)
      /\ \A j \in DOMAIN r : step.do \in Above(r[j].do) /\ Apart(step, r[j])
  BY <1>a, <1>1, Quiet, RestFits DEF PushInv, Board, TypeOK
<1>3. /\ l \in Lanes /\ l \in Lane /\ new \in Int /\ ~Throne(new) /\ new \in 2 .. Length - 1
      /\ Lanes' = Lanes /\ at \in Standing /\ zone \in [Lane -> Int]
  <2>1. l \in Lanes /\ (step.decides \/ ~Throne(step.target))
    BY <1>b, <1>1, <1>2 DEF PushFits
  <2>2. step \in [do : {"push"}, lane : Lane, loser : Teams, decides : BOOLEAN, target : Int]
    BY <1>1, <1>2, StepTypes
  <2>3. Target(l, step.loser) \in Int /\ l \in Lane
    BY <1>2, <2>1, HereType
  <2>4. new \in Int /\ ~Throne(new)
    BY <1>b, <1>1, <2>1, <2>2, <2>3
  <2>5. Length \in Nat
    BY LanesAssumption
  <2>6. new \in 2 .. Length - 1
    BY <2>4, <2>5 DEF Throne
  <2>7. Lanes' = Lanes
    BY <1>1 DEF Lanes
  <2>. QED BY <1>2, <2>1, <2>3, <2>4, <2>6, <2>7 DEF TypeOK, Standing
<1>4. PICK blocked \in SUBSET Points[l][new] :
        LET s == Spawn(Wipe(at, Here(l)), l, <<l, new>>, blocked)
        IN  at' = s.place /\ todo' = Displace(s.queued) \o r
  BY <1>1 DEF Blocks
<1>c. PICK s, d : s = Spawn(Wipe(at, Here(l)), l, <<l, new>>, blocked) /\ d = Displace(s.queued)
  OBVIOUS
<1>5. at' = s.place /\ todo' = d \o r
  BY <1>4, <1>c
<1>6. /\ at' \in Standing /\ s.queued \in SUBSET Minions
      /\ \A m \in s.queued : at'[m] = Limbo /\ LaneOf[m] = l
      /\ \A k \in Lanes \ {l}, m \in Minions : at'[m] = Here(k) <=> at[m] = Here(k)
  <2>1. /\ s.place \in Standing /\ s.queued \in SUBSET Minions
        /\ \A m \in s.queued : s.place[m] = Limbo /\ LaneOf[m] = l
        /\ \A k \in Lanes \ {l}, m \in Minions : s.place[m] = Here(k) <=> at[m] = Here(k)
    <3>1. Board /\ at \in Standing /\ l \in Lanes /\ new \in 2 .. Length - 1
      BY <1>2, <1>3
    <3>2. s = Spawn(Wipe(at, Here(l)), l, <<l, new>>, blocked)
      BY <1>c
    <3>. QED BY ONLY <3>1, <3>2, SpawnFacts, blocked \in SUBSET Points[l][new]
  <2>. QED BY <1>5, <2>1
<1>7. /\ d \in Seq(Steps) /\ Ordered(d)
      /\ \A i \in DOMAIN d : d[i].do = "displace" /\ d[i].who = s.queued
  BY <1>6, <1>c, DisplaceType
<1>8. \A j \in DOMAIN r : /\ r[j].do = "push"
                          /\ r[j].lane \in Lanes \ {l}
  <2> SUFFICES ASSUME NEW j \in DOMAIN r PROVE r[j].do = "push" /\ r[j].lane \in Lanes \ {l}
    OBVIOUS
  <2>1. r[j].do = "push"
    BY <1>1, <1>2 DEF Above
  <2>2. PushFits(r[j]) /\ Apart(step, r[j])
    BY <1>2 DEF Pushes
  <2>. QED BY <1>b, <1>1, <2>1, <2>2 DEF PushFits, Apart
<1>9. \A i \in DOMAIN d, j \in DOMAIN r : d[i].do \in Above(r[j].do)
  BY <1>7, <1>8 DEF Above
<1>10. \A k \in Lanes \ {l} : zone'[k] = zone[k]
  BY <1>1, <1>3, LaneFacts, <1>2 DEF Board
<1>11. Pushes(r)'
  <2>1. \A i \in DOMAIN r : /\ r[i].do # "displace"
                            /\ zone'[r[i].lane] = zone[r[i].lane]
                            /\ \A m \in Minions : (at[m] = Here(r[i].lane) <=> at'[m] = Here(r[i].lane))
    BY <1>6, <1>8, <1>10
  <2>. QED BY <1>1, <1>2, <2>1, PushesStay
<1>12. Pushes(d)'
  BY <1>7 DEF Pushes, PushFits, Apart
<1>13. \A i \in DOMAIN d, j \in DOMAIN r : Apart(d[i], r[j])'
  <2> SUFFICES ASSUME NEW i \in DOMAIN d, NEW j \in DOMAIN r PROVE Apart(d[i], r[j])'
    OBVIOUS
  <2>1. d[i].do = "displace" /\ d[i].who = s.queued /\ r[j].lane # l
    BY <1>7, <1>8
  <2>. QED BY <1>6, <2>1 DEF Apart
<1>14. Pushes(d \o r)'
  BY <1>2, <1>7, <1>11, <1>12, <1>13, PushesOntoNext
<1>15. d \o r \in Seq(Steps) /\ Ordered(d \o r)
  BY <1>2, <1>7, <1>9, Onto, OrderedOnto
<1>16. zone' \in [Lane -> Int] /\ zone'[l] = new
  BY <1>1, <1>3
<1>17. Lanes \subseteq DOMAIN waves' /\ \A k \in Lanes : waves'[k] \in Int
  BY <1>1, <1>2 DEF TypeOK
<1>18. TypeOK'
  BY <1>1, <1>2, <1>3, <1>5, <1>6, <1>15, <1>16, <1>17 DEF TypeOK, Standing
<1>19. NoThrone'
  <2>1. \A k \in Lanes : ~Throne(zone'[k])
    BY <1>2, <1>3, <1>10, <1>16 DEF NoThrone
  <2>. QED BY <1>3, <2>1 DEF NoThrone
<1>20. Pushes(todo)' /\ Ordered(todo)'
  BY <1>5, <1>14, <1>15 DEF Ordered
<1>. QED BY <1>1, <1>18, <1>19, <1>20 DEF PushInv, Finished

LEMMA PushNext == PushInv /\ [Next]_vars => PushInv'
<1> SUFFICES ASSUME PushInv, [Next]_vars PROVE PushInv'
  OBVIOUS
<1>1. CASE Effects
  BY <1>1, EffectsKeep
<1>2. CASE Sources
  BY <1>2, SourcesKeep
<1>3. CASE Patch
  BY <1>3, PatchKeeps
<1>4. CASE Engine
  BY <1>4, ReturnKeeps, BattleKeeps, RemovalKeeps, CheckQuiet, CheckPushing, WinsKeeps,
     MovesKeep, DisplacedKeeps, OverKeeps DEF Engine
<1>5. CASE UNCHANGED vars
  <2>1. UNCHANGED <<board, zone, waves, at, lives, todo, over, patches>>
    BY <1>5 DEF vars
  <2>2. NoThrone' /\ Pushes(todo)' /\ Ordered(todo)'
    BY <2>1, SameBoard DEF PushInv, Ordered
  <2>3. TypeOK'
    BY <2>1 DEF PushInv, TypeOK, Lanes
  <2>. QED BY <2>1, <2>2, <2>3 DEF PushInv, Finished
<1>. QED BY <1>1, <1>2, <1>3, <1>4, <1>5 DEF Next

\* The board, the counters and the steps on the stack keep their types.
THEOREM TypeCorrect == Spec => []TypeOK
<1>1. PushInv => TypeOK
  BY DEF PushInv
<1>. QED BY PushInit, PushNext, <1>1, PTL DEF Spec

\* A push that waits is still due: same loser, same target (CheckLanePushStep
\* computes both before the first push and its prompts run).
THEOREM PushesAreDue == Spec => []PushStaysDue
<1>1. PushInv => PushStaysDue
  BY DEF PushInv, Pushes, PushFits, PushStaysDue
<1>. QED BY PushInit, PushNext, <1>1, PTL DEF Spec

-----------------------------------------------------------------------------
(* The end of the match. *)

\* What decides nothing keeps the decision.
LEMMA SameLives ==
    ASSUME PushInv, OneDecision, lives' = lives, patches' = patches, board' = board,
           Multi \/ waves' = waves, Undecided' => Undecided
    PROVE  OneDecision'
<1>1. Lanes' = Lanes /\ (Multi' <=> Multi)
  BY DEF Lanes, Multi
<1>2. ASSUME NEW T PROVE Alive(T) => Alive(T)'
  BY <1>1 DEF Alive
<1>3. Undecided' => Alive(Teams)'
  BY <1>2 DEF OneDecision
<1>4. patches' = 0 => \A t \in Teams : lives'[t] = 0 => Alive({Other(t)})'
  BY <1>2 DEF OneDecision
<1>. QED BY <1>3, <1>4 DEF OneDecision

LEMMA RunningIsUndecided ==
    ASSUME PushInv, over = Nobody, todo # <<>> => Head(todo).do # "over"
    PROVE  Undecided
<1>1. CASE todo = <<>>
  BY <1>1, Empty DEF Undecided
<1>2. CASE todo # <<>>
  <2>1. todo \in Seq(Steps)
    BY DEF PushInv, TypeOK
  <2>2. \A i \in DOMAIN Rest : Rest[i].do # "over"
    BY <1>2, Quiet
  <2>3. \A i \in DOMAIN todo : i = 1 \/ (i - 1 \in DOMAIN Rest /\ todo[i] = Rest[i - 1])
    BY <1>2, <2>1 DEF Rest
  <2>4. Head(todo) = todo[1]
    BY <1>2, <2>1
  <2>. QED BY <1>2, <2>2, <2>3, <2>4 DEF Undecided
<1>. QED BY <1>1, <1>2

LEMMA AliveInit == Init => OneDecision
<1> SUFFICES ASSUME Init PROVE OneDecision
  OBVIOUS
<1>1. \A t \in Teams : lives[t] > 0
  BY LanesAssumption DEF Init
<1>2. \A l \in Lanes : waves[l] > 0
  BY LanesAssumption, LaneFacts DEF Init
<1>. QED BY <1>1, <1>2, OtherType DEF OneDecision, Alive

LEMMA LivesDecide ==
    ASSUME PushInv, OneDecision, NEW t \in Teams,
           RestoreLife(t) \/ \E n \in 1 .. MaxPenalty : LoseLives(t, n)
    PROVE  OneDecision'
<1>1. /\ Idle /\ UNCHANGED <<board, waves, over, patches>>
      /\ \A u \in Teams \ {t} : lives'[u] = lives[u]
  BY DEF RestoreLife, LoseLives, PushInv, TypeOK
<1>2. Lanes' = Lanes /\ (Multi' <=> Multi)
  BY <1>1 DEF Lanes, Multi
<1>3. Alive(Teams)
  BY <1>1, RunningIsUndecided DEF Idle, OneDecision
<1>4. (lives'[t] = 0 \/ lives'[t] > 0) /\ (lives'[t] = 0 => todo' = GameOver(Other(t)))
  <2>1. lives \in [Teams -> Nat]
    BY DEF PushInv, TypeOK
  <2>2. CASE RestoreLife(t)
    <3>1. lives'[t] = lives[t] + 1
      BY <2>1, <2>2 DEF RestoreLife
    <3>. QED BY <2>1, <3>1
  <2>3. ASSUME NEW n \in 1 .. MaxPenalty, LoseLives(t, n)
        PROVE (lives'[t] = 0 \/ lives'[t] > 0) /\ (lives'[t] = 0 => todo' = GameOver(Other(t)))
    <3>1. lives' = [lives EXCEPT ![t] = Max({0, lives[t] - n})]
      BY <2>3 DEF LoseLives
    <3>2. lives'[t] = Max({0, lives[t] - n})
      BY <2>1, <3>1
    <3>3. 0 \in Int /\ lives[t] - n \in Int
      BY <2>1
    <3>4. Max({0, lives[t] - n}) \in {0, lives[t] - n} /\ Max({0, lives[t] - n}) >= 0
      BY <3>3, MaxOfTwo, Zenon
    <3>5. lives'[t] = 0 \/ lives'[t] > 0
      BY <3>2, <3>3, <3>4
    <3>. QED BY <2>3, <3>5 DEF LoseLives
  <2>. QED BY <2>2, <2>3
<1>5. Undecided' => lives'[t] # 0
  <2>1. Other(t) \in Teams
    BY OtherType
  <2>2. todo' = GameOver(Other(t)) => 1 \in DOMAIN todo' /\ todo'[1].do = "over"
    BY <2>1, OverType
  <2>. QED BY <1>4, <2>2 DEF Undecided
<1>6. \A u \in Teams \ {t} : lives'[u] > 0
  BY <1>1, <1>3 DEF Alive
<1>7. Multi' \/ \A l \in Lanes' : waves'[l] > 0
  BY <1>1, <1>2, <1>3 DEF Alive
<1>8. Undecided' => Alive(Teams)'
  BY <1>4, <1>5, <1>6, <1>7 DEF Alive
<1>9. \A u \in Teams : lives'[u] = 0 => u = t /\ Other(u) \in Teams \ {t}
  BY <1>6, OtherType
<1>10. \A u \in Teams : lives'[u] = 0 => Alive({Other(u)})'
  BY <1>6, <1>7, <1>9 DEF Alive
<1>. QED BY <1>8, <1>10 DEF OneDecision

LEMMA PatchDecides ==
    ASSUME PushInv, OneDecision, MaxPatches \in {0, 1}, Patch
    PROVE  OneDecision'
<1>. PICK t \in Teams, n \in 0 .. Lives : SetLifeCounters(t, n)
  BY DEF Patch
<1>1. /\ patches < MaxPatches /\ Asks /\ lives' = [lives EXCEPT ![t] = n] /\ patches' = patches + 1
      /\ UNCHANGED <<board, zone, waves, at, astray>>
  BY DEF SetLifeCounters
<1>2. patches = 0 /\ patches' = 1 /\ n \in Nat
  BY <1>1, LanesAssumption DEF PushInv, TypeOK
<1>3. /\ lives'[t] = n /\ \A u \in Teams \ {t} : lives'[u] = lives[u]
      /\ Lanes' = Lanes /\ (Multi' <=> Multi) /\ \A u \in Teams : lives[u] \in Nat
  BY <1>1 DEF PushInv, TypeOK, Lanes, Multi
<1>4. ASSUME Undecided' PROVE Alive(Teams)'
  <2>1. CASE n = 0 /\ over = Nobody /\ todo' = GameOver(Other(t)) \o todo
    <3>. PICK s : s = GameOver(Other(t))
      OBVIOUS
    <3>1. s \in Seq(Steps) /\ 1 \in DOMAIN s /\ s[1].do = "over"
      BY OtherType, OverType
    <3>2. todo \in Seq(Steps)
      BY DEF PushInv, TypeOK
    <3>3. 1 \in DOMAIN (s \o todo) /\ (s \o todo)[1] = s[1]
      BY <3>1, <3>2, Onto
    <3>. QED BY <1>4, <2>1, <3>1, <3>3 DEF Undecided
  <2>2. CASE over # Nobody /\ lives[t] = 0 /\ n > 0
    <3>1. Alive({Other(t)})
      BY <1>2, <2>2 DEF OneDecision
    <3>2. \A u \in Teams : u = t \/ u = Other(t)
      BY DEF Teams, Other
    <3>. QED BY <1>1, <1>3, <2>2, <3>1, <3>2 DEF Alive
  <2>3. CASE (IF over = Nobody THEN n > 0 ELSE n = 0 \/ lives[t] > 0) /\ UNCHANGED <<todo, over>>
    <3>1. Undecided
      BY <1>4, <2>3 DEF Undecided
    <3>2. Alive(Teams) /\ n > 0
      BY <2>3, <3>1 DEF OneDecision, Undecided
    <3>. QED BY <1>1, <1>3, <3>2 DEF Alive
  <2>. QED BY <2>1, <2>2, <2>3 DEF SetLifeCounters
<1>. QED BY <1>2, <1>4 DEF OneDecision

LEMMA PushDecides ==
    ASSUME PushInv, OneDecision, PushWins \/ PushMoves
    PROVE  OneDecision'
<1>. PICK step : step = Head(todo)
  OBVIOUS
<1>1. /\ todo # <<>> /\ step.do = "push" /\ over = Nobody /\ UNCHANGED <<board, lives, over, patches>>
  BY DEF PushWins, PushMoves, Ready
<1>2. Alive(Teams)
  BY <1>1, RunningIsUndecided DEF OneDecision
<1>3. /\ Lanes' = Lanes /\ (Multi' <=> Multi) /\ step.lane \in Lanes /\ step.decides = ~Multi
      /\ board \in Boards /\ step \in Steps /\ Rest \in Seq(Steps) /\ Lanes \subseteq DOMAIN waves
  BY <1>1, RestFits, Quiet DEF PushInv, TypeOK, Lanes, Multi, PushFits
<1>4. \A t \in Teams : lives'[t] > 0
  BY <1>1, <1>2 DEF Alive
<1>5. CASE PushWins
  <2>. PICK s : s = GameOver(Other(step.loser))
    OBVIOUS
  <2>1. todo' = s \o Rest
    BY <1>5 DEF PushWins
  <2>2. s \in Seq(Steps) /\ 1 \in DOMAIN s /\ s[1].do = "over"
    <3>1. step.loser \in Teams
      BY <1>1, <1>3, StepTypes
    <3>. QED BY <3>1, OtherType, OverType
  <2>3. 1 \in DOMAIN todo' /\ todo'[1] = s[1]
    BY <1>3, <2>1, <2>2, Onto
  <2>4. ~Undecided'
    BY <2>2, <2>3 DEF Undecided
  <2>5. \A t \in Teams : lives'[t] # 0
    BY <1>4
  <2>. QED BY <2>4, <2>5 DEF OneDecision
<1>6. CASE PushMoves
  <2>1. /\ waves' = IF step.decides THEN [waves EXCEPT ![step.lane] = @ - 1] ELSE waves
        /\ step.decides => waves'[step.lane] > 0
    BY <1>6 DEF PushMoves
  <2>2. Multi' \/ \A l \in Lanes' : waves'[l] > 0
    <3>1. ~Multi => \A l \in Lanes : l = step.lane
      BY <1>3, LaneFacts
    <3>. QED BY <1>3, <2>1, <3>1
  <2>3. Alive(Teams)'
    BY <1>4, <2>2 DEF Alive
  <2>4. \A t \in Teams : lives'[t] # 0
    BY <1>4
  <2>. QED BY <2>3, <2>4 DEF OneDecision
<1>. QED BY <1>5, <1>6

\* The other steps decide nothing, or put the end of the match on the stack.
LEMMA OthersDecide ==
    ASSUME PushInv, OneDecision,
           \/ Sources \/ ReturnMinion \/ MinionBattle \/ ChooseMinionRemoval \/ CheckNothing
           \/ CheckSingle \/ CheckWon \/ CheckTied \/ CheckPushes \/ ResolveDisplacement
           \/ TriggerGameOver \/ \E m \in Minions : DefeatMinion(m) \/ RespawnMinion(m)
           \/ \E m \in Minions, z \in Places : MoveMinion(m, z)
    PROVE  OneDecision'
<1>1. lives' = lives /\ patches' = patches /\ board' = board /\ (Multi \/ waves' = waves)
  BY DEF Sources, EndTurn, EndRound, RepeatAction, ReturnMinion, MinionBattle, ChooseMinionRemoval,
     CheckNothing, CheckSingle, CheckWon, CheckTied, CheckPushes, ResolveDisplacement, TriggerGameOver,
     DefeatMinion, RespawnMinion, MoveMinion, Checking
<1>2. Undecided' => Undecided
  <2>1. CASE TriggerGameOver
    <3>1. over' = Head(todo).winner /\ todo # <<>> /\ Head(todo).do = "over"
      BY <2>1 DEF TriggerGameOver, Ready
    <3>2. Head(todo) \in Steps
      BY <3>1, Quiet
    <3>3. Head(todo).winner \in Teams
      BY <3>1, <3>2, StepTypes
    <3>. QED BY <3>1, <3>3 DEF Undecided, Teams, Nobody
  <2>2. CASE ~TriggerGameOver
    <3>1. over = Nobody /\ (todo # <<>> => Head(todo).do # "over")
      BY <2>2 DEF Sources, EndTurn, EndRound, RepeatAction, ReturnMinion, MinionBattle, ChooseMinionRemoval,
         CheckNothing, CheckSingle, CheckWon, CheckTied, CheckPushes, ResolveDisplacement,
         DefeatMinion, RespawnMinion, MoveMinion, Checking, Ready, Idle
    <3>. QED BY <3>1, RunningIsUndecided
  <2>. QED BY <2>1, <2>2
<1>. QED BY <1>1, <1>2, SameLives

LEMMA DecisionNext ==
    ASSUME PushInv, OneDecision, MaxPatches \in {0, 1}, [Next]_vars
    PROVE  OneDecision'
<1>1. CASE Effects
  BY <1>1, LivesDecide, OthersDecide DEF Effects
<1>2. CASE Sources
  BY <1>2, OthersDecide
<1>3. CASE Patch
  BY <1>3, PatchDecides
<1>4. CASE Engine
  BY <1>4, OthersDecide, PushDecides DEF Engine
<1>5. CASE UNCHANGED vars
  <2>1. lives' = lives /\ patches' = patches /\ board' = board /\ waves' = waves /\ over' = over /\ todo' = todo
    BY <1>5 DEF vars
  <2>2. Undecided' => Undecided
    BY <2>1 DEF Undecided
  <2>. QED BY <2>1, <2>2, SameLives
<1>. QED BY <1>1, <1>2, <1>3, <1>4, <1>5 DEF Next

\* A match with nothing left to decide is over, or about to be, if the host
\* patches the life counters at most once (two patches can undo the one
\* decision and hide the other: SetLifeCountersOverride looks at one team).
THEOREM VerdictIsDue == MaxPatches \in {0, 1} => (Spec => []VerdictDue)
<1> SUFFICES ASSUME MaxPatches \in {0, 1} PROVE Spec => []VerdictDue
  OBVIOUS
<1>1. Init => LanesInv
  BY PushInit, AliveInit DEF LanesInv
<1>2. LanesInv /\ [Next]_vars => LanesInv'
  BY PushNext, DecisionNext DEF LanesInv
<1>3. LanesInv => VerdictDue
  BY DEF LanesInv, PushInv, NoThrone, OneDecision, Undecided, Alive, VerdictDue
<1>. QED BY <1>1, <1>2, <1>3, PTL DEF Spec

-----------------------------------------------------------------------------
(* A push brings back every minion it can. *)

\* Rooms add up.
LEMMA RoomSplit ==
    ASSUME NEW P, IsFiniteSet(P), NEW B \in SUBSET P, NEW k
    PROVE  /\ Room(P, k) = Room(P \ B, k) + Room(B, k)
           /\ Room(P \ B, k) \in Nat /\ Room(B, k) \in Nat
<1>. DEFINE S == {p \in P \ B : PointKind(p) = k}
            T == {p \in B : PointKind(p) = k}
<1>1. IsFiniteSet(P \ B) /\ IsFiniteSet(B)
  BY FS_Subset
<1>2. IsFiniteSet(S) /\ IsFiniteSet(T)
  BY <1>1, FS_Subset
<1>3. S \cap T = {} /\ {p \in P : PointKind(p) = k} = S \cup T
  OBVIOUS
<1>. HIDE DEF S, T
<1>4. Cardinality(S \cup T) = Cardinality(S) + Cardinality(T) - Cardinality(S \cap T)
  BY <1>2, FS_Union
<1>5. Cardinality(S) \in Nat /\ Cardinality(T) \in Nat /\ Cardinality({}) = 0
  BY <1>2, FS_CardinalityType, FS_EmptySet
<1>6. Room(P \ B, k) = Cardinality(S) /\ Room(B, k) = Cardinality(T)
  BY Zenon DEF Room, S, T
<1>7. Room(P, k) = Cardinality(S \cup T)
  BY <1>3, Zenon DEF Room
<1>8. Cardinality(S \cap T) = 0
  BY <1>3, <1>5, Zenon
<1>. QED BY ONLY <1>4, <1>5, <1>6, <1>7, <1>8

\* As many stand in a zone or wait for a space as it has spawn points of a kind.
Full(place, l, i, W, k) ==
    Room(Points[l][i], k) <= Cardinality({g \in Bound(l, k) : place[g] = <<l, i>> \/ g \in W})

\* Who is left in the box had no spawn point to come back to.
LEMMA SpawnFills ==
    ASSUME NEW place, NEW l \in Lane, NEW i \in 1 .. Length, NEW B \in SUBSET Points[l][i],
           NEW s, s = Spawn(place, l, <<l, i>>, B), NEW W, s.queued \subseteq W,
           NEW m \in Minions, LaneOf[m] = l, s.place[m] = Limbo, m \notin W
    PROVE  Full(s.place, l, i, W, Kind(m))
<1>. DEFINE P      == Points[l][i]
            now    == Drafted(place, l, P \ B)
            after  == [g \in Minions |-> IF g \in now THEN <<l, i>> ELSE place[g]]
            queued == Drafted(after, l, B)
<1>1. IsFiniteSet(P) /\ IsFiniteSet(B) /\ IsFiniteSet(P \ B) /\ <<l, i>> # Limbo
  <2>1. i # 0
    BY LanesAssumption
  <2>2. <<l, i>> # Limbo
    BY ONLY <2>1 DEF Limbo
  <2>. QED BY <2>2, PointsFinite
<1>2. s = [place |-> after, queued |-> queued]
  BY DEF Spawn
<1>. PICK k : k = Kind(m)
  OBVIOUS
<1>3. k \in MinionKinds
  BY KindType
<1>4. /\ \A g \in now : g \in Minions /\ LaneOf[g] = l
      /\ OfKind(now, k) = Box(place, l, k) \/ Cardinality(OfKind(now, k)) = Room(P \ B, k)
  <2>. HIDE DEF P
  <2>. QED BY <1>1, <1>3, Drafts
<1>5. /\ \A g \in queued : g \in Minions /\ LaneOf[g] = l /\ after[g] = Limbo
      /\ OfKind(queued, k) = Box(after, l, k) \/ Cardinality(OfKind(queued, k)) = Room(B, k)
  <2>. HIDE DEF after
  <2>. QED BY <1>1, <1>3, Drafts
<1>6. s.place = after /\ s.queued = queued
  <2>. HIDE DEF after, queued
  <2>. QED BY <1>2
<1>. HIDE DEF P, now, queued
<1>7. \A g \in now : g \in Minions => after[g] = <<l, i>>
  OBVIOUS
<1>8. m \notin now /\ place[m] = Limbo /\ after[m] = Limbo /\ m \notin queued
  BY <1>1, <1>6, <1>7
<1>9. m \in Box(place, l, k) /\ m \in Box(after, l, k)
  BY <1>8 DEF Box, Bound
<1>10. Cardinality(OfKind(now, k)) = Room(P \ B, k) /\ Cardinality(OfKind(queued, k)) = Room(B, k)
  BY <1>4, <1>5, <1>8, <1>9 DEF OfKind
<1>11. OfKind(now, k) \cap OfKind(queued, k) = {}
  BY <1>1, <1>4, <1>5, <1>7 DEF OfKind
<1>12. IsFiniteSet(OfKind(now, k)) /\ IsFiniteSet(OfKind(queued, k))
  <2>1. OfKind(now, k) \subseteq Minions /\ OfKind(queued, k) \subseteq Minions
    BY <1>4, <1>5 DEF OfKind
  <2>. QED BY <2>1, LanesAssumption, FS_Subset
<1>13. Cardinality(OfKind(now, k) \cup OfKind(queued, k)) = Room(P, k)
  <2>1. B \in SUBSET P
    BY DEF P
  <2>2. Room(P, k) = Room(P \ B, k) + Room(B, k) /\ Room(P \ B, k) \in Nat /\ Room(B, k) \in Nat
    BY <1>1, <2>1, RoomSplit
  <2>3. Cardinality({}) = 0
    BY FS_EmptySet
  <2>4. Cardinality(OfKind(now, k) \cup OfKind(queued, k))
          = Cardinality(OfKind(now, k)) + Cardinality(OfKind(queued, k))
              - Cardinality(OfKind(now, k) \cap OfKind(queued, k))
    BY <1>12, FS_Union
  <2>5. Cardinality(OfKind(now, k) \cap OfKind(queued, k)) = 0
    BY <1>11, <2>3, Zenon
  <2>. QED BY ONLY <1>10, <2>2, <2>4, <2>5
<1>. DEFINE T == {g \in Bound(l, k) : s.place[g] = <<l, i>> \/ g \in W}
<1>14. OfKind(now, k) \cup OfKind(queued, k) \subseteq T
  <2>. HIDE DEF after
  <2>. QED BY <1>4, <1>5, <1>6, <1>7 DEF OfKind, Bound
<1>15. IsFiniteSet(T)
  BY LanesAssumption, FS_Subset DEF Bound
<1>. HIDE DEF T
<1>16. Cardinality(OfKind(now, k) \cup OfKind(queued, k)) <= Cardinality(T)
  BY <1>14, <1>15, FS_Subset
<1>. QED BY <1>13, <1>16 DEF P, T, Full

\* Whoever is displaced waits on the stack.
LEMMA DisplacedWait ==
    ASSUME NEW M \in SUBSET Minions, NEW r \in Seq(Steps), todo = Displace(M) \o r
    PROVE  M \subseteq Waiting
<1>. SUFFICES ASSUME M # {} PROVE M \subseteq Waiting
  OBVIOUS
<1>. DEFINE d == Displace(M)
<1>1. d \in Seq(Steps) /\ 1 \in DOMAIN d /\ d[1].do = "displace" /\ d[1].who = M
  BY DisplaceType
<1>. HIDE DEF d
<1>2. 1 \in DOMAIN (d \o r) /\ (d \o r)[1] = d[1]
  BY <1>1, Onto
<1>. QED BY <1>1, <1>2 DEF Waiting, d

LEMMA DisplacedWaitAlways ==
    [](\A M \in SUBSET Minions, r \in Seq(Steps) : todo = Displace(M) \o r => M \subseteq Waiting)
<1>1. \A M \in SUBSET Minions, r \in Seq(Steps) : todo = Displace(M) \o r => M \subseteq Waiting
  BY DisplacedWait
<1>. QED BY <1>1, PTL

LEMMA DisplacedWaitNext ==
    \A M \in SUBSET Minions, r \in Seq(Steps) : todo' = Displace(M) \o r => M \subseteq Waiting'
<1>1. (\A M \in SUBSET Minions, r \in Seq(Steps) : todo = Displace(M) \o r => M \subseteq Waiting)'
  BY DisplacedWaitAlways, PTL
<1>. QED BY <1>1

\* The lane that moves is filled.
Filled(l) ==
    \A m \in Minions : LaneOf[m] = l /\ at'[m] = Limbo /\ m \notin Waiting' =>
        Full(at', l, zone'[l], Waiting', Kind(m))

LEMMA MovesFill ==
    ASSUME PushInv, PushMoves, NEW l \in Lanes, zone'[l] # zone[l]
    PROVE  Filled(l)
<1>a. PICK step, r : step = Head(todo) /\ r = Rest
  OBVIOUS
<1>b. PICK k, new : k = step.lane /\ new = IF step.decides THEN Target(k, step.loser) ELSE step.target
  OBVIOUS
<1>1. /\ todo # <<>> /\ step.do = "push" /\ over = Nobody
      /\ step.decides => ~Throne(new)
      /\ zone' = [zone EXCEPT ![k] = new]
      /\ \E blocked \in Blocks(Points[k][new]) :
           LET s == Spawn(Wipe(at, Here(k)), k, <<k, new>>, blocked)
           IN  at' = s.place /\ todo' = Displace(s.queued) \o r
  BY <1>a, <1>b DEF PushMoves, Ready
<1>2. Board /\ step \in Steps /\ r \in Seq(Steps) /\ PushFits(step) /\ at \in Standing
  BY <1>a, <1>1, Quiet, RestFits DEF PushInv, Board, TypeOK, Standing
<1>3. k = l
  <2>1. zone \in [Lane -> Int] /\ l \in Lane
    BY <1>2, LaneFacts DEF Board
  <2>. QED BY <1>1, <2>1
<1>4. new \in 1 .. Length /\ zone'[l] = new /\ l \in Lane
  <2>1. l \in Lane /\ zone \in [Lane -> Int] /\ Length \in Nat
    BY <1>2, LaneFacts, LanesAssumption DEF Board
  <2>2. step \in [do : {"push"}, lane : Lane, loser : Teams, decides : BOOLEAN, target : Int]
    BY <1>1, <1>2, StepTypes
  <2>3. Target(l, step.loser) \in Int
    BY <1>2, HereType
  <2>4. new \in Int /\ ~Throne(new)
    BY <1>b, <1>1, <1>2, <1>3, <2>2, <2>3 DEF PushFits
  <2>. QED BY <1>1, <1>3, <2>1, <2>4 DEF Throne
<1>5. PICK blocked \in SUBSET Points[l][new] :
        LET s == Spawn(Wipe(at, Here(l)), l, <<l, new>>, blocked)
        IN  at' = s.place /\ todo' = Displace(s.queued) \o r
  BY <1>1, <1>3 DEF Blocks
<1>c. PICK wiped, s : wiped = Wipe(at, Here(l)) /\ s = Spawn(wiped, l, <<l, new>>, blocked)
  OBVIOUS
<1>6. at' = s.place /\ todo' = Displace(s.queued) \o r
  BY <1>5, <1>c
<1>7. s.queued \in SUBSET Minions
  BY <1>2, <1>4, <1>c, SpawnType
<1>8. s.queued \subseteq Waiting'
  BY <1>2, <1>6, <1>7, DisplacedWaitNext
<1>d. PICK W : W = Waiting'
  OBVIOUS
<1>9. ASSUME NEW m \in Minions, LaneOf[m] = l, s.place[m] = Limbo, m \notin W
      PROVE  Full(s.place, l, new, W, Kind(m))
  <2>1. /\ blocked \in SUBSET Points[l][new] /\ s = Spawn(wiped, l, <<l, new>>, blocked)
        /\ s.queued \subseteq W /\ new \in 1 .. Length /\ l \in Lane
    BY <1>4, <1>8, <1>c, <1>d
  <2>. QED BY <1>9, <2>1, SpawnFills, Zenon
<1>. QED BY <1>4, <1>6, <1>9, <1>d DEF Filled

LEMMA StepsFill ==
    ASSUME PushInv, [Next]_vars, NEW l \in Lanes, zone'[l] # zone[l]
    PROVE  Filled(l)
<1>1. PushMoves
  <2>1. CASE UNCHANGED vars
    BY <2>1 DEF vars
  <2>2. CASE Effects
    BY <2>2 DEF Effects, DefeatMinion, RespawnMinion, MoveMinion, RestoreLife, LoseLives
  <2>3. CASE Sources
    BY <2>3 DEF Sources, EndTurn, EndRound, RepeatAction
  <2>4. CASE Patch
    BY <2>4 DEF Patch, SetLifeCounters
  <2>5. CASE Engine
    BY <2>5 DEF Engine, ReturnMinion, MinionBattle, ChooseMinionRemoval, CheckNothing, CheckSingle,
       CheckWon, CheckTied, CheckPushes, PushWins, ResolveDisplacement, TriggerGameOver
  <2>. QED BY <2>1, <2>2, <2>3, <2>4, <2>5 DEF Next
<1>. QED BY <1>1, MovesFill

\* A push brings back every minion of its lane that a spawn point waits for, the
\* blocked points served after the free ones (_respawn_minions_at_spawn_points).
THEOREM PushFills == Spec => PushFillsTheZone
<1>1. PushInv /\ [Next]_vars
        => [\A l \in Lanes : zone'[l] # zone[l] =>
              \A m \in Minions : LaneOf[m] = l /\ at'[m] = Limbo /\ m \notin Waiting' =>
                Cardinality({p \in Points[l][zone'[l]] : PointKind(p) = Kind(m)})
                  <= Cardinality({g \in Bound(l, Kind(m)) :
                                    at'[g] = <<l, zone'[l]>> \/ g \in Waiting'})]_vars
  BY StepsFill DEF Filled, Full, Room
<1>. QED BY PushInit, PushNext, <1>1, PTL DEF Spec, PushFillsTheZone

-----------------------------------------------------------------------------
(* No lane is left to one team. *)

\* On every map of the repository each zone between the thrones has, for each
\* team, a spawn point of a kind that the lane's minions of that team have.
Fillable ==
    \A l \in Lane, i \in 2 .. Length - 1, t \in Teams :
        \E m \in Minions : /\ TeamOf[m] = t /\ LaneOf[m] = l
                           /\ \E p \in Points[l][i] : PointKind(p) = Kind(m)

\* Both teams have a minion of the lane in a zone, or one that waits for a space.
Present(l, z, spot, W) ==
    \A t \in Teams : \E m \in Minions :
        TeamOf[m] = t /\ LaneOf[m] = l /\ (spot[m] = z \/ m \in W)

ToPush(l) == \E i \in DOMAIN todo : todo[i].do = "push" /\ todo[i].lane = l
Calm(l)   == Loser(Here(l)) = Nobody /\ \A m \in Waiting : LaneOf[m] # l

\* While the pushes of a check run, all minions are in the zones of their lanes,
\* and a lane that one team holds alone is still to be pushed.
Settled ==
    /\ Outside = {} /\ \A m \in Waiting : LaneOf[m] \in Lanes
    /\ \A l \in Lanes : ToPush(l) \/ Calm(l) \/ Present(l, Here(l), at, Waiting)

Pushing(s) ==
    /\ \E i \in DOMAIN s : s[i].do \in {"push", "displace"}
    /\ \A i \in DOMAIN s : s[i].do # "over"

\* What is done before a check has one below it.
Checked(s) == s # <<>> => s[Len(s)].do \notin {"return", "battle", "remove"}

HeldInv == Checked(todo) /\ (Pushing(todo) /\ astray = {} => Settled)

LEMMA CheckedOnto ==
    ASSUME NEW S, NEW s \in Seq(S), NEW r \in Seq(S), Checked(r), r = <<>> => Checked(s)
    PROVE  Checked(s \o r)
<1>1. CASE r = <<>>
  <2>1. s \o r = s
    BY <1>1
  <2>. QED BY <1>1, <2>1
<1>2. CASE r # <<>>
  <2>1. Len(s \o r) = Len(s) + Len(r) /\ (s \o r)[Len(s \o r)] = r[Len(r)]
    BY <1>2
  <2>. QED BY <1>2, <2>1 DEF Checked
<1>. QED BY <1>1, <1>2

LEMMA CheckedRest ==
    ASSUME NEW S, NEW s \in Seq(S), s # <<>>, Checked(s)
    PROVE  /\ Checked(Tail(s))
           /\ Head(s).do \in {"return", "battle", "remove"} => Tail(s) # <<>>
<1>1. /\ Tail(s) \in Seq(S) /\ Head(s) = s[1] /\ Len(Tail(s)) = Len(s) - 1 /\ Len(s) \in Nat
      /\ Len(s) # 0 /\ \A i \in 1 .. Len(Tail(s)) : Tail(s)[i] = s[i + 1]
  OBVIOUS
<1>. PICK r : r = Tail(s)
  OBVIOUS
<1>2. r # <<>> => r[Len(r)] = s[Len(s)]
  <2>1. r # <<>> => Len(r) \in 1 .. Len(r)
    BY <1>1
  <2>. QED BY <1>1, <2>1
<1>3. r = <<>> => Head(s) = s[Len(s)]
  <2>1. r = <<>> => Len(r) = 0
    OBVIOUS
  <2>. QED BY <1>1, <2>1
<1>. QED BY <1>2, <1>3 DEF Checked

LEMMA CheckedPair ==
    ASSUME NEW x \in Steps, x.do = "check", NEW y \in Steps
    PROVE  Checked(<<x>>) /\ Checked(<<y, x>>)
<1>1. Len(<<x>>) = 1 /\ <<x>>[1] = x /\ Len(<<y, x>>) = 2 /\ <<y, x>>[2] = x
  OBVIOUS
<1>. QED BY <1>1 DEF Checked

LEMMA CheckedOver == ASSUME NEW t \in Teams PROVE Checked(GameOver(t))
<1>1. DOMAIN GameOver(t) = {1} /\ GameOver(t)[1].do = "over" /\ GameOver(t) \in Seq(Steps)
  BY OverType
<1>2. Len(GameOver(t)) \in DOMAIN GameOver(t) \/ GameOver(t) = <<>>
  BY <1>1
<1>. QED BY <1>1, <1>2 DEF Checked

LEMMA CheckedAll ==
    ASSUME NEW S, NEW s \in Seq(S), \A i \in DOMAIN s : s[i].do \notin {"return", "battle", "remove"}
    PROVE  Checked(s)
<1>1. s = <<>> \/ Len(s) \in DOMAIN s
  OBVIOUS
<1>. QED BY <1>1 DEF Checked

\* What ends a turn or a round, and patches, keep the check at the bottom.
LEMMA OthersCheck ==
    ASSUME PushInv, PushInv', Checked(todo), Effects \/ Sources \/ Patch
    PROVE  Checked(todo')
<1>0. todo \in Seq(Steps) /\ lives \in [Teams -> Nat]
  BY DEF PushInv, TypeOK
<1>n. Checked(<<>>)
  BY DEF Checked
<1>1. CASE Effects
  <2>1. ASSUME NEW t \in Teams, NEW n \in 1 .. MaxPenalty, LoseLives(t, n) PROVE Checked(todo')
    <3>1. todo' = GameOver(Other(t)) \/ todo' = <<>>
      BY <2>1 DEF LoseLives
    <3>. QED BY <1>n, <3>1, OtherType, CheckedOver
  <2>2. ASSUME NEW m \in Minions, DefeatMinion(m) \/ RespawnMinion(m) PROVE Checked(todo')
    BY <2>2 DEF DefeatMinion, RespawnMinion
  <2>3. ASSUME NEW m \in Minions, NEW z \in Places, MoveMinion(m, z) PROVE Checked(todo')
    BY <2>3 DEF MoveMinion
  <2>4. ASSUME NEW t \in Teams, RestoreLife(t) PROVE Checked(todo')
    BY <2>4 DEF RestoreLife
  <2>. QED BY <1>1, <2>1, <2>2, <2>3, <2>4 DEF Effects
<1>2. CASE Sources
  <2>1. /\ Step("check") \in Steps /\ Step("battle") \in Steps /\ Step("check").do = "check"
        /\ [do |-> "return", done |-> {}] \in Steps
    BY DEF Step, Steps
  <2>. QED BY <1>2, <2>1, CheckedPair DEF Sources, EndTurn, EndRound, RepeatAction
<1>3. CASE Patch
  <2>. PICK t \in Teams, n \in 0 .. Lives : SetLifeCounters(t, n)
    BY <1>3 DEF Patch
  <2>1. /\ GameOver(Other(t)) \in Seq(Steps) /\ Checked(GameOver(Other(t)))
    BY OtherType, OverType, CheckedOver
  <2>2. Checked(GameOver(Other(t)) \o todo)
    BY <1>0, <2>1, CheckedOnto
  <2>3. Checked(<<[do |-> "return", done |-> {}], Step("check")>>)
    <3>1. /\ Step("check") \in Steps /\ Step("check").do = "check"
          /\ [do |-> "return", done |-> {}] \in Steps
      BY DEF Step, Steps
    <3>. QED BY <3>1, CheckedPair
  <2>4. \/ todo' = GameOver(Other(t)) \o todo
        \/ todo' \in {<<>>, <<[do |-> "return", done |-> {}], Step("check")>>}
        \/ todo' = todo
    BY DEF SetLifeCounters
  <2>. QED BY <1>n, <2>2, <2>3, <2>4
<1>. QED BY <1>1, <1>2, <1>3

\* Elements of a stack, taken apart.
LEMMA TopOrRest ==
    ASSUME NEW S, NEW s \in Seq(S), s # <<>>, NEW i \in DOMAIN s
    PROVE  s[i] = Head(s) \/ (i - 1 \in DOMAIN Tail(s) /\ s[i] = Tail(s)[i - 1])
  OBVIOUS

\* The steps of the engine keep the check at the bottom.
LEMMA EngineChecks ==
    ASSUME PushInv, PushInv', Checked(todo), Engine
    PROVE  Checked(todo')
<1>0. todo \in Seq(Steps) /\ todo' \in Seq(Steps) /\ todo # <<>>
  <2>1. todo # <<>>
    BY DEF Engine, ReturnMinion, MinionBattle, ChooseMinionRemoval, CheckNothing, CheckSingle, CheckWon,
       CheckTied, CheckPushes, Checking, PushWins, PushMoves, ResolveDisplacement, TriggerGameOver, Ready
  <2>. QED BY <2>1 DEF PushInv, TypeOK
<1>1. /\ Rest \in Seq(Steps) /\ Checked(Rest) /\ Head(todo) \in Steps
      /\ Head(todo).do \in {"return", "battle", "remove"} => Rest # <<>>
      /\ Head(todo).do = "check" => Rest = <<>>
      /\ \A i \in DOMAIN Rest : Head(todo).do \in Above(Rest[i].do)
  BY <1>0, CheckedRest, Quiet DEF Rest
<1>2. ASSUME NEW T, NEW s \in Seq(T), Steps \subseteq T, todo' = s \o Rest,
             Rest = <<>> => \A i \in DOMAIN s : s[i].do \notin {"return", "battle", "remove"}
      PROVE  Checked(todo')
  <2>1. Rest \in Seq(T)
    BY <1>1, <1>2
  <2>2. Rest = <<>> => Checked(s)
    BY <1>2, CheckedAll
  <2>. QED BY <1>1, <1>2, <2>1, <2>2, CheckedOnto
<1>3. CASE ReturnMinion
  <2>1. PICK m : \/ todo' = Rest
                 \/ /\ m \in Minions
                    /\ todo' = <<[Head(todo) EXCEPT !.done = @ \cup {m}]>> \o Rest
    BY <1>3 DEF ReturnMinion, Outside
  <2>2. Head(todo).do = "return" /\ Rest # <<>>
    BY <1>1, <1>3 DEF ReturnMinion, Ready
  <2>3. CASE todo' = Rest
    BY <1>1, <2>3
  <2>4. CASE m \in Minions /\ todo' = <<[Head(todo) EXCEPT !.done = @ \cup {m}]>> \o Rest
    <3>1. Head(todo) \in [do : {"return"}, done : SUBSET Minions]
      BY <1>1, <2>2, StepTypes
    <3>. PICK x : x = [Head(todo) EXCEPT !.done = @ \cup {m}]
      OBVIOUS
    <3>2. x \in [do : {"return"}, done : SUBSET Minions]
      BY <2>4, <3>1
    <3>3. x \in Steps
      BY <3>2 DEF Steps
    <3>4. <<x>> \in Seq(Steps)
      BY <3>3
    <3>. QED BY <1>2, <2>2, <2>4, <3>4
  <2>. QED BY <2>1, <2>3, <2>4
<1>4. CASE ChooseMinionRemoval
  <2>1. Head(todo).do = "remove" /\ Rest # <<>>
    BY <1>1, <1>4 DEF ChooseMinionRemoval, Ready
  <2>2. Head(todo) \in [do : {"remove"}, team : Teams, left : Nat, from : Anywhere]
    BY <1>1, <2>1, StepTypes
  <2>3. \/ todo' = Rest
        \/ Head(todo).left > 0 /\ todo' = <<[Head(todo) EXCEPT !.left = @ - 1]>> \o Rest
    BY <1>4 DEF ChooseMinionRemoval
  <2>4. CASE todo' = Rest
    BY <1>1, <2>4
  <2>5. CASE Head(todo).left > 0 /\ todo' = <<[Head(todo) EXCEPT !.left = @ - 1]>> \o Rest
    <3>. PICK x : x = [Head(todo) EXCEPT !.left = @ - 1]
      OBVIOUS
    <3>1. x \in [do : {"remove"}, team : Teams, left : Nat, from : Anywhere]
      BY <2>2, <2>5
    <3>2. x \in Steps
      BY <3>1 DEF Steps
    <3>3. <<x>> \in Seq(Steps)
      BY <3>2
    <3>. QED BY <1>2, <2>1, <2>5, <3>3
  <2>. QED BY <2>3, <2>4, <2>5
<1>5. CASE MinionBattle
  <2>1. Rest # <<>>
    BY <1>1, <1>5 DEF MinionBattle, Ready
  <2>2. \E edge \in [Lanes -> Edges] : \E s \in InOrder({l \in Lanes : Lead(l, edge[l]) # 0}) :
           todo' = [i \in DOMAIN s |-> Losses(s[i], edge[s[i]])] \o Rest
    BY <1>5 DEF MinionBattle
  <2>. PICK edge \in [Lanes -> Edges] : \E s \in InOrder({l \in Lanes : Lead(l, edge[l]) # 0}) :
           todo' = [i \in DOMAIN s |-> Losses(s[i], edge[s[i]])] \o Rest
    BY <2>2
  <2>. PICK s \in InOrder({l \in Lanes : Lead(l, edge[l]) # 0}) :
           todo' = [i \in DOMAIN s |-> Losses(s[i], edge[s[i]])] \o Rest
    OBVIOUS
  <2>3. Len(s) \in Nat /\ DOMAIN s = 1 .. Len(s)
    <3>1. board \in Boards /\ {l \in Lanes : Lead(l, edge[l]) # 0} \in SUBSET Lanes
      BY DEF PushInv, TypeOK
    <3>. QED BY <3>1, Listed
  <2>. PICK T, t : t = [i \in DOMAIN s |-> Losses(s[i], edge[s[i]])]
                   /\ T = {Losses(s[i], edge[s[i]]) : i \in DOMAIN s} \cup Steps
    OBVIOUS
  <2>4. t \in Seq(T)
    <3>1. t \in [1 .. Len(s) -> T]
      BY <2>3
    <3>. QED BY <2>3, <3>1
  <2>. QED BY <1>2, <2>1, <2>4
<1>6. CASE CheckNothing
  BY <1>1, <1>6 DEF CheckNothing
<1>7. ASSUME NEW s \in DueOrder, NEW t, DOMAIN t = DOMAIN s, t = [i \in DOMAIN t |-> t[i]], todo' = t \o Rest,
             \A i \in DOMAIN t : t[i].do = "push"
      PROVE  Checked(todo')
  <2>1. Len(s) \in Nat /\ DOMAIN s = 1 .. Len(s)
    <3>1. board \in Boards /\ Due \in SUBSET Lanes
      BY DEF PushInv, TypeOK, Due
    <3>. QED BY <3>1, Listed DEF DueOrder
  <2>. PICK T : T = {t[i] : i \in DOMAIN s} \cup Steps
    OBVIOUS
  <2>2. t \in Seq(T) /\ Steps \subseteq T
    <3>1. t \in [1 .. Len(s) -> T]
      BY <1>7, <2>1
    <3>. QED BY <2>1, <3>1
  <2>. QED BY <1>2, <1>7, <2>2
<1>8. CASE CheckSingle
  <2>1. PICK s \in DueOrder : todo' = [i \in DOMAIN s |-> PushStep(s[i], TRUE, 0)] \o Rest
    BY <1>8 DEF CheckSingle, PushStep
  <2>. PICK t : t = [i \in DOMAIN s |-> PushStep(s[i], TRUE, 0)]
    OBVIOUS
  <2>2. t = [i \in DOMAIN t |-> t[i]] /\ DOMAIN t = DOMAIN s /\ \A i \in DOMAIN t : t[i].do = "push"
    BY DEF PushStep
  <2>3. todo' = t \o Rest
    BY <2>1
  <2>. QED BY <1>7, <2>2, <2>3
<1>9. CASE CheckPushes
  <2>1. PICK s \in DueOrder : todo' = [i \in DOMAIN s |-> PushStep(s[i], FALSE, Pushed[s[i]])] \o Rest
    BY <1>9 DEF CheckPushes, PushStep
  <2>. PICK t : t = [i \in DOMAIN s |-> PushStep(s[i], FALSE, Pushed[s[i]])]
    OBVIOUS
  <2>2. t = [i \in DOMAIN t |-> t[i]] /\ DOMAIN t = DOMAIN s /\ \A i \in DOMAIN t : t[i].do = "push"
    BY DEF PushStep
  <2>3. todo' = t \o Rest
    BY <2>1
  <2>. QED BY <1>7, <2>2, <2>3
<1>10. ASSUME NEW M \in SUBSET Minions, todo' = Displace(M) \o Rest PROVE Checked(todo')
  <2>1. /\ Displace(M) \in Seq(Steps)
        /\ \A i \in DOMAIN Displace(M) : Displace(M)[i].do = "displace"
    BY DisplaceType
  <2>. QED BY <1>2, <1>10, <2>1
<1>11. ASSUME NEW t \in Teams, todo' = GameOver(t) \o Rest PROVE Checked(todo')
  <2>1. /\ GameOver(t) \in Seq(Steps) /\ DOMAIN GameOver(t) = {1} /\ GameOver(t)[1].do = "over"
    BY OverType
  <2>. QED BY <1>2, <1>11, <2>1
<1>12. CASE CheckWon
  BY <1>11, <1>12 DEF CheckWon
<1>13. CASE PushWins
  <2>1. Head(todo).do = "push"
    BY <1>13 DEF PushWins, Ready
  <2>2. Head(todo).loser \in Teams
    BY <1>1, <2>1, StepTypes
  <2>. QED BY <1>11, <1>13, <2>2, OtherType DEF PushWins
<1>14. CASE TriggerGameOver
  BY <1>14 DEF TriggerGameOver, Checked
<1>15. CASE CheckTied \/ PushMoves \/ ResolveDisplacement
  <2>1. PICK M : todo' = Displace(M) \o Rest
    BY <1>15 DEF CheckTied, PushMoves, ResolveDisplacement
  <2>2. \A i \in DOMAIN Displace(M) : Displace(M)[i].do = "displace"
    <3>1. Displace(M) = <<>> \/ Displace(M) = <<[do |-> "displace", who |-> M]>>
      BY DEF Displace
    <3>. QED BY <3>1
  <2>. PICK T, x : x = [do |-> "displace", who |-> M] /\ T = {x} \cup Steps
    OBVIOUS
  <2>3. Displace(M) \in Seq(T) /\ Steps \subseteq T
    <3>1. Displace(M) = <<>> \/ Displace(M) = <<x>>
      BY DEF Displace
    <3>2. <<>> \in Seq(T) /\ <<x>> \in Seq(T)
      OBVIOUS
    <3>. QED BY <3>1, <3>2
  <2>. QED BY <1>2, <2>1, <2>2, <2>3
<1>. QED BY <1>3, <1>4, <1>5, <1>6, <1>8, <1>9, <1>12, <1>13, <1>14, <1>15 DEF Engine

\* A list of lanes has all of them.
LEMMA ListsAll ==
    ASSUME board \in Boards, NEW S \in SUBSET Lanes, NEW s \in InOrder(S)
    PROVE  /\ \A l \in S : \E i \in DOMAIN s : s[i] = l
           /\ S # {} => Len(s) # 0
<1>1. IsFiniteSet(S)
  BY LaneFacts, FS_Subset
<1>. PICK n : n = Cardinality(S)
  OBVIOUS
<1>2. n \in Nat
  BY <1>1, FS_CardinalityType
<1>3. s \in [1 .. n -> S] /\ \A i, j \in DOMAIN s : i < j => Before(s[i], s[j])
  BY DEF InOrder
<1>4. \A i, j \in 1 .. n : s[i] = s[j] => i = j
  <2>1. \A l \in S : ~Before(l, l)
    BY LaneFacts
  <2>2. \A i, j \in 1 .. n : i # j => i < j \/ j < i
    BY <1>2
  <2>. QED BY <1>3, <2>1, <2>2
<1>. PICK R : R = {s[i] : i \in 1 .. n}
  OBVIOUS
<1>6. s \in Bijection(1 .. n, R)
  <2>1. s \in [1 .. n -> R] /\ \A x \in R : \E i \in 1 .. n : s[i] = x
    BY <1>3
  <2>. QED BY <1>4, <2>1 DEF Bijection, Injection, Surjection, IsInjective
<1>7. IsFiniteSet(1 .. n) /\ Cardinality(1 .. n) = n
  <2>1. n >= 1 => n - 1 + 1 = n
    BY <1>2
  <2>. QED BY <1>2, FS_Interval
<1>8. IsFiniteSet(R) /\ Cardinality(R) = n
  BY <1>6, <1>7, FS_Bijection DEF ExistsBijection
<1>9. R \subseteq S
  BY <1>3
<1>10. R = S
  BY <1>1, <1>8, <1>9, FS_Subset
<1>11. S # {} => n # 0
  BY <1>1, FS_EmptySet
<1>12. Len(s) = n /\ DOMAIN s = 1 .. n
  BY <1>2, <1>3
<1>. QED BY <1>10, <1>11, <1>12

\* A zone that is filled holds both teams, or they wait for a space.
LEMMA SpawnPresent ==
    ASSUME Fillable, Board, NEW old \in Standing, NEW l \in Lanes, NEW i \in 2 .. Length - 1,
           NEW B \in SUBSET Points[l][i], NEW s,
           s = Spawn(Wipe(old, Here(l)), l, <<l, i>>, B),
           \A m \in Minions : LaneOf[m] = l => old[m] \in {Limbo, Here(l)}
    PROVE  /\ Present(l, <<l, i>>, s.place, s.queued)
           /\ \A m \in Minions : \/ s.place[m] = Limbo
                                 \/ LaneOf[m] = l /\ s.place[m] = <<l, i>>
                                 \/ LaneOf[m] # l /\ s.place[m] = old[m]
<1>. PICK wiped : wiped = Wipe(old, Here(l))
  OBVIOUS
<1>. DEFINE now   == Drafted(wiped, l, Points[l][i] \ B)
            after == [m \in Minions |-> IF m \in now THEN <<l, i>> ELSE wiped[m]]
<1>1. l \in Lane /\ i \in 1 .. Length
  BY LaneFacts, LanesAssumption DEF Board
<1>2. s.place = after
  BY DEF Spawn
<1>3. \A m \in now : m \in Minions /\ LaneOf[m] = l /\ wiped[m] = Limbo
  <2>1. IsFiniteSet(Points[l][i] \ B)
    BY <1>1, PointsFinite
  <2>. QED BY <2>1, Drafts
<1>. HIDE DEF now
<1>4. \A m \in Minions : wiped[m] = IF old[m] = Here(l) THEN Limbo ELSE old[m]
  BY DEF Wipe
<1>5. \A m \in Minions : \/ s.place[m] = Limbo
                         \/ LaneOf[m] = l /\ s.place[m] = <<l, i>>
                         \/ LaneOf[m] # l /\ s.place[m] = old[m]
  BY <1>2, <1>3, <1>4
<1>6. ASSUME NEW t \in Teams
      PROVE  \E m \in Minions : TeamOf[m] = t /\ LaneOf[m] = l /\ (s.place[m] = <<l, i>> \/ m \in s.queued)
  <2>1. PICK m \in Minions : TeamOf[m] = t /\ LaneOf[m] = l /\ \E p \in Points[l][i] : PointKind(p) = Kind(m)
    BY <1>1 DEF Fillable
  <2>2. CASE s.place[m] = <<l, i>> \/ m \in s.queued
    BY <2>1, <2>2
  <2>3. CASE s.place[m] # <<l, i>> /\ m \notin s.queued
    <3>1. s.place[m] = Limbo
      BY <1>5, <2>1, <2>3
    <3>. PICK Q : Q = s.queued
      OBVIOUS
    <3>2. Full(s.place, l, i, Q, Kind(m))
      <4>1. s = Spawn(wiped, l, <<l, i>>, B) /\ s.queued \subseteq Q /\ m \notin Q
        BY <2>3
      <4>. QED BY <1>1, <2>1, <3>1, <4>1, SpawnFills, Zenon
    <3>. PICK k : k = Kind(m)
      OBVIOUS
    <3>. PICK G : G = {g \in Bound(l, k) : s.place[g] = <<l, i>> \/ g \in Q}
      OBVIOUS
    <3>3. Room(Points[l][i], k) <= Cardinality(G)
      BY <3>2 DEF Full
    <3>4. Room(Points[l][i], k) \in Nat /\ Room(Points[l][i], k) # 0
      <4>. PICK P : P = {p \in Points[l][i] : PointKind(p) = k}
        OBVIOUS
      <4>1. IsFiniteSet(Points[l][i])
        BY <1>1, PointsFinite
      <4>2. IsFiniteSet(P) /\ P # {}
        BY <2>1, <4>1, FS_Subset
      <4>. QED BY <4>2, FS_CardinalityType, FS_EmptySet DEF Room
    <3>5. G # {}
      <4>1. Cardinality({}) = 0
        BY FS_EmptySet
      <4>2. G = {} => Cardinality(G) = 0
        BY <4>1, Zenon
      <4>. QED BY <3>3, <3>4, <4>2
    <3>6. PICK g : g \in G
      BY <3>5
    <3>7. g \in Minions /\ LaneOf[g] = l /\ Kind(g) = Kind(m) /\ (s.place[g] = <<l, i>> \/ g \in Q)
      BY <3>6 DEF Bound
    <3>8. TeamOf[g] = t
      BY <2>1, <3>7 DEF Kind
    <3>. QED BY <3>7, <3>8
  <2>. QED BY <2>2, <2>3
<1>7. Present(l, <<l, i>>, s.place, s.queued)
  BY <1>6 DEF Present
<1>. QED BY <1>5, <1>7

\* Who waits, when the displaced lie on top of pushes.
LEMMA OnlyDisplacedWait ==
    ASSUME NEW M \in SUBSET Minions, NEW r \in Seq(Steps), todo = Displace(M) \o r,
           \A i \in DOMAIN r : r[i].do # "displace"
    PROVE  /\ Waiting = M
           /\ \A l : ToPush(l) <=> \E i \in DOMAIN r : r[i].do = "push" /\ r[i].lane = l
<1>. PICK d : d = Displace(M)
  OBVIOUS
<1>1. /\ d \in Seq(Steps) /\ \A i \in DOMAIN d : d[i].do = "displace" /\ d[i].who = M
  BY DisplaceType
<1>2. /\ \A i \in DOMAIN d : i \in DOMAIN todo /\ todo[i] = d[i]
      /\ \A i \in DOMAIN todo : \/ i \in DOMAIN d
                                \/ i - Len(d) \in DOMAIN r /\ i > Len(d) /\ todo[i] = r[i - Len(d)]
  BY <1>1, Onto
<1>3. \A i \in DOMAIN r : i + Len(d) \in DOMAIN todo /\ todo[i + Len(d)] = r[i]
  BY <1>1
<1>4. Waiting \subseteq M
  BY <1>1, <1>2 DEF Waiting
<1>5. M \subseteq Waiting
  BY DisplacedWait
<1>6. ASSUME NEW l PROVE ToPush(l) <=> \E i \in DOMAIN r : r[i].do = "push" /\ r[i].lane = l
  <2>1. ASSUME ToPush(l) PROVE \E i \in DOMAIN r : r[i].do = "push" /\ r[i].lane = l
    <3>1. PICK i \in DOMAIN todo : todo[i].do = "push" /\ todo[i].lane = l
      BY <2>1 DEF ToPush
    <3>2. i \notin DOMAIN d
      BY <1>1, <1>2, <3>1
    <3>. QED BY <1>2, <3>1, <3>2
  <2>2. ASSUME NEW i \in DOMAIN r, r[i].do = "push", r[i].lane = l PROVE ToPush(l)
    BY <1>3, <2>2 DEF ToPush
  <2>. QED BY <2>1, <2>2
<1>. QED BY <1>4, <1>5, <1>6

LEMMA OnlyDisplacedWaitAlways ==
    [](\A M \in SUBSET Minions, r \in Seq(Steps) :
         todo = Displace(M) \o r /\ (\A i \in DOMAIN r : r[i].do # "displace") =>
           /\ Waiting = M
           /\ \A l : ToPush(l) <=> \E i \in DOMAIN r : r[i].do = "push" /\ r[i].lane = l)
<1>1. \A M \in SUBSET Minions, r \in Seq(Steps) :
         todo = Displace(M) \o r /\ (\A i \in DOMAIN r : r[i].do # "displace") =>
           /\ Waiting = M
           /\ \A l : ToPush(l) <=> \E i \in DOMAIN r : r[i].do = "push" /\ r[i].lane = l
  BY OnlyDisplacedWait
<1>. QED BY <1>1, PTL

LEMMA OnlyDisplacedWaitNext ==
    \A M \in SUBSET Minions, r \in Seq(Steps) :
         todo' = Displace(M) \o r /\ (\A i \in DOMAIN r : r[i].do # "displace") =>
           /\ Waiting' = M
           /\ \A l : ToPush(l)' <=> \E i \in DOMAIN r : r[i].do = "push" /\ r[i].lane = l
<1>1. (\A M \in SUBSET Minions, r \in Seq(Steps) :
         todo = Displace(M) \o r /\ (\A i \in DOMAIN r : r[i].do # "displace") =>
           /\ Waiting = M
           /\ \A l : ToPush(l) <=> \E i \in DOMAIN r : r[i].do = "push" /\ r[i].lane = l)'
  BY OnlyDisplacedWaitAlways, PTL
<1>. QED BY <1>1

\* The pushes that wait while the first step runs.
LEMMA PushesBelow ==
    ASSUME PushInv, todo # <<>>, Head(todo).do \in {"push", "displace"}
    PROVE  /\ \A i \in DOMAIN Rest : Rest[i].do = "push" /\ Rest[i].lane \in Lanes
           /\ Waiting = IF Head(todo).do = "displace" THEN Head(todo).who ELSE {}
           /\ \A l : ToPush(l) => \/ Head(todo).do = "push" /\ Head(todo).lane = l
                                  \/ \E i \in DOMAIN Rest : Rest[i].do = "push" /\ Rest[i].lane = l
           /\ Pushing(todo)
<1>0. todo \in Seq(Steps)
  BY DEF PushInv, TypeOK
<1>1. /\ \A i \in DOMAIN Rest : Head(todo).do \in Above(Rest[i].do)
      /\ Head(todo) = todo[1] /\ 1 \in DOMAIN todo
  BY <1>0, Quiet, Popped
<1>2. \A i \in DOMAIN Rest : Rest[i].do = "push"
  BY <1>1 DEF Above
<1>3. \A i \in DOMAIN Rest : Rest[i].lane \in Lanes
  BY <1>2, RestFits DEF Pushes, PushFits
<1>4. \A i \in DOMAIN todo : \/ todo[i] = Head(todo)
                             \/ \E j \in DOMAIN Rest : todo[i] = Rest[j]
  <2>1. \A i \in DOMAIN todo : todo[i] = Head(todo) \/ (i - 1 \in DOMAIN Rest /\ todo[i] = Rest[i - 1])
    BY <1>0, TopOrRest DEF Rest
  <2>. QED BY <2>1
<1>5. CASE Head(todo).do = "displace"
  <2>1. \A i \in DOMAIN todo : todo[i].do = "displace" => todo[i] = Head(todo)
    BY <1>2, <1>4
  <2>. QED BY <1>1, <1>2, <1>3, <1>4, <1>5, <2>1 DEF Waiting, ToPush, Pushing
<1>6. CASE Head(todo).do = "push"
  <2>1. \A i \in DOMAIN todo : todo[i].do = "push"
    BY <1>2, <1>4, <1>6
  <2>2. Waiting = {}
    BY <2>1 DEF Waiting
  <2>. QED BY <1>1, <1>2, <1>3, <1>4, <1>6, <2>1, <2>2 DEF ToPush, Pushing
<1>. QED BY <1>5, <1>6

\* What a lane is, that nobody came to and nobody left.
LEMMA LaneStays ==
    ASSUME NEW k, Here(k)' = Here(k), \A m \in Minions : (at[m] = Here(k) <=> at'[m] = Here(k)),
           \A m \in Waiting : LaneOf[m] = k => m \in Waiting',
           \A m \in Waiting' : LaneOf[m] = k => m \in Waiting
    PROVE  /\ Calm(k) => Calm(k)'
           /\ Present(k, Here(k), at, Waiting) => Present(k, Here(k)', at', Waiting')
<1>. PICK z : z = Here(k)
  OBVIOUS
<1>1. Loser(z)' = Loser(z)
  BY LoserStays
<1>2. Loser(Here(k))' = Loser(Here(k))
  <2>1. Loser(Here(k))' = Loser(z)'
    BY DEF Loser, Count
  <2>. QED BY <1>1, <2>1
<1>3. Calm(k) => Calm(k)'
  BY <1>2 DEF Calm
<1>4. Present(k, Here(k), at, Waiting) => Present(k, Here(k)', at', Waiting')
  BY DEF Present
<1>. QED BY <1>3, <1>4

LEMMA MovesSettle ==
    ASSUME Fillable, PushInv, HeldInv, PushMoves, astray' = {}
    PROVE  Settled'
<1>a. PICK step, r : step = Head(todo) /\ r = Rest
  OBVIOUS
<1>b. PICK l, new : l = step.lane /\ new = IF step.decides THEN Target(l, step.loser) ELSE step.target
  OBVIOUS
<1>1. /\ todo # <<>> /\ step.do = "push"
      /\ step.decides => ~Throne(new)
      /\ zone' = [zone EXCEPT ![l] = new]
      /\ UNCHANGED <<board, astray>>
      /\ \E blocked \in Blocks(Points[l][new]) :
           LET s == Spawn(Wipe(at, Here(l)), l, <<l, new>>, blocked)
           IN  at' = s.place /\ todo' = Displace(s.queued) \o r
  BY <1>a, <1>b DEF PushMoves, Ready
<1>2. /\ Board /\ step \in Steps /\ PushFits(step) /\ at \in Standing /\ r \in Seq(Steps)
      /\ \A j \in DOMAIN r : Apart(step, r[j])
  BY <1>a, <1>1, Quiet, RestFits DEF PushInv, Board, TypeOK, Standing
<1>3. /\ l \in Lanes /\ l \in Lane /\ new \in 2 .. Length - 1 /\ zone \in [Lane -> Int]
      /\ Lanes' = Lanes
  <2>1. l \in Lanes /\ l \in Lane /\ zone \in [Lane -> Int] /\ Length \in Nat
    BY <1>b, <1>1, <1>2, LaneFacts, LanesAssumption DEF Board, PushFits
  <2>2. step \in [do : {"push"}, lane : Lane, loser : Teams, decides : BOOLEAN, target : Int]
    BY <1>1, <1>2, StepTypes
  <2>3. Target(l, step.loser) \in Int
    BY <1>2, <2>1, HereType
  <2>4. new \in Int /\ ~Throne(new)
    BY <1>b, <1>1, <1>2, <2>2, <2>3 DEF PushFits
  <2>5. Lanes' = Lanes
    BY <1>1 DEF Lanes
  <2>. QED BY <2>1, <2>4, <2>5 DEF Throne
<1>4. /\ \A i \in DOMAIN r : r[i].do = "push" /\ r[i].lane \in Lanes
      /\ Waiting = {}
      /\ \A k \in Lanes : ToPush(k) /\ k # l => \E i \in DOMAIN r : r[i].do = "push" /\ r[i].lane = k
      /\ Pushing(todo)
  BY <1>a, <1>b, <1>1, PushesBelow
<1>5. Settled
  BY <1>1, <1>4 DEF HeldInv
<1>6. PICK blocked \in SUBSET Points[l][new] :
        LET s == Spawn(Wipe(at, Here(l)), l, <<l, new>>, blocked)
        IN  at' = s.place /\ todo' = Displace(s.queued) \o r
  BY <1>1 DEF Blocks
<1>c. PICK s : s = Spawn(Wipe(at, Here(l)), l, <<l, new>>, blocked)
  OBVIOUS
<1>7. at' = s.place /\ todo' = Displace(s.queued) \o r
  BY <1>6, <1>c
<1>8. \A m \in Minions : LaneOf[m] \in Lanes => at[m] \in {Limbo, Here(LaneOf[m])}
  BY <1>5 DEF Settled, Outside
<1>9. /\ s.queued \in SUBSET Minions /\ \A m \in s.queued : LaneOf[m] = l
      /\ \A k \in Lanes \ {l}, m \in Minions : at'[m] = Here(k) <=> at[m] = Here(k)
  <2>1. Board /\ at \in Standing /\ l \in Lanes /\ new \in 2 .. Length - 1
    BY <1>2, <1>3
  <2>2. /\ s.queued \in SUBSET Minions /\ \A m \in s.queued : LaneOf[m] = l
        /\ \A k \in Lanes \ {l}, m \in Minions : s.place[m] = Here(k) <=> at[m] = Here(k)
    BY ONLY <1>c, <2>1, SpawnFacts, blocked \in SUBSET Points[l][new]
  <2>. QED BY <1>7, <2>2
<1>10. /\ Present(l, <<l, new>>, at', s.queued)
       /\ \A m \in Minions : \/ at'[m] = Limbo
                             \/ LaneOf[m] = l /\ at'[m] = <<l, new>>
                             \/ LaneOf[m] # l /\ at'[m] = at[m]
  <2>1. \A m \in Minions : LaneOf[m] = l => at[m] \in {Limbo, Here(l)}
    BY <1>3, <1>8
  <2>2. Board /\ at \in Standing /\ l \in Lanes /\ new \in 2 .. Length - 1
    BY <1>2, <1>3
  <2>3. /\ Present(l, <<l, new>>, s.place, s.queued)
        /\ \A m \in Minions : \/ s.place[m] = Limbo
                              \/ LaneOf[m] = l /\ s.place[m] = <<l, new>>
                              \/ LaneOf[m] # l /\ s.place[m] = at[m]
    BY ONLY Fillable, <1>c, <2>1, <2>2, SpawnPresent, blocked \in SUBSET Points[l][new]
  <2>. QED BY <1>7, <2>3
<1>11. /\ Waiting' = s.queued
       /\ \A k : ToPush(k)' <=> \E i \in DOMAIN r : r[i].do = "push" /\ r[i].lane = k
  BY <1>2, <1>4, <1>7, <1>9, OnlyDisplacedWaitNext
<1>12. Here(l)' = <<l, new>> /\ \A k \in Lanes \ {l} : Here(k)' = Here(k)
  <2>1. zone'[l] = new /\ \A k \in Lanes \ {l} : zone'[k] = zone[k]
    BY <1>1, <1>2, <1>3, LaneFacts DEF Board
  <2>. QED BY <2>1 DEF Here
<1>13. Outside' = {}
  <2>1. \A m \in Minions : LaneOf[m] \in Lanes => at'[m] \in {Limbo, Here(LaneOf[m])'}
    <3> SUFFICES ASSUME NEW m \in Minions, LaneOf[m] \in Lanes
                 PROVE  at'[m] \in {Limbo, Here(LaneOf[m])'}
      OBVIOUS
    <3>1. CASE LaneOf[m] = l
      <4>1. Here(LaneOf[m])' = <<l, new>>
        BY <1>12, <3>1
      <4>. QED BY <1>10, <3>1, <4>1
    <3>2. CASE LaneOf[m] # l
      <4>1. Here(LaneOf[m])' = Here(LaneOf[m])
        BY <1>12, <3>2
      <4>. QED BY <1>8, <1>10, <3>2, <4>1
    <3>. QED BY <3>1, <3>2
  <2>. QED BY <1>3, <2>1 DEF Outside
<1>14. ASSUME NEW k \in Lanes
       PROVE  ToPush(k)' \/ Calm(k)' \/ Present(k, Here(k)', at', Waiting')
  <2>1. CASE k = l
    BY <1>10, <1>11, <1>12, <2>1
  <2>2. CASE k # l
    <3>1. ToPush(k) => ToPush(k)'
      BY <1>4, <1>11, <2>2
    <3>2. (Calm(k) => Calm(k)') /\ (Present(k, Here(k), at, Waiting) => Present(k, Here(k)', at', Waiting'))
      <4>1. \A m \in Minions : (at[m] = Here(k) <=> at'[m] = Here(k))
        BY <1>9, <2>2
      <4>2. \A m \in Waiting' : LaneOf[m] # k
        BY <1>9, <1>11, <2>2
      <4>. QED BY <1>4, <1>12, <2>2, <4>1, <4>2, LaneStays
    <3>. QED BY <1>5, <3>1, <3>2 DEF Settled
  <2>. QED BY <2>1, <2>2
<1>. QED BY <1>3, <1>9, <1>11, <1>13, <1>14 DEF Settled

LEMMA DisplacedSettles ==
    ASSUME PushInv, HeldInv, ResolveDisplacement, astray' = {}
    PROVE  Settled'
<1>. PICK who, r : who = Head(todo).who /\ r = Rest
  OBVIOUS
<1>1. /\ todo # <<>> /\ Head(todo).do = "displace"
      /\ UNCHANGED <<board, zone, astray>>
      /\ \E m \in who : /\ at' = [at EXCEPT ![m] = Here(LaneOf[m])]
                        /\ todo' = Displace(who \ {m}) \o r
  BY DEF ResolveDisplacement, Ready
<1>2. /\ Board /\ at \in Standing /\ Head(todo) \in Steps /\ r \in Seq(Steps)
      /\ Lanes' = Lanes /\ \A k : Here(k)' = Here(k)
  BY <1>1, Quiet DEF PushInv, Board, TypeOK, Standing, Lanes, Here
<1>3. who \in SUBSET Minions
  BY <1>1, <1>2, StepTypes
<1>4. /\ \A i \in DOMAIN r : r[i].do = "push" /\ r[i].lane \in Lanes
      /\ Waiting = who /\ Pushing(todo)
      /\ \A k : ToPush(k) => \E i \in DOMAIN r : r[i].do = "push" /\ r[i].lane = k
  BY <1>1, PushesBelow
<1>5. Settled
  BY <1>1, <1>4 DEF HeldInv
<1>6. PICK m \in who : /\ at' = [at EXCEPT ![m] = Here(LaneOf[m])]
                       /\ todo' = Displace(who \ {m}) \o r
  BY <1>1
<1>7. /\ Waiting' = who \ {m}
      /\ \A k : ToPush(k)' <=> \E i \in DOMAIN r : r[i].do = "push" /\ r[i].lane = k
  <2>1. who \ {m} \in SUBSET Minions /\ \A i \in DOMAIN r : r[i].do # "displace"
    BY <1>3, <1>4
  <2>. QED BY <1>2, <1>6, <2>1, OnlyDisplacedWaitNext
<1>8. /\ m \in Minions /\ LaneOf[m] \in Lanes /\ at[m] \in {Limbo, Here(LaneOf[m])}
      /\ \A g \in Minions : at'[g] = IF g = m THEN Here(LaneOf[m]) ELSE at[g]
  BY <1>2, <1>3, <1>4, <1>5, <1>6 DEF Settled, Outside, Standing
<1>9. Outside' = {}
  BY <1>2, <1>5, <1>8 DEF Settled, Outside
<1>10. ASSUME NEW k \in Lanes
       PROVE  ToPush(k)' \/ Calm(k)' \/ Present(k, Here(k)', at', Waiting')
  <2>1. ToPush(k) => ToPush(k)'
    BY <1>4, <1>7
  <2>2. Present(k, Here(k), at, Waiting) => Present(k, Here(k)', at', Waiting')
    BY <1>2, <1>4, <1>7, <1>8 DEF Present
  <2>3. ASSUME Calm(k) PROVE Calm(k)'
    <3>1. LaneOf[m] # k
      BY <1>4, <2>3 DEF Calm
    <3>2. Here(k) # Limbo /\ Here(LaneOf[m]) # Here(k)
      BY <1>2, <1>8, <3>1, HereType
    <3>3. \A g \in Minions : (at[g] = Here(k) <=> at'[g] = Here(k))
      BY <1>8, <3>2
    <3>4. Here(k)' = Here(k) /\ \A g \in Waiting : LaneOf[g] = k => g \in Waiting'
      BY <1>2, <1>4, <1>7, <3>1
    <3>5. \A g \in Waiting' : LaneOf[g] = k => g \in Waiting
      BY <1>4, <1>7
    <3>. QED BY <2>3, <3>3, <3>4, <3>5, LaneStays
  <2>. QED BY <1>5, <2>1, <2>2, <2>3 DEF Settled
<1>. QED BY <1>2, <1>4, <1>5, <1>7, <1>9, <1>10 DEF Settled

\* The pushes of a check are of the lanes that are held by one team.
LEMMA ChecksSettle ==
    ASSUME PushInv, CheckSingle \/ CheckPushes, astray' = {}
    PROVE  Settled' /\ todo' # <<>>
<1>1. /\ todo # <<>> /\ Head(todo).do = "check" /\ Due # {} /\ Outside = {}
      /\ UNCHANGED <<board, zone, at>>
  BY DEF CheckSingle, CheckPushes, Checking, Ready
<1>2. /\ board \in Boards /\ Due \in SUBSET Lanes /\ Rest = <<>>
      /\ Lanes' = Lanes /\ \A k : Here(k)' = Here(k)
  BY <1>1, Quiet DEF PushInv, TypeOK, Due, Lanes, Here
<1>3. ASSUME NEW s \in DueOrder, NEW t, t = [i \in DOMAIN t |-> t[i]], DOMAIN t = DOMAIN s,
             todo' = t \o Rest
      PROVE  todo' = t
  <2>1. Len(s) \in Nat /\ DOMAIN s = 1 .. Len(s)
    BY <1>2, Listed DEF DueOrder
  <2>. PICK T : T = {t[i] : i \in DOMAIN t}
    OBVIOUS
  <2>2. t \in [1 .. Len(s) -> T]
    BY <1>3, <2>1
  <2>3. t \in Seq(T)
    BY <2>1, <2>2
  <2>. QED BY <1>2, <1>3, <2>3
<1>4. PICK s \in DueOrder : /\ DOMAIN todo' = DOMAIN s
                            /\ \A i \in DOMAIN s : todo'[i].do = "push" /\ todo'[i].lane = s[i]
  <2>1. CASE CheckSingle
    <3>1. PICK s \in DueOrder : todo' = [i \in DOMAIN s |-> PushStep(s[i], TRUE, 0)] \o Rest
      BY <2>1 DEF CheckSingle, PushStep
    <3>. PICK t : t = [i \in DOMAIN s |-> PushStep(s[i], TRUE, 0)]
      OBVIOUS
    <3>2. /\ t = [i \in DOMAIN t |-> t[i]] /\ DOMAIN t = DOMAIN s
          /\ \A i \in DOMAIN s : t[i].do = "push" /\ t[i].lane = s[i]
      BY DEF PushStep
    <3>3. todo' = t
      BY <1>3, <3>1, <3>2
    <3>. QED BY <3>2, <3>3
  <2>2. CASE CheckPushes
    <3>1. PICK s \in DueOrder : todo' = [i \in DOMAIN s |-> PushStep(s[i], FALSE, Pushed[s[i]])] \o Rest
      BY <2>2 DEF CheckPushes, PushStep
    <3>. PICK t : t = [i \in DOMAIN s |-> PushStep(s[i], FALSE, Pushed[s[i]])]
      OBVIOUS
    <3>2. /\ t = [i \in DOMAIN t |-> t[i]] /\ DOMAIN t = DOMAIN s
          /\ \A i \in DOMAIN s : t[i].do = "push" /\ t[i].lane = s[i]
      BY DEF PushStep
    <3>3. todo' = t
      BY <1>3, <3>1, <3>2
    <3>. QED BY <3>2, <3>3
  <2>. QED BY <2>1, <2>2
<1>5. Len(s) \in Nat /\ DOMAIN s = 1 .. Len(s)
  BY <1>2, Listed DEF DueOrder
<1>6. /\ \A l \in Due : \E i \in DOMAIN s : s[i] = l
      /\ Len(s) # 0
  BY <1>1, <1>2, ListsAll DEF DueOrder
<1>7. \A l \in Due : ToPush(l)'
  <2> SUFFICES ASSUME NEW l \in Due PROVE ToPush(l)'
    OBVIOUS
  <2>1. PICK i \in DOMAIN s : s[i] = l
    BY <1>6
  <2>. QED BY <1>4, <2>1 DEF ToPush
<1>8. Waiting' = {}
  BY <1>4 DEF Waiting
<1>9. \A l \in Lanes \ Due : Calm(l)'
  <2>1. \A l \in Lanes \ Due : Loser(Here(l))' = Nobody
    <3>1. \A l : Loser(Here(l))' = Loser(Here(l))
      BY <1>1, <1>2 DEF Loser, Count
    <3>. QED BY <3>1 DEF Due
  <2>. QED BY <1>8, <2>1 DEF Calm
<1>10. Outside' = {}
  BY <1>1, <1>2 DEF Outside
<1>11. todo' # <<>>
  <2>1. 1 \in DOMAIN todo'
    BY <1>4, <1>5, <1>6
  <2>. QED BY <2>1, Empty
<1>. QED BY <1>2, <1>7, <1>8, <1>9, <1>10, <1>11 DEF Settled

\* A tied check fills every lane that it empties.
LEMMA TieSettles ==
    ASSUME Fillable, PushInv, CheckTied, astray' = {}
    PROVE  Settled'
<1>1. /\ todo # <<>> /\ Head(todo).do = "check" /\ Outside = {}
      /\ UNCHANGED <<board, zone>>
      /\ \E s \in DueOrder, blocked \in [Due -> UNION {Blocks(Points[l][zone[l]]) : l \in Due}] :
           /\ \A l \in Due : blocked[l] \subseteq Points[l][zone[l]]
           /\ at' = TieRemedy(s, blocked).place
           /\ todo' = Displace(TieRemedy(s, blocked).queued) \o Rest
  BY DEF CheckTied, Checking, Ready
<1>2. /\ Board /\ at \in Standing /\ Due \in SUBSET Lanes /\ Rest = <<>>
      /\ Lanes' = Lanes /\ \A k : Here(k)' = Here(k)
  BY <1>1, Quiet DEF PushInv, Board, TypeOK, Standing, Due, Lanes, Here
<1>3. PICK s \in DueOrder, blocked \in [Due -> UNION {Blocks(Points[l][zone[l]]) : l \in Due}] :
        /\ \A l \in Due : blocked[l] \subseteq Points[l][zone[l]]
        /\ at' = TieRemedy(s, blocked).place
        /\ todo' = Displace(TieRemedy(s, blocked).queued) \o Rest
  BY <1>1
<1>4. /\ s \in Seq(Lanes) /\ \A i \in DOMAIN s : s[i] \in Due
      /\ Len(s) \in Nat /\ DOMAIN s = 1 .. Len(s)
      /\ \A i, j \in DOMAIN s : i < j => s[i] # s[j]
      /\ \A l \in Due : \E i \in DOMAIN s : s[i] = l
  BY <1>2, Listed, ListsAll DEF Board, DueOrder
<1>. PICK n : n = Len(s)
  OBVIOUS
<1>5. PICK g \in [0 .. n -> Refilled] :
        /\ g[0] = [place |-> at, queued |-> {}] /\ TieRemedy(s, blocked) = g[n]
        /\ \A i \in 1 .. n : g[i] = Refill(g[i - 1], s[i], blocked)
  <2>1. \A i \in DOMAIN s : blocked[s[i]] \subseteq Points[s[i]][zone[s[i]]]
    BY <1>3, <1>4
  <2>2. /\ Board /\ at \in Standing /\ s \in Seq(Lanes)
    BY <1>2, <1>4
  <2>3. \E g \in [0 .. Len(s) -> Refilled] :
          /\ g[0] = [place |-> at, queued |-> {}] /\ TieRemedy(s, blocked) = g[Len(s)]
          /\ \A i \in 1 .. Len(s) : g[i] = Refill(g[i - 1], s[i], blocked)
    BY ONLY <2>1, <2>2, TieRuns
  <2>. QED BY <2>3
<1>. DEFINE
       Homes(i) == \A m \in Minions : LaneOf[m] \in Lanes => g[i].place[m] \in {Limbo, Here(LaneOf[m])}
       Queue(i) == \A m \in g[i].queued : \E j \in 1 .. i : LaneOf[m] = s[j]
       Done(i)  == \A j \in 1 .. i : Present(s[j], Here(s[j]), g[i].place, g[i].queued)
       Rests(i) == \A l \in Lanes : (\A j \in 1 .. i : s[j] # l) =>
                      \A m \in Minions : g[i].place[m] = Here(l) <=> at[m] = Here(l)
       G        == {i \in 0 .. n : Homes(i) /\ Queue(i) /\ Done(i) /\ Rests(i)}
<1>6. 0 \in G
  <2>1. Homes(0)
    BY <1>1, <1>5 DEF Outside
  <2>2. Queue(0) /\ Done(0)
    BY <1>5
  <2>3. Rests(0)
    BY <1>5
  <2>. QED BY <1>4, <2>1, <2>2, <2>3
<1>7. ASSUME NEW i \in 1 .. n, i - 1 \in G
      PROVE  i \in G
  <2>. PICK old, l, q : old = g[i - 1].place /\ l = s[i] /\ q = g[i - 1].queued
    OBVIOUS
  <2>1. /\ old \in Standing /\ q \in SUBSET Minions /\ l \in Due /\ l \in Lanes
        /\ i - 1 \in 0 .. n /\ i \in DOMAIN s
    <3>1. i - 1 \in 0 .. n /\ i \in DOMAIN s
      BY <1>4
    <3>2. g[i - 1] \in Refilled
      BY <1>5, <3>1
    <3>. QED BY <1>2, <1>4, <3>1, <3>2 DEF Refilled
  <2>2. zone[l] \in 2 .. Length - 1 /\ Here(l) = <<l, zone[l]>>
    <3>1. zone[l] \in 1 .. Length /\ ~Throne(zone[l])
      BY <1>2, <2>1, HereType DEF Board, NoThrone
    <3>2. Length \in Nat
      BY LanesAssumption
    <3>. QED BY <3>1, <3>2 DEF Throne, Here
  <2>. PICK B, z : B = blocked[l] /\ z = zone[l]
    OBVIOUS
  <2>. PICK r : r = Spawn(Wipe(old, Here(l)), l, <<l, z>>, B)
    OBVIOUS
  <2>3. g[i].place = r.place /\ g[i].queued = q \cup r.queued
    <3>1. g[i] = [place |-> r.place, queued |-> q \cup r.queued]
      BY <1>5, <2>2 DEF Refill
    <3>. QED BY <3>1
  <2>4. B \in SUBSET Points[l][z] /\ z \in 2 .. Length - 1
    BY <1>3, <2>1, <2>2
  <2>5. /\ \A m \in Minions : LaneOf[m] \in Lanes => old[m] \in {Limbo, Here(LaneOf[m])}
        /\ \A m \in q : \E j \in 1 .. i - 1 : LaneOf[m] = s[j]
        /\ \A j \in 1 .. i - 1 : Present(s[j], Here(s[j]), old, q)
        /\ \A k \in Lanes : (\A j \in 1 .. i - 1 : s[j] # k) =>
              \A m \in Minions : old[m] = Here(k) <=> at[m] = Here(k)
    BY <1>7
  <2>. HIDE DEF G, Homes, Queue, Done, Rests
  <2>6. /\ r.queued \in SUBSET Minions /\ \A m \in r.queued : LaneOf[m] = l
        /\ \A k \in Lanes \ {l}, m \in Minions : r.place[m] = Here(k) <=> old[m] = Here(k)
    <3>1. Board /\ old \in Standing /\ l \in Lanes
      BY <1>2, <2>1
    <3>2. r = Spawn(Wipe(old, Here(l)), l, <<l, z>>, B)
      OBVIOUS
    <3>. QED BY ONLY <2>4, <3>1, <3>2, SpawnFacts
  <2>7. /\ Present(l, <<l, z>>, r.place, r.queued)
        /\ \A m \in Minions : \/ r.place[m] = Limbo
                              \/ LaneOf[m] = l /\ r.place[m] = <<l, z>>
                              \/ LaneOf[m] # l /\ r.place[m] = old[m]
    <3>1. Board /\ old \in Standing /\ l \in Lanes
      BY <1>2, <2>1
    <3>2. r = Spawn(Wipe(old, Here(l)), l, <<l, z>>, B)
      OBVIOUS
    <3>3. \A m \in Minions : LaneOf[m] = l => old[m] \in {Limbo, Here(l)}
      BY <2>1, <2>5
    <3>. QED BY ONLY Fillable, <2>4, <3>1, <3>2, <3>3, SpawnPresent
  <2>. PICK new, now : new = r.place /\ now = r.queued
    OBVIOUS
  <2>8. /\ \A m \in now : LaneOf[m] = l
        /\ \A k \in Lanes \ {l}, m \in Minions : new[m] = Here(k) <=> old[m] = Here(k)
        /\ Present(l, Here(l), new, now)
        /\ \A m \in Minions : \/ new[m] = Limbo
                              \/ LaneOf[m] = l /\ new[m] = Here(l)
                              \/ LaneOf[m] # l /\ new[m] = old[m]
    BY ONLY <2>2, <2>6, <2>7, new = r.place, now = r.queued, z = zone[l]
  <2>9. g[i].place = new /\ g[i].queued = q \cup now
    BY <2>3
  <2>10. Homes(i)
    <3>1. \A m \in Minions : LaneOf[m] \in Lanes => new[m] \in {Limbo, Here(LaneOf[m])}
      BY ONLY <2>5, <2>8
    <3>. QED BY ONLY <2>9, <3>1 DEF Homes
  <2>11. Queue(i)
    <3>1. \A m \in q \cup now : \E j \in 1 .. i : LaneOf[m] = s[j]
      BY ONLY <2>5, <2>8, l = s[i], i \in 1 .. n, n \in Nat
    <3>. QED BY ONLY <2>9, <3>1 DEF Queue
  <2>12. Done(i)
    <3>1. ASSUME NEW j \in 1 .. i PROVE Present(s[j], Here(s[j]), new, q \cup now)
      <4>1. CASE j = i
        BY ONLY <2>8, <4>1, l = s[i] DEF Present
      <4>2. CASE j # i
        <5>1. j \in 1 .. i - 1 /\ j \in DOMAIN s /\ j < i
          BY <1>4, <4>2
        <5>2. s[j] \in Lanes /\ s[j] # l
          BY <1>2, <1>4, <2>1, <5>1
        <5>3. Present(s[j], Here(s[j]), old, q)
          BY <2>5, <5>1
        <5>4. \A m \in Minions : new[m] = Here(s[j]) <=> old[m] = Here(s[j])
          BY <2>8, <5>2
        <5>. QED BY ONLY <5>3, <5>4 DEF Present
      <4>. QED BY <4>1, <4>2
    <3>. QED BY ONLY <2>9, <3>1 DEF Done
  <2>13. Rests(i)
    <3>1. ASSUME NEW k \in Lanes, \A j \in 1 .. i : s[j] # k, NEW m \in Minions
          PROVE  new[m] = Here(k) <=> at[m] = Here(k)
      <4>1. k # l
        <5>1. i \in 1 .. i
          OBVIOUS
        <5>. QED BY <3>1, <5>1
      <4>2. \A j \in 1 .. i - 1 : s[j] # k
        <5>1. \A j \in 1 .. i - 1 : j \in 1 .. i
          OBVIOUS
        <5>. QED BY <3>1, <5>1
      <4>. QED BY <2>5, <2>8, <4>1, <4>2
    <3>. QED BY ONLY <2>9, <3>1 DEF Rests
  <2>14. i \in 0 .. n
    OBVIOUS
  <2>. QED BY <2>10, <2>11, <2>12, <2>13, <2>14 DEF G
<1>8. n \in G
  <2>1. n \in Nat /\ n \in 0 .. n
    BY <1>4
  <2>2. 0 .. n \subseteq G
    <3>. HIDE DEF G
    <3>. QED BY <1>6, <1>7, <2>1, UpTo
  <2>. QED BY <2>1, <2>2
<1>9. Homes(n) /\ Queue(n) /\ Done(n) /\ Rests(n)
  BY <1>8
<1>10. /\ at' = g[n].place /\ todo' = Displace(g[n].queued) \o <<>> /\ g[n].queued \in SUBSET Minions
  <2>1. n \in 0 .. n
    BY <1>4
  <2>. QED BY <1>2, <1>3, <1>5, <2>1 DEF Refilled
<1>11. Waiting' = g[n].queued
  <2>1. <<>> \in Seq(Steps) /\ DOMAIN <<>> = {}
    BY Empty
  <2>2. \A i \in DOMAIN <<>> : <<>>[i].do # "displace"
    BY <2>1
  <2>. QED BY <1>10, <2>1, <2>2, OnlyDisplacedWaitNext
<1>12. \A m \in Waiting' : LaneOf[m] \in Due
  BY <1>4, <1>9, <1>11
<1>13. ASSUME NEW l \in Lanes PROVE Calm(l)' \/ Present(l, Here(l)', at', Waiting')
  <2>1. CASE l \in Due
    <3>1. PICK i \in 1 .. n : s[i] = l
      BY <1>4, <2>1
    <3>. QED BY <1>2, <1>9, <1>10, <1>11, <3>1
  <2>2. CASE l \notin Due
    <3>1. \A j \in 1 .. n : s[j] # l
      BY <1>4, <2>2
    <3>2. \A m \in Minions : at[m] = Here(l) <=> at'[m] = Here(l)
      BY <1>9, <1>10, <3>1
    <3>. PICK y : y = Here(l)
      OBVIOUS
    <3>3. Loser(y)' = Loser(y)
      BY <3>2, LoserStays
    <3>4. Loser(Here(l))' = Nobody
      <4>1. Loser(Here(l))' = Loser(y)'
        BY <1>2 DEF Loser, Count
      <4>. QED BY <2>2, <3>3, <4>1 DEF Due
    <3>. QED BY <1>12, <2>2, <3>4 DEF Calm
  <2>. QED BY <2>1, <2>2
<1>14. Outside' = {}
  BY <1>2, <1>9, <1>10 DEF Outside
<1>. QED BY <1>2, <1>12, <1>13, <1>14 DEF Settled

Settling == CheckNothing \/ CheckSingle \/ CheckPushes \/ CheckTied \/ PushMoves \/ ResolveDisplacement

LEMMA SettlingSettles ==
    ASSUME Fillable, PushInv, HeldInv, Settling, astray' = {}
    PROVE  Settled'
<1>1. CASE CheckNothing
  <2>1. /\ todo # <<>> /\ Head(todo).do = "check" /\ Due = {} /\ Outside = {} /\ todo' = Rest
        /\ UNCHANGED <<board, zone, at>>
    BY <1>1 DEF CheckNothing, Checking, Ready
  <2>2. /\ todo' = <<>> /\ Lanes' = Lanes /\ \A k : Here(k)' = Here(k)
    BY <2>1, Quiet DEF Lanes, Here
  <2>3. Waiting' = {}
    BY <2>2 DEF Waiting
  <2>4. \A l \in Lanes : Loser(Here(l))' = Nobody
    <3>1. \A l : Loser(Here(l))' = Loser(Here(l))
      BY <2>1, <2>2 DEF Loser, Count
    <3>. QED BY <2>1, <3>1 DEF Due
  <2>5. Outside' = {}
    BY <2>1, <2>2 DEF Outside
  <2>. QED BY <2>2, <2>3, <2>4, <2>5 DEF Settled, Calm
<1>. QED BY <1>1, ChecksSettle, TieSettles, MovesSettle, DisplacedSettles DEF Settling

\* No other step leaves pushes below it, or is the last of those a turn's end began.
RunsOut == todo # <<>> /\ todo' = <<>> /\ over' = Nobody

LEMMA OverOnTop ==
    ASSUME NEW t, NEW r \in Seq(Steps), NEW s, s = GameOver(t) \o r
    PROVE  ~Pushing(s) /\ s # <<>>
<1>. PICK x : x = [do |-> "over", winner |-> t]
  OBVIOUS
<1>1. s = <<x>> \o r /\ x.do = "over"
  BY DEF GameOver
<1>2. 1 \in DOMAIN s /\ s[1] = x
  BY <1>1
<1>. QED BY <1>1, <1>2 DEF Pushing

LEMMA OthersRest ==
    ASSUME PushInv, Checked(todo), Next, ~Settling
    PROVE  /\ ~Pushing(todo') \/ UNCHANGED <<board, zone, at, todo, astray>>
           /\ ~RunsOut
<1>0. todo \in Seq(Steps)
  BY DEF PushInv, TypeOK
<1>a. ~Pushing(<<>>)
  BY DEF Pushing
<1>1. CASE Effects
  <2>1. todo = <<>> /\ (todo' = <<>> \/ \E t \in Teams : todo' = GameOver(Other(t)))
    <3>1. ASSUME NEW t \in Teams, NEW n \in 1 .. MaxPenalty, LoseLives(t, n)
          PROVE  todo = <<>> /\ (todo' = <<>> \/ todo' = GameOver(Other(t)))
      BY <3>1 DEF LoseLives, Idle
    <3>2. ASSUME NEW m \in Minions, DefeatMinion(m) \/ RespawnMinion(m) PROVE todo = <<>> /\ todo' = <<>>
      BY <3>2 DEF DefeatMinion, RespawnMinion, Idle
    <3>3. ASSUME NEW m \in Minions, NEW z \in Places, MoveMinion(m, z) PROVE todo = <<>> /\ todo' = <<>>
      BY <3>3 DEF MoveMinion, Idle
    <3>4. ASSUME NEW t \in Teams, RestoreLife(t) PROVE todo = <<>> /\ todo' = <<>>
      BY <3>4 DEF RestoreLife, Idle
    <3>. QED BY <1>1, <3>1, <3>2, <3>3, <3>4 DEF Effects
  <2>2. ASSUME NEW t \in Teams, todo' = GameOver(Other(t)) PROVE ~Pushing(todo')
    <3>1. GameOver(Other(t))[1].do = "over" /\ DOMAIN GameOver(Other(t)) = {1}
      BY OtherType, OverType
    <3>. QED BY <2>2, <3>1 DEF Pushing
  <2>. QED BY <1>a, <2>1, <2>2 DEF RunsOut
<1>2. CASE Sources
  <2>1. /\ todo = <<>>
        /\ \/ todo' = <<[do |-> "return", done |-> {}], Step("check")>>
           \/ todo' = <<Step("battle"), Step("check")>> \/ todo' = <<Step("check")>>
    BY <1>2 DEF Sources, EndTurn, EndRound, RepeatAction, Idle
  <2>2. \A i \in DOMAIN todo' : todo'[i].do \in {"return", "battle", "check"}
    BY <2>1 DEF Step
  <2>. QED BY <2>1, <2>2 DEF Pushing, RunsOut
<1>3. CASE Patch
  <2>. PICK t \in Teams, n \in 0 .. Lives : SetLifeCounters(t, n)
    BY <1>3 DEF Patch
  <2>1. CASE todo' = GameOver(Other(t)) \o todo
    BY <1>0, <2>1, OverOnTop DEF RunsOut
  <2>2. CASE over # Nobody /\ todo' \in {<<>>, <<[do |-> "return", done |-> {}], Step("check")>>}
    <3>1. todo = <<>>
      BY <2>2 DEF PushInv, Finished
    <3>2. \A i \in DOMAIN todo' : todo'[i].do \in {"return", "check"}
      BY <2>2 DEF Step
    <3>. QED BY <3>1, <3>2 DEF Pushing, RunsOut
  <2>3. CASE todo' = todo
    BY <2>3 DEF SetLifeCounters, RunsOut
  <2>. QED BY <2>1, <2>2, <2>3 DEF SetLifeCounters
<1>4. CASE Engine
  <2>0. todo # <<>>
    BY <1>4 DEF Engine, ReturnMinion, MinionBattle, ChooseMinionRemoval, CheckNothing, CheckSingle, CheckWon,
       CheckTied, CheckPushes, Checking, PushWins, PushMoves, ResolveDisplacement, TriggerGameOver, Ready
  <2>1. /\ Rest \in Seq(Steps) /\ Head(todo) \in Steps
        /\ Head(todo).do \in {"return", "battle", "remove"} => Rest # <<>>
        /\ \A i \in DOMAIN Rest : Head(todo).do \in Above(Rest[i].do)
    BY <1>0, <2>0, CheckedRest, Quiet DEF Rest
  <2>2. ASSUME NEW T, NEW s \in Seq(T), Steps \subseteq T, todo' = s \o Rest,
               Head(todo).do \in {"return", "battle", "remove"},
               \A i \in DOMAIN s : s[i].do \notin {"push", "displace"}
        PROVE  ~Pushing(todo') /\ ~RunsOut
    <3>1. \A i \in DOMAIN Rest : Rest[i].do \notin {"push", "displace"}
      BY <2>1, <2>2 DEF Above
    <3>2. Rest \in Seq(T)
      BY <2>1, <2>2
    <3>3. \A i \in DOMAIN (s \o Rest) : (s \o Rest)[i].do \notin {"push", "displace"}
      BY <2>2, <3>1, <3>2, Onto
    <3>4. s \o Rest # <<>>
      BY <2>1, <2>2, <3>2
    <3>. QED BY <2>2, <3>3, <3>4 DEF Pushing, RunsOut
  <2>3. ASSUME todo' = Rest, Head(todo).do \in {"return", "battle", "remove"}
        PROVE  ~Pushing(todo') /\ ~RunsOut
    <3>1. \A i \in DOMAIN Rest : Rest[i].do \notin {"push", "displace"}
      BY <2>1, <2>3 DEF Above
    <3>. QED BY <2>1, <2>3, <3>1 DEF Pushing, RunsOut
  <2>4. CASE ReturnMinion
    <3>1. Head(todo).do = "return"
      BY <2>4 DEF ReturnMinion, Ready
    <3>2. CASE todo' = Rest
      BY <2>3, <3>1, <3>2
    <3>3. CASE todo' # Rest
      <4>1. PICK m : todo' = <<[Head(todo) EXCEPT !.done = @ \cup {m}]>> \o Rest
        BY <2>4, <3>3 DEF ReturnMinion
      <4>. PICK x, T : x = [Head(todo) EXCEPT !.done = @ \cup {m}] /\ T = Steps \cup {x}
        OBVIOUS
      <4>2. x.do = "return"
        <5>1. Head(todo) \in [do : {"return"}, done : SUBSET Minions]
          BY <2>1, <3>1, StepTypes
        <5>. QED BY <5>1
      <4>3. /\ <<x>> \in Seq(T) /\ Steps \subseteq T /\ todo' = <<x>> \o Rest
            /\ \A i \in DOMAIN <<x>> : <<x>>[i].do \notin {"push", "displace"}
        <5>1. x \in T
          OBVIOUS
        <5>2. <<x>> \in Seq(T) /\ DOMAIN <<x>> = {1} /\ <<x>>[1] = x
          BY <5>1, Single
        <5>. QED BY <4>1, <4>2, <5>2
      <4>4. Head(todo).do \in {"return", "battle", "remove"}
        BY <3>1
      <4>. QED BY ONLY <2>2, <4>3, <4>4
    <3>. QED BY <3>2, <3>3
  <2>5. CASE ChooseMinionRemoval
    <3>1. Head(todo).do = "remove"
      BY <2>5 DEF ChooseMinionRemoval, Ready
    <3>2. CASE todo' = Rest
      BY <2>3, <3>1, <3>2
    <3>3. CASE todo' # Rest
      <4>1. todo' = <<[Head(todo) EXCEPT !.left = @ - 1]>> \o Rest
        BY <2>5, <3>3 DEF ChooseMinionRemoval
      <4>. PICK x, T : x = [Head(todo) EXCEPT !.left = @ - 1] /\ T = Steps \cup {x}
        OBVIOUS
      <4>2. x.do = "remove"
        <5>1. Head(todo) \in [do : {"remove"}, team : Teams, left : Nat, from : Anywhere]
          BY <2>1, <3>1, StepTypes
        <5>. QED BY <5>1
      <4>3. /\ <<x>> \in Seq(T) /\ Steps \subseteq T /\ todo' = <<x>> \o Rest
            /\ \A i \in DOMAIN <<x>> : <<x>>[i].do \notin {"push", "displace"}
        <5>1. x \in T
          OBVIOUS
        <5>2. <<x>> \in Seq(T) /\ DOMAIN <<x>> = {1} /\ <<x>>[1] = x
          BY <5>1, Single
        <5>. QED BY <4>1, <4>2, <5>2
      <4>4. Head(todo).do \in {"return", "battle", "remove"}
        BY <3>1
      <4>. QED BY ONLY <2>2, <4>3, <4>4
    <3>. QED BY <3>2, <3>3
  <2>6. CASE MinionBattle
    <3>1. Head(todo).do = "battle"
      BY <2>6 DEF MinionBattle, Ready
    <3>2. PICK edge \in [Lanes -> Edges] : \E s \in InOrder({l \in Lanes : Lead(l, edge[l]) # 0}) :
             todo' = [i \in DOMAIN s |-> Losses(s[i], edge[s[i]])] \o Rest
      BY <2>6 DEF MinionBattle
    <3>. PICK s \in InOrder({l \in Lanes : Lead(l, edge[l]) # 0}) :
             todo' = [i \in DOMAIN s |-> Losses(s[i], edge[s[i]])] \o Rest
      BY <3>2
    <3>3. Len(s) \in Nat /\ DOMAIN s = 1 .. Len(s)
      <4>1. board \in Boards /\ {l \in Lanes : Lead(l, edge[l]) # 0} \in SUBSET Lanes
        BY DEF PushInv, TypeOK
      <4>. QED BY <4>1, Listed
    <3>. PICK T, t : t = [i \in DOMAIN s |-> Losses(s[i], edge[s[i]])]
                     /\ T = {Losses(s[i], edge[s[i]]) : i \in DOMAIN s} \cup Steps
      OBVIOUS
    <3>4. t \in Seq(T)
      <4>1. t \in [1 .. Len(s) -> T]
        BY <3>3
      <4>. QED BY <3>3, <4>1
    <3>5. \A i \in DOMAIN t : t[i].do = "remove"
      BY DEF Losses
    <3>6. /\ t \in Seq(T) /\ Steps \subseteq T /\ todo' = t \o Rest
          /\ \A i \in DOMAIN t : t[i].do \notin {"push", "displace"}
      BY <3>4, <3>5
    <3>7. Head(todo).do \in {"return", "battle", "remove"}
      BY <3>1
    <3>. QED BY ONLY <2>2, <3>6, <3>7
  <2>7. CASE CheckWon \/ PushWins
    <3>1. PICK t : todo' = GameOver(t) \o Rest
      BY <2>7 DEF CheckWon, PushWins
    <3>. QED BY <2>1, <3>1, OverOnTop DEF RunsOut
  <2>8. CASE TriggerGameOver
    <3>1. Head(todo).do = "over" /\ over' = Head(todo).winner /\ todo' = <<>>
      BY <2>8 DEF TriggerGameOver, Ready
    <3>2. over' \in Teams
      BY <2>1, <3>1, StepTypes
    <3>. QED BY <1>a, <3>1, <3>2 DEF RunsOut, Teams, Nobody
  <2>. QED BY <1>4, <2>4, <2>5, <2>6, <2>7, <2>8 DEF Engine, Settling
<1>. QED BY <1>1, <1>2, <1>3, <1>4 DEF Next

LEMMA SettledStays ==
    ASSUME Settled, UNCHANGED <<board, zone, at, todo>>
    PROVE  Settled'
<1>1. Lanes' = Lanes /\ Waiting' = Waiting
  BY DEF Lanes, Waiting
<1>2. \A k : Here(k)' = Here(k) /\ (ToPush(k)' <=> ToPush(k))
  BY DEF Here, ToPush
<1>3. \A k : Loser(Here(k))' = Loser(Here(k))
  BY <1>2 DEF Loser, Count
<1>4. Outside' = Outside
  BY <1>1, <1>2 DEF Outside
<1>5. \A k : Calm(k)' <=> Calm(k)
  BY <1>1, <1>3 DEF Calm
<1>6. \A k : Present(k, Here(k), at, Waiting)' <=> Present(k, Here(k), at, Waiting)
  BY <1>1, <1>2 DEF Present
<1>. QED BY <1>1, <1>2, <1>4, <1>5, <1>6 DEF Settled

LEMMA HeldNext ==
    Fillable => (PushInv /\ HeldInv /\ [Next]_vars => HeldInv')
<1> SUFFICES ASSUME Fillable, PushInv, HeldInv, [Next]_vars PROVE HeldInv'
  OBVIOUS
<1>1. PushInv'
  BY PushNext
<1>2. CASE UNCHANGED vars
  <2>1. UNCHANGED <<board, zone, at, todo, astray>>
    BY <1>2 DEF vars
  <2>2. Settled => Settled'
    BY <2>1, SettledStays
  <2>. QED BY <2>1, <2>2 DEF HeldInv
<1>3. CASE Next
  <2>1. Checked(todo')
    BY <1>1, <1>3, OthersCheck, EngineChecks DEF Next, HeldInv
  <2>2. ASSUME Pushing(todo'), astray' = {} PROVE Settled'
    <3>1. CASE Settling
      BY <2>2, <3>1, SettlingSettles
    <3>2. CASE ~Settling
      <4>1. UNCHANGED <<board, zone, at, todo, astray>>
        BY <1>3, <2>2, <3>2, OthersRest DEF HeldInv
      <4>2. Settled
        BY <2>2, <4>1 DEF HeldInv
      <4>. QED BY <4>1, <4>2, SettledStays
    <3>. QED BY <3>1, <3>2
  <2>. QED BY <2>1, <2>2 DEF HeldInv
<1>. QED BY <1>2, <1>3

\* On an empty stack nobody waits and nothing is left to push.
LEMMA SettledIsHeld ==
    PushInv /\ Settled /\ todo = <<>> => \A l \in Lanes : Loser(Here(l)) = Nobody
<1> SUFFICES ASSUME PushInv, Settled, todo = <<>>, NEW l \in Lanes PROVE Loser(Here(l)) = Nobody
  OBVIOUS
<1>1. Waiting = {} /\ ~ToPush(l)
  BY DEF Waiting, ToPush
<1>2. CASE Calm(l)
  BY <1>2 DEF Calm
<1>3. CASE Present(l, Here(l), at, Waiting)
  <2>1. ASSUME NEW t \in Teams PROVE Count(t, Here(l)) > 0
    <3>. PICK M : M = {m \in Minions : TeamOf[m] = t /\ at[m] = Here(l)}
      OBVIOUS
    <3>1. M # {}
      BY <1>1, <1>3 DEF Present
    <3>2. IsFiniteSet(M)
      BY LanesAssumption, FS_Subset
    <3>3. Cardinality(M) \in Nat /\ Cardinality(M) # 0
      BY <3>1, <3>2, FS_CardinalityType, FS_EmptySet
    <3>. QED BY <3>3 DEF Count
  <2>2. "RED" \in Teams /\ "BLUE" \in Teams
    BY DEF Teams
  <2>3. Count("RED", Here(l)) # 0 /\ Count("BLUE", Here(l)) # 0
    BY <2>1, <2>2, CountType
  <2>. QED BY <2>3 DEF Loser
<1>. QED BY <1>1, <1>2, <1>3 DEF Settled

\* On maps like those of the repository no Battle Zone is left to one team when
\* the steps after a check are done (_wipe_minions_in_zone and the spawn after it,
\* _tie_remedy), but for minions that stood elsewhere at the check.
THEOREM NoLaneIsLeft == Fillable => (Spec => HeldByBoth)
<1> SUFFICES ASSUME Fillable PROVE Spec => HeldByBoth
  OBVIOUS
<1>1. Init => HeldInv
  BY DEF Init, HeldInv, Checked, Pushing
<1>2. (PushInv /\ Settled /\ todo = <<>> => \A l \in Lanes : Loser(Here(l)) = Nobody)'
  BY SettledIsHeld, PTL
<1>3. PushInv /\ HeldInv /\ [Next]_vars
        => [todo # <<>> /\ todo' = <<>> /\ over' = Nobody /\ astray' = {} =>
              \A l \in Lanes : Loser(Here(l))' = Nobody]_vars
  <2> SUFFICES ASSUME PushInv, HeldInv, Next, todo # <<>>, todo' = <<>>, over' = Nobody,
                      astray' = {}
               PROVE  \A l \in Lanes : Loser(Here(l))' = Nobody
    BY DEF vars
  <2>1. Settling
    BY OthersRest DEF HeldInv, RunsOut
  <2>2. Settled'
    BY <2>1, SettlingSettles
  <2>3. PushInv'
    BY PushNext
  <2>4. Lanes' = Lanes
    BY <2>1 DEF Settling, CheckNothing, CheckSingle, CheckPushes, CheckTied, PushMoves, ResolveDisplacement, Lanes
  <2>. QED BY <1>2, <2>2, <2>3, <2>4
<1>4. PushInv /\ HeldInv /\ [Next]_vars => HeldInv'
  BY HeldNext
<1>. QED BY PushInit, PushNext, <1>1, <1>3, <1>4, PTL DEF Spec, HeldByBoth

-----------------------------------------------------------------------------
(* The active effects. *)

CONSTANTS Heroes, Cards, Owner, Kinds, Triggers

VARIABLES effects, place, flag, round, turn, phase, made, ran

E == INSTANCE Effects

\* The last turn ends with the round; nothing waits to be resolved at its end.
Phased ==
    /\ phase \in {"round over", "upgrades"} => turn = 4
    /\ E!Over => \A c \in Cards : place[c] # "unresolved"

\* Ids are used once.
Fresh ==
    /\ \A e \in effects : e.id < made
    /\ \A r \in ran : r.effect.id < made
    /\ \A e, f \in effects : e.id = f.id => e = f

\* An effect is awake, and a played card lies on the table, unless the card waits
\* to be resolved; the cards of the table have no effects when they come back.
Anchored(e) ==
    ~e.astray =>
        \A c \in e.on :
            /\ e.active \/ (phase = "resolution" /\ place[c] = "unresolved")
            /\ e.played =>
                 /\ e.round = round /\ phase # "upgrades"
                 /\ place[c] = "resolved" \/ (phase = "resolution" /\ place[c] = "unresolved")

\* What the sweeps leave.
Timely(e) ==
    /\ e.token => e.on = {}
    /\ ~e.token =>
         /\ e.duration = "turn" /\ ~e.late => e.round = round /\ e.turn = turn /\ ~E!Over
         /\ e.duration = "next" =>
              \/ e.round = round /\ e.turn <= turn /\ turn <= e.turn + 1 /\ (E!Over => e.turn = turn)
              \/ e.round < round /\ e.turn = 4
         /\ e.duration = "round" => e.round = round /\ phase # "upgrades"

AllAnchored == \A e \in effects : Anchored(e)
AllTimely   == \A e \in effects : Timely(e)

EffectsInv ==
    /\ E!TypeOK /\ Phased /\ Fresh /\ E!OneInstance /\ E!MarkedWhileItLasts
    /\ AllAnchored /\ AllTimely /\ E!PayloadsInTime

-----------------------------------------------------------------------------
(* What the invariant gives. *)

LEMMA Consequences == EffectsInv => E!DormantAwaits /\ E!EndsWithItsRound /\ E!NoLeftovers
<1>. SUFFICES ASSUME EffectsInv PROVE E!DormantAwaits /\ E!EndsWithItsRound /\ E!NoLeftovers
  OBVIOUS
<1>1. E!DormantAwaits
  BY DEF EffectsInv, AllAnchored, Anchored, E!DormantAwaits
<1>2. E!EndsWithItsRound
  BY DEF EffectsInv, AllAnchored, Anchored, E!EndsWithItsRound
<1>3. E!NoLeftovers
  <2>. SUFFICES ASSUME NEW e \in effects, ~e.token, ~e.late, ~(e.duration = "next" /\ e.turn = 4)
               PROVE  \E t \in turn .. 4 : E!Due(e, round, t)
    BY DEF E!NoLeftovers
  <2>1. Timely(e) /\ e \in E!Effect /\ turn \in 1 .. 4 /\ round \in Nat
    BY DEF EffectsInv, AllTimely, E!TypeOK
  <2>2. e.duration \in E!Durations /\ e.turn \in 1 .. 4
    BY <2>1 DEF E!Effect
  <2>3. CASE e.duration = "turn"
    BY <2>1, <2>2, <2>3 DEF Timely, E!Due
  <2>4. CASE e.duration = "next"
    <3>1. e.round = round /\ e.turn + 1 \in turn .. 4
      BY <2>1, <2>2, <2>4 DEF Timely
    <3>. QED BY <3>1, <2>4 DEF E!Due
  <2>5. CASE e.duration \in {"round", "passive"}
    BY <2>1, <2>5 DEF Timely, E!Due
  <2>. QED BY <2>2, <2>3, <2>4, <2>5 DEF E!Durations
<1>. QED BY <1>1, <1>2, <1>3

-----------------------------------------------------------------------------
(* What steps of one kind have in common. *)

\* If no effect is made and nothing runs.
LEMMA Shrinking ==
    ASSUME EffectsInv, effects' \subseteq effects, UNCHANGED <<made, ran>>
    PROVE  Fresh' /\ E!OneInstance' /\ E!PayloadsInTime'
<1>1. Fresh'
  BY DEF EffectsInv, Fresh
<1>2. E!OneInstance'
  BY DEF EffectsInv, E!OneInstance
<1>3. E!PayloadsInTime'
  BY DEF EffectsInv, E!PayloadsInTime
<1>. QED BY <1>1, <1>2, <1>3

\* If the time stands still.
LEMMA TimelyStays ==
    ASSUME EffectsInv, effects' \subseteq effects, UNCHANGED E!clock
    PROVE  AllTimely'
BY DEF EffectsInv, AllTimely, Timely, E!clock, E!Over

\* If the cards of the effects that are left stay where they are.
LEMMA AnchoredStays ==
    ASSUME EffectsInv, effects' \subseteq effects, UNCHANGED E!clock,
           \A e \in effects' : \A c \in e.on : place'[c] = place[c]
    PROVE  AllAnchored'
BY DEF EffectsInv, AllAnchored, Anchored, E!clock

\* Flags are right where they are refreshed and where nothing is taken.
LEMMA RefreshedMarks ==
    ASSUME EffectsInv, NEW some \in SUBSET Cards, effects' \subseteq effects,
           flag' = E!Refreshed(effects', some)
    PROVE  flag' \in [Cards -> BOOLEAN] /\ E!MarkedWhileItLasts'
<1>1. flag' \in [Cards -> BOOLEAN]
  BY DEF E!Refreshed, EffectsInv, E!TypeOK
<1>2. E!MarkedWhileItLasts'
  <2>. SUFFICES ASSUME NEW e \in effects', NEW c \in e.on PROVE flag'[c]
    BY DEF E!MarkedWhileItLasts
  <2>1. c \in Cards /\ flag[c]
    BY DEF EffectsInv, E!TypeOK, E!Effect, E!On, E!MarkedWhileItLasts
  <2>. QED BY <2>1 DEF E!Refreshed
<1>. QED BY <1>1, <1>2

\* If only cards that have no effect, or were played in vain, move.
LEMMA Moving ==
    ASSUME EffectsInv, UNCHANGED <<effects, flag, E!clock, made, ran>>,
           place' \in [Cards -> E!Places],
           AllAnchored', Phased'
    PROVE  EffectsInv'
<1>1. E!TypeOK' /\ E!MarkedWhileItLasts'
  BY DEF EffectsInv, E!TypeOK, E!clock, E!MarkedWhileItLasts
<1>. QED BY <1>1, Shrinking, TimelyStays DEF EffectsInv

-----------------------------------------------------------------------------
(* Planning and revelation. *)

LEMMA PlanningKeeps ==
    ASSUME EffectsInv, NEW c \in Cards,
           E!PlayCard(c) \/ E!UnplayCard(c) \/ E!RetrieveUnresolvedCard(c)
    PROVE  EffectsInv'
<1>1. phase \in {"planning", "revealed"} /\ UNCHANGED <<effects, flag, E!clock, made, ran>>
  BY DEF E!PlayCard, E!UnplayCard, E!RetrieveUnresolvedCard
<1>2. /\ place' \in [Cards -> E!Places]
      /\ \A d \in Cards \ {c} : place'[d] = place[d]
      /\ place[c] \in {"hand", "unresolved"}
  BY DEF E!PlayCard, E!UnplayCard, E!RetrieveUnresolvedCard, EffectsInv, E!TypeOK, E!Places
<1>3. AllAnchored'
  <2>. SUFFICES ASSUME NEW e \in effects PROVE Anchored(e)'
    BY <1>1 DEF AllAnchored
  <2>1. Anchored(e) /\ e.on \subseteq Cards
    BY DEF EffectsInv, AllAnchored, E!TypeOK, E!Effect, E!On
  <2>. QED BY <1>1, <1>2, <2>1 DEF Anchored, E!clock
<1>4. Phased'
  BY <1>1 DEF Phased, E!Over, E!clock
<1>. QED BY <1>1, <1>2, <1>3, <1>4, Moving

LEMMA RevealKeeps == ASSUME EffectsInv, E!Reveal PROVE EffectsInv'
<1>. DEFINE due == {x \in effects : /\ x.kind \in Triggers /\ x.payload
                                  /\ x.round = round /\ turn = x.turn + 1}
            news == {[effect |-> e, round |-> round, turn |-> turn] : e \in due}
<1>1. /\ phase = "planning" /\ phase' = "revealed" /\ ran' = ran \cup news
      /\ effects' = {e \in effects : e.kind \notin Triggers}
      /\ UNCHANGED <<place, flag, round, turn, made>>
  BY DEF E!Reveal
<1>2. news \subseteq [effect : E!Effect, round : Nat, turn : 1 .. 4]
  BY DEF EffectsInv, E!TypeOK
<1>3. E!TypeOK'
  BY <1>1, <1>2 DEF EffectsInv, E!TypeOK, E!Phases
<1>4. Phased' /\ E!MarkedWhileItLasts' /\ E!OneInstance'
  BY <1>1 DEF EffectsInv, Phased, E!Over, E!MarkedWhileItLasts, E!OneInstance
<1>5. Fresh'
  BY <1>1 DEF EffectsInv, Fresh
<1>6. AllAnchored'
  BY <1>1 DEF EffectsInv, AllAnchored, Anchored
<1>7. AllTimely'
  BY <1>1 DEF EffectsInv, AllTimely, Timely, E!Over
<1>8. E!PayloadsInTime'
  <2>1. \A r \in ran' : \A e \in effects' : e.id # r.effect.id
    BY <1>1 DEF EffectsInv, E!PayloadsInTime, Fresh
  <2>2. \A r, s \in ran' : r.effect.id = s.effect.id => r = s
    <3>. SUFFICES ASSUME NEW r \in ran', NEW s \in ran', r.effect.id = s.effect.id PROVE r = s
      OBVIOUS
    <3>1. CASE r \in ran /\ s \in ran
      BY <3>1 DEF EffectsInv, E!PayloadsInTime
    <3>2. CASE r \in news /\ s \in news
      BY <3>2 DEF EffectsInv, Fresh
    <3>3. r \in ran => s \notin news
      BY DEF EffectsInv, E!PayloadsInTime
    <3>4. s \in ran => r \notin news
      BY DEF EffectsInv, E!PayloadsInTime
    <3>. QED BY <1>1, <3>1, <3>2, <3>3, <3>4
  <2>3. \A r \in news : r.effect.kind \in Triggers /\ r.round = r.effect.round
                       /\ r.turn = r.effect.turn + 1
    OBVIOUS
  <2>. QED BY <1>1, <2>1, <2>2, <2>3 DEF EffectsInv, E!PayloadsInTime
<1>. QED BY <1>3, <1>4, <1>5, <1>6, <1>7, <1>8 DEF EffectsInv

LEMMA StartResolutionKeeps == ASSUME EffectsInv, E!StartResolution PROVE EffectsInv'
<1>1. /\ phase = "revealed" /\ phase' = "resolution"
      /\ UNCHANGED <<effects, place, flag, round, turn, made, ran>>
  BY DEF E!StartResolution
<1>2. E!TypeOK' /\ Phased' /\ E!MarkedWhileItLasts'
  BY <1>1 DEF EffectsInv, E!TypeOK, E!Phases, Phased, E!Over, E!MarkedWhileItLasts
<1>3. AllAnchored' /\ AllTimely'
  BY <1>1 DEF EffectsInv, AllAnchored, Anchored, AllTimely, Timely, E!Over
<1>. QED BY <1>1, <1>2, <1>3, Shrinking DEF EffectsInv

-----------------------------------------------------------------------------
(* Effects come and go. *)

LEMMA CreateEffectKeeps ==
    ASSUME EffectsInv, NEW on \in E!On, NEW token \in BOOLEAN, NEW by \in Heroes, NEW kind \in Kinds,
           NEW duration \in E!Durations, NEW payload \in BOOLEAN, NEW active \in BOOLEAN,
           E!CreateEffect(on, token, by, kind, duration, payload, active)
    PROVE  EffectsInv'
<1>. DEFINE new == [id |-> made, on |-> on, token |-> token, by |-> by, kind |-> kind,
                    duration |-> duration, payload |-> payload,
                    active |-> active \/ \E c \in on : place[c] # "unresolved",
                    round |-> round, turn |-> turn, late |-> E!Over,
                    played |-> \E c \in on : place[c] = "unresolved", astray |-> FALSE]
<1>0. PICK n : n = new
  OBVIOUS
<1>1. /\ E!Acting /\ (token => on = {})
      /\ \A e \in effects : e.on = on /\ e.kind = kind => on = {}
      /\ effects' = effects \cup {n}
      /\ flag' = [c \in Cards |-> c \in on \/ flag[c]]
      /\ made' = made + 1
      /\ UNCHANGED <<place, E!clock, ran>>
  BY <1>0 DEF E!CreateEffect
<1>2. E!TypeOK /\ Phased
  BY DEF EffectsInv
<1>3. n \in E!Effect
  <2>1. E!Over \in BOOLEAN /\ (\E c \in on : place[c] = "unresolved") \in BOOLEAN
        /\ (active \/ \E c \in on : place[c] # "unresolved") \in BOOLEAN
    BY DEF E!Over
  <2>2. made \in Nat /\ round \in Nat /\ turn \in 1 .. 4
    BY <1>2 DEF E!TypeOK
  <2>. QED BY <1>0, <2>1, <2>2 DEF E!Effect
<1>4. /\ n.id = made /\ n.on = on /\ n.token = token /\ n.kind = kind /\ n.duration = duration
      /\ n.round = round /\ n.turn = turn /\ n.late = E!Over /\ ~n.astray
      /\ n.active = (active \/ \E c \in on : place[c] # "unresolved")
      /\ n.played = \E c \in on : place[c] = "unresolved"
  BY <1>0
<1>5. E!TypeOK' /\ Phased'
  <2>1. flag' \in [Cards -> BOOLEAN]
    BY <1>1, <1>2 DEF E!TypeOK
  <2>2. effects' \subseteq E!Effect
    BY <1>1, <1>2, <1>3 DEF E!TypeOK
  <2>3. UNCHANGED <<place, round, turn, phase, ran>> /\ made' \in Nat
    BY <1>1, <1>2 DEF E!TypeOK, E!clock
  <2>4. E!TypeOK'
    BY <1>2, <2>1, <2>2, <2>3 DEF E!TypeOK
  <2>. QED BY <1>2, <2>3, <2>4 DEF Phased, E!Over
<1>6. Fresh' /\ E!PayloadsInTime'
  <2>1. \A e \in effects : e.id \in Nat /\ e.id < made
    BY <1>2 DEF EffectsInv, Fresh, E!TypeOK, E!Effect
  <2>2. \A r \in ran : r.effect.id \in Nat /\ r.effect.id < made
    BY <1>2 DEF EffectsInv, Fresh, E!TypeOK, E!Effect
  <2>3. made \in Nat
    BY <1>2 DEF E!TypeOK
  <2>4. Fresh'
    BY <1>1, <1>4, <2>1, <2>2, <2>3 DEF EffectsInv, Fresh
  <2>5. \A r \in ran' : \A e \in effects' : e.id # r.effect.id
    BY <1>1, <1>4, <2>2, <2>3 DEF EffectsInv, E!PayloadsInTime
  <2>. QED BY <1>1, <2>4, <2>5 DEF EffectsInv, E!PayloadsInTime
<1>7. E!OneInstance'
  BY <1>1, <1>4 DEF EffectsInv, E!OneInstance
<1>8. E!MarkedWhileItLasts'
  <2>1. \A e \in effects : e.on \subseteq Cards
    BY <1>2 DEF E!TypeOK, E!Effect, E!On
  <2>2. on \subseteq Cards
    BY DEF E!On
  <2>. QED BY <1>1, <1>4, <2>1, <2>2 DEF EffectsInv, E!MarkedWhileItLasts
<1>9. Anchored(n)'
  <2>. SUFFICES ASSUME NEW c \in on
               PROVE  /\ n.active \/ (phase = "resolution" /\ place[c] = "unresolved")
                      /\ n.played => phase = "resolution" /\ place[c] = "unresolved"
    BY <1>1, <1>4 DEF Anchored, E!clock
  <2>1. on = {c} /\ c \in Cards
    BY DEF E!On
  <2>2. place[c] = "unresolved" => phase = "resolution"
    BY <1>1, <1>2, <2>1 DEF Phased, E!Acting, E!Over
  <2>3. n.active = (active \/ place[c] # "unresolved") /\ n.played = (place[c] = "unresolved")
    BY <1>4, <2>1
  <2>. QED BY <2>2, <2>3
<1>10. Timely(n)'
  <2>1. round' = round /\ turn' = turn /\ E!Over' = E!Over /\ phase' # "upgrades" /\ turn \in 1 .. 4
    BY <1>1, <1>2 DEF E!clock, E!Over, E!Acting, E!TypeOK
  <2>2. ~n.late => ~E!Over
    BY <1>4
  <2>. QED BY <1>1, <1>4, <2>1, <2>2 DEF Timely
<1>11. \A e \in effects : Anchored(e)' /\ Timely(e)'
  BY <1>1 DEF EffectsInv, AllAnchored, AllTimely, Anchored, Timely, E!clock, E!Over
<1>12. AllAnchored' /\ AllTimely'
  <2>1. \A e \in effects' : e = n \/ e \in effects
    BY <1>1
  <2>. HIDE DEF Anchored, Timely
  <2>2. AllAnchored'
    BY <1>9, <1>11, <2>1 DEF AllAnchored
  <2>. QED BY <1>10, <1>11, <2>1, <2>2 DEF AllTimely
<1>. QED BY <1>5, <1>6, <1>7, <1>8, <1>12 DEF EffectsInv

LEMMA ExpireEffectByIdKeeps ==
    ASSUME EffectsInv, NEW e \in effects, E!ExpireEffectById(e)
    PROVE  EffectsInv'
<1>1. /\ effects' \subseteq effects /\ flag' = E!Refreshed(effects', e.on)
      /\ UNCHANGED <<place, E!clock, made, ran>>
  BY DEF E!ExpireEffectById
<1>2. e.on \in SUBSET Cards
  BY DEF EffectsInv, E!TypeOK, E!Effect, E!On
<1>3. flag' \in [Cards -> BOOLEAN] /\ E!MarkedWhileItLasts'
  BY <1>1, <1>2, RefreshedMarks
<1>4. E!TypeOK' /\ Phased'
  BY <1>1, <1>3 DEF EffectsInv, E!TypeOK, Phased, E!Over, E!clock
<1>. QED BY <1>1, <1>3, <1>4, Shrinking, TimelyStays, AnchoredStays DEF EffectsInv

LEMMA CancelEffectsKeeps ==
    ASSUME EffectsInv, NEW gone \in SUBSET effects, E!CancelEffects(gone)
    PROVE  EffectsInv'
<1>1. effects' \subseteq effects /\ UNCHANGED <<place, flag, E!clock, made, ran>>
  BY DEF E!CancelEffects
<1>2. E!TypeOK' /\ Phased' /\ E!MarkedWhileItLasts'
  BY <1>1 DEF EffectsInv, E!TypeOK, Phased, E!Over, E!clock, E!MarkedWhileItLasts
<1>. QED BY <1>1, <1>2, Shrinking, TimelyStays, AnchoredStays DEF EffectsInv

LEMMA DefeatHeroKeeps ==
    ASSUME EffectsInv, NEW h \in Heroes, E!DefeatHero(h)
    PROVE  EffectsInv'
<1>. DEFINE Ends(e) == /\ ~e.token
                       /\ IF e.on = {} THEN e.by = h ELSE \E c \in e.on : Owner[c] = h
            ended == {e \in effects : Ends(e)}
            some  == UNION {e.on : e \in ended}
<1>1. /\ effects' = effects \ ended /\ flag' = E!Refreshed(effects', some)
      /\ place' = [c \in Cards |-> IF Owner[c] = h /\ place[c] = "unresolved"
                                   THEN "resolved" ELSE place[c]]
      /\ UNCHANGED <<E!clock, made, ran>>
  BY DEF E!DefeatHero
<1>2. some \in SUBSET Cards
  BY DEF EffectsInv, E!TypeOK, E!Effect, E!On
<1>3. flag' \in [Cards -> BOOLEAN] /\ E!MarkedWhileItLasts'
  <2>. HIDE DEF some, ended
  <2>. QED BY <1>1, <1>2, RefreshedMarks
<1>4. E!TypeOK' /\ Phased'
  <2>. HIDE DEF some, ended
  <2>. QED BY <1>1, <1>3 DEF EffectsInv, E!TypeOK, E!Places, Phased, E!Over, E!clock
<1>5. \A e \in effects' : \A c \in e.on : place'[c] = place[c]
  <2>. SUFFICES ASSUME NEW e \in effects', NEW c \in e.on PROVE place'[c] = place[c]
    OBVIOUS
  <2>1. e \in effects /\ ~Ends(e)
    BY <1>1
  <2>2. c \in Cards /\ ~e.token
    BY <2>1 DEF EffectsInv, E!TypeOK, E!Effect, E!On, AllTimely, Timely
  <2>3. Owner[c] # h
    BY <2>1, <2>2
  <2>. QED BY <1>1, <2>2, <2>3
<1>6. effects' \subseteq effects
  BY <1>1
<1>. QED BY <1>1, <1>3, <1>4, <1>5, <1>6, Shrinking, TimelyStays, AnchoredStays DEF EffectsInv

-----------------------------------------------------------------------------
(* Cards that change their place. *)

LEMMA LeaveKeeps ==
    ASSUME EffectsInv, NEW some \in SUBSET Cards, E!Leave(some),
           place' \in [Cards -> E!Places],
           \A c \in Cards \ some : place'[c] = place[c],
           E!Over => \A c \in Cards : place'[c] # "unresolved"
    PROVE  EffectsInv'
<1>1. /\ effects' = E!Cut(some) /\ flag' = [c \in Cards |-> c \notin some /\ flag[c]]
      /\ UNCHANGED <<E!clock, made, ran>>
  BY DEF E!Leave
<1>2. /\ effects' \subseteq effects
      /\ \A e \in effects' : \A c \in e.on : c \in Cards \ some
  BY <1>1 DEF E!Cut, EffectsInv, E!TypeOK, E!Effect, E!On
<1>3. E!TypeOK' /\ Phased'
  BY <1>1, <1>2 DEF EffectsInv, E!TypeOK, Phased, E!Over, E!clock
<1>4. E!MarkedWhileItLasts'
  BY <1>1, <1>2 DEF EffectsInv, E!MarkedWhileItLasts
<1>. QED BY <1>1, <1>2, <1>3, <1>4, Shrinking, TimelyStays, AnchoredStays DEF EffectsInv

LEMMA DiscardCardKeeps == ASSUME EffectsInv, NEW c \in Cards, E!DiscardCard(c) PROVE EffectsInv'
<1>1. place' = [place EXCEPT ![c] = "discard"] /\ E!Leave({c}) /\ {c} \in SUBSET Cards
  BY DEF E!DiscardCard
<1>2. place' \in [Cards -> E!Places] /\ (\A d \in Cards \ {c} : place'[d] = place[d])
      /\ (E!Over => \A d \in Cards : place'[d] # "unresolved")
  BY <1>1 DEF EffectsInv, E!TypeOK, E!Places, Phased
<1>. QED BY <1>1, <1>2, LeaveKeeps

LEMMA RetrieveCardKeeps == ASSUME EffectsInv, NEW c \in Cards, E!RetrieveCard(c) PROVE EffectsInv'
<1>1. place' = [place EXCEPT ![c] = "hand"] /\ E!Leave({c}) /\ {c} \in SUBSET Cards
  BY DEF E!RetrieveCard
<1>2. place' \in [Cards -> E!Places] /\ (\A d \in Cards \ {c} : place'[d] = place[d])
      /\ (E!Over => \A d \in Cards : place'[d] # "unresolved")
  BY <1>1 DEF EffectsInv, E!TypeOK, E!Places, Phased
<1>. QED BY <1>1, <1>2, LeaveKeeps

LEMMA SwapCardsKeeps ==
    ASSUME EffectsInv, NEW c \in Cards, NEW d \in Cards, E!SwapCards(c, d) PROVE EffectsInv'
<1>1. /\ place' = [place EXCEPT ![c] = place[d], ![d] = place[c]]
      /\ E!Leave({c, d}) /\ {c, d} \in SUBSET Cards
  BY DEF E!SwapCards
<1>2. place' \in [Cards -> E!Places] /\ (\A x \in Cards \ {c, d} : place'[x] = place[x])
      /\ (E!Over => \A x \in Cards : place'[x] # "unresolved")
  BY <1>1 DEF EffectsInv, E!TypeOK, E!Places, Phased
<1>. QED BY <1>1, <1>2, LeaveKeeps

\* Effects that only wake or go astray.
LEMMA Relabelled ==
    ASSUME EffectsInv, NEW g \in [effects -> E!Effect], effects' = {g[e] : e \in effects},
           \A e \in effects :
               /\ g[e].id = e.id /\ g[e].on = e.on /\ g[e].kind = e.kind /\ g[e].token = e.token
               /\ g[e].duration = e.duration /\ g[e].round = e.round /\ g[e].turn = e.turn
               /\ g[e].late = e.late,
           UNCHANGED <<flag, E!clock, made, ran>>
    PROVE  /\ effects' \subseteq E!Effect
           /\ Fresh' /\ E!OneInstance' /\ E!MarkedWhileItLasts' /\ AllTimely' /\ E!PayloadsInTime'
<1>1. effects' \subseteq E!Effect
  OBVIOUS
<1>2. Fresh'
  BY DEF EffectsInv, Fresh
<1>3. E!OneInstance'
  BY DEF EffectsInv, E!OneInstance
<1>4. E!MarkedWhileItLasts'
  BY DEF EffectsInv, E!MarkedWhileItLasts
<1>5. AllTimely'
  <2>. SUFFICES ASSUME NEW e \in effects PROVE Timely(g[e])'
    BY DEF AllTimely
  <2>1. Timely(e)
    BY DEF EffectsInv, AllTimely
  <2>2. UNCHANGED <<round, turn, phase>>
    BY DEF E!clock
  <2>. QED BY <2>1, <2>2 DEF Timely, E!Over
<1>6. E!PayloadsInTime'
  <2>1. \A r \in ran' : \A e \in effects' : e.id # r.effect.id
    BY DEF EffectsInv, E!PayloadsInTime
  <2>. QED BY <2>1 DEF EffectsInv, E!PayloadsInTime
<1>. QED BY <1>1, <1>2, <1>3, <1>4, <1>5, <1>6

LEMMA SwapItemCardKeeps ==
    ASSUME EffectsInv, NEW item \in Cards, NEW c \in Cards, E!SwapItemCard(item, c)
    PROVE  EffectsInv'
<1>0. PICK g : g = [e \in effects |-> [e EXCEPT !.astray = @ \/ e.on \cap {item, c} # {}]]
  OBVIOUS
<1>1. /\ place' = [place EXCEPT ![item] = place[c], ![c] = "item"]
      /\ place[item] = "item" /\ effects' = {g[e] : e \in effects}
      /\ UNCHANGED <<flag, E!clock, made, ran>>
  BY <1>0 DEF E!SwapItemCard
<1>2. g \in [effects -> E!Effect]
  <2>. SUFFICES ASSUME NEW e \in effects PROVE [e EXCEPT !.astray = @ \/ e.on \cap {item, c} # {}] \in E!Effect
    BY <1>0
  <2>1. e \in E!Effect
    BY DEF EffectsInv, E!TypeOK
  <2>. QED BY <2>1 DEF E!Effect
<1>3. \A e \in effects :
         /\ g[e].id = e.id /\ g[e].on = e.on /\ g[e].kind = e.kind /\ g[e].token = e.token
         /\ g[e].duration = e.duration /\ g[e].round = e.round /\ g[e].turn = e.turn
         /\ g[e].late = e.late /\ g[e].active = e.active /\ g[e].played = e.played
         /\ ~g[e].astray => ~e.astray /\ e.on \cap {item, c} = {}
  BY <1>0 DEF EffectsInv, E!TypeOK, E!Effect
<1>4. \A e \in effects : e.on \subseteq Cards
  BY DEF EffectsInv, E!TypeOK, E!Effect, E!On
<1>5. /\ effects' \subseteq E!Effect
      /\ Fresh' /\ E!OneInstance' /\ E!MarkedWhileItLasts' /\ AllTimely' /\ E!PayloadsInTime'
  BY <1>1, <1>2, <1>3, Relabelled
<1>6. E!TypeOK' /\ Phased'
  BY <1>1, <1>5 DEF EffectsInv, E!TypeOK, E!Places, Phased, E!Over, E!clock
<1>7. AllAnchored'
  <2>. SUFFICES ASSUME NEW e \in effects, ~g[e].astray PROVE Anchored(g[e])'
    BY <1>1 DEF AllAnchored, Anchored
  <2>1. Anchored(e) /\ ~e.astray /\ \A x \in e.on : x \in Cards /\ place'[x] = place[x]
    BY <1>1, <1>3, <1>4 DEF EffectsInv, AllAnchored, E!TypeOK
  <2>2. UNCHANGED <<round, phase>>
    BY <1>1 DEF E!clock
  <2>3. g[e].on = e.on /\ g[e].active = e.active /\ g[e].played = e.played /\ g[e].round = e.round
    BY <1>3
  <2>. QED BY <2>1, <2>2, <2>3 DEF Anchored
<1>. QED BY <1>5, <1>6, <1>7 DEF EffectsInv

LEMMA ConvertCardToItemKeeps == ASSUME EffectsInv, NEW c \in Cards, E!ConvertCardToItem(c) PROVE EffectsInv'
<1>1. /\ place[c] = "retired" /\ place' = [place EXCEPT ![c] = "item"]
      /\ UNCHANGED <<effects, flag, E!clock, made, ran>>
  BY DEF E!ConvertCardToItem
<1>2. place' \in [Cards -> E!Places] /\ Phased'
  BY <1>1 DEF EffectsInv, E!TypeOK, E!Places, Phased, E!Over, E!clock
<1>3. AllAnchored'
  BY <1>1 DEF EffectsInv, AllAnchored, Anchored, E!TypeOK, E!clock
<1>. QED BY <1>1, <1>2, <1>3, Moving

LEMMA FinalizeHeroTurnKeeps == ASSUME EffectsInv, NEW c \in Cards, E!FinalizeHeroTurn(c) PROVE EffectsInv'
<1>0. PICK g : g = [e \in effects |-> [e EXCEPT !.active = @ \/ c \in e.on]]
  OBVIOUS
<1>1. /\ phase = "resolution" /\ place' = [place EXCEPT ![c] = "resolved"]
      /\ effects' = {g[e] : e \in effects}
      /\ UNCHANGED <<flag, E!clock, made, ran>>
  BY <1>0 DEF E!FinalizeHeroTurn
<1>2. g \in [effects -> E!Effect]
  <2>. SUFFICES ASSUME NEW e \in effects PROVE [e EXCEPT !.active = @ \/ c \in e.on] \in E!Effect
    BY <1>0
  <2>1. e \in E!Effect
    BY DEF EffectsInv, E!TypeOK
  <2>. QED BY <2>1 DEF E!Effect
<1>3. \A e \in effects :
         /\ g[e].id = e.id /\ g[e].on = e.on /\ g[e].kind = e.kind /\ g[e].token = e.token
         /\ g[e].duration = e.duration /\ g[e].round = e.round /\ g[e].turn = e.turn
         /\ g[e].late = e.late /\ g[e].astray = e.astray /\ g[e].played = e.played
         /\ (e.active \/ c \in e.on) => g[e].active
  BY <1>0 DEF EffectsInv, E!TypeOK, E!Effect
<1>4. \A e \in effects : e.on \in E!On
  BY DEF EffectsInv, E!TypeOK, E!Effect
<1>5. /\ effects' \subseteq E!Effect
      /\ Fresh' /\ E!OneInstance' /\ E!MarkedWhileItLasts' /\ AllTimely' /\ E!PayloadsInTime'
  BY <1>1, <1>2, <1>3, Relabelled
<1>6. E!TypeOK' /\ Phased'
  BY <1>1, <1>5 DEF EffectsInv, E!TypeOK, E!Places, Phased, E!Over, E!clock
<1>7. AllAnchored'
  <2>. SUFFICES ASSUME NEW e \in effects, ~e.astray PROVE Anchored(g[e])'
    BY <1>1, <1>3 DEF AllAnchored, Anchored
  <2>1. Anchored(e) /\ e.on \subseteq Cards
    BY <1>4 DEF EffectsInv, AllAnchored, E!On
  <2>2. \A x \in e.on : place'[x] = IF x = c THEN "resolved" ELSE place[x]
    BY <1>1, <2>1 DEF EffectsInv, E!TypeOK
  <2>. QED BY <1>1, <1>3, <2>1, <2>2 DEF Anchored, E!clock
<1>. QED BY <1>5, <1>6, <1>7 DEF EffectsInv

LEMMA ApplyHeroUpgradeKeeps ==
    ASSUME EffectsInv, NEW old \in Cards, NEW new \in Cards, NEW pair \in Cards,
           E!ApplyHeroUpgrade(old, new, pair)
    PROVE  EffectsInv'
<1>1. /\ phase = "upgrades"
      /\ place' = [place EXCEPT ![old] = "retired", ![new] = "hand", ![pair] = "item"]
      /\ UNCHANGED <<effects, flag, E!clock, made, ran>>
  BY DEF E!ApplyHeroUpgrade
<1>2. place' \in [Cards -> E!Places] /\ Phased'
  BY <1>1 DEF EffectsInv, E!TypeOK, E!Places, Phased, E!Over, E!clock
<1>3. AllAnchored'
  BY <1>1 DEF EffectsInv, AllAnchored, Anchored, E!clock
<1>. QED BY <1>1, <1>2, <1>3, Moving

-----------------------------------------------------------------------------
(* The ends of turns and rounds. *)

\* If effects end in their time.
LEMMA Ended ==
    ASSUME EffectsInv, NEW ended \in SUBSET effects, effects' = effects \ ended,
           ran' = ran \cup E!Run(ended), UNCHANGED made,
           \A e \in ended :
              \/ e.duration = "turn" /\ (e.late \/ (round = e.round /\ turn = e.turn))
              \/ /\ e.duration = "next"
                 /\ e.turn = 4 \/ (round = e.round /\ turn = e.turn + 1)
              \/ e.duration = "round" /\ round = e.round
    PROVE  /\ Fresh' /\ E!OneInstance' /\ E!PayloadsInTime'
           /\ ran' \subseteq [effect : E!Effect, round : Nat, turn : 1 .. 4]
<1>. DEFINE news == E!Run(ended)
<1>1. \A r \in news : /\ r \in [effect : E!Effect, round : Nat, turn : 1 .. 4]
                      /\ r.effect \in ended /\ r.round = round /\ r.turn = turn
                      /\ r.effect.kind \notin Triggers
  BY DEF E!Run, EffectsInv, E!TypeOK
<1>2. \A r, s \in news : r.effect = s.effect => r = s
  BY DEF E!Run
<1>. HIDE DEF news
<1>3. ran' = ran \cup news
  BY DEF news
<1>4. Fresh'
  BY <1>1, <1>3 DEF EffectsInv, Fresh
<1>5. E!OneInstance'
  BY DEF EffectsInv, E!OneInstance
<1>6. E!PayloadsInTime'
  <2>1. \A r \in ran' : \A e \in effects' : e.id # r.effect.id
    BY <1>1, <1>3 DEF EffectsInv, E!PayloadsInTime, Fresh
  <2>2. \A r, s \in ran' : r.effect.id = s.effect.id => r = s
    <3>. SUFFICES ASSUME NEW r \in ran', NEW s \in ran', r.effect.id = s.effect.id PROVE r = s
      OBVIOUS
    <3>1. CASE r \in ran /\ s \in ran
      BY <3>1 DEF EffectsInv, E!PayloadsInTime
    <3>2. CASE r \in news /\ s \in news
      <4>1. r.effect = s.effect
        BY <1>1, <3>2 DEF EffectsInv, Fresh
      <4>. QED BY <1>2, <3>2, <4>1
    <3>3. r \in ran => s \notin news
      BY <1>1 DEF EffectsInv, E!PayloadsInTime
    <3>4. s \in ran => r \notin news
      BY <1>1 DEF EffectsInv, E!PayloadsInTime
    <3>. QED BY <1>3, <3>1, <3>2, <3>3, <3>4
  <2>. QED BY <1>1, <1>3, <2>1, <2>2 DEF EffectsInv, E!PayloadsInTime
<1>7. ran' \subseteq [effect : E!Effect, round : Nat, turn : 1 .. 4]
  BY <1>1, <1>3 DEF EffectsInv, E!TypeOK
<1>. QED BY <1>4, <1>5, <1>6, <1>7

LEMMA EndTurnKeeps == ASSUME EffectsInv, E!EndTurn PROVE EffectsInv'
<1>. DEFINE ended == {e \in effects : E!ExpiresThisTurn(e)}
            some == UNION {e.on : e \in ended}
<1>1. /\ phase = "resolution" /\ phase' = "turn over"
      /\ \A c \in Cards : place[c] # "unresolved"
      /\ effects' = effects \ ended /\ flag' = E!Refreshed(effects', some)
      /\ ran' = ran \cup E!Run(ended)
      /\ UNCHANGED <<place, round, turn, made>>
  BY DEF E!EndTurn
<1>2. \A e \in effects : e \in E!Effect /\ Timely(e) /\ Anchored(e)
  BY DEF EffectsInv, E!TypeOK, AllTimely, AllAnchored
<1>3. turn \in 1 .. 4 /\ round \in Nat
  BY DEF EffectsInv, E!TypeOK
<1>4. \A e \in ended :
         \/ e.duration = "turn" /\ (e.late \/ (round = e.round /\ turn = e.turn))
         \/ /\ e.duration = "next"
            /\ e.turn = 4 \/ (round = e.round /\ turn = e.turn + 1)
         \/ e.duration = "round" /\ round = e.round
  <2>. SUFFICES ASSUME NEW e \in effects, E!ExpiresThisTurn(e)
               PROVE  \/ e.duration = "turn" /\ (e.late \/ (round = e.round /\ turn = e.turn))
                      \/ /\ e.duration = "next"
                         /\ e.turn = 4 \/ (round = e.round /\ turn = e.turn + 1)
    OBVIOUS
  <2>1. e.turn \in 1 .. 4 /\ e.round \in Nat
    BY <1>2 DEF E!Effect
  <2>. QED BY <1>2, <1>3, <2>1 DEF Timely, E!ExpiresThisTurn
<1>5. some \in SUBSET Cards
  BY <1>2 DEF E!Effect, E!On
<1>6. AllTimely'
  <2>. SUFFICES ASSUME NEW e \in effects, ~E!ExpiresThisTurn(e) PROVE Timely(e)'
    BY <1>1 DEF AllTimely
  <2>1. e.turn \in 1 .. 4 /\ e.round \in Nat
    BY <1>2 DEF E!Effect
  <2>2. Timely(e)
    BY <1>2
  <2>3. CASE e.token
    BY <2>2, <2>3 DEF Timely
  <2>4. CASE ~e.token
    <3>1. e.duration # "turn"
      BY <2>4 DEF E!ExpiresThisTurn
    <3>2. e.duration = "next" => e.round = round /\ e.turn = turn
      BY <1>3, <2>1, <2>2, <2>4 DEF Timely, E!ExpiresThisTurn
    <3>3. e.duration = "round" => e.round = round
      BY <2>2, <2>4 DEF Timely
    <3>4. phase' # "upgrades" /\ round' = round /\ turn' = turn
      BY <1>1
    <3>. QED BY <1>3, <2>1, <2>4, <3>1, <3>2, <3>3, <3>4 DEF Timely
  <2>. QED BY <2>3, <2>4
<1>7. AllAnchored'
  <2>. SUFFICES ASSUME NEW e \in effects, NEW c \in e.on PROVE place[c] # "unresolved"
    BY <1>1, <1>2 DEF AllAnchored, Anchored
  <2>. QED BY <1>1, <1>2 DEF E!Effect, E!On
<1>. HIDE DEF ended, some
<1>8. flag' \in [Cards -> BOOLEAN] /\ E!MarkedWhileItLasts'
  BY <1>1, <1>5, RefreshedMarks
<1>9. /\ Fresh' /\ E!OneInstance' /\ E!PayloadsInTime'
      /\ ran' \subseteq [effect : E!Effect, round : Nat, turn : 1 .. 4]
  <2>1. ended \in SUBSET effects
    BY DEF ended
  <2>. QED BY <1>1, <1>4, <2>1, Ended
<1>10. E!TypeOK' /\ Phased'
  BY <1>1, <1>8, <1>9 DEF EffectsInv, E!TypeOK, E!Phases, Phased, E!Over
<1>. QED BY <1>6, <1>7, <1>8, <1>9, <1>10 DEF EffectsInv

LEMMA AdvanceTurnKeeps == ASSUME EffectsInv, E!AdvanceTurn PROVE EffectsInv'
<1>1. /\ phase = "turn over" /\ turn < 4 /\ turn' = turn + 1 /\ phase' = "planning"
      /\ UNCHANGED <<effects, place, flag, round, made, ran>>
  BY DEF E!AdvanceTurn
<1>2. turn \in 1 .. 4 /\ turn' \in 1 .. 4
  <2>1. turn \in 1 .. 4
    BY DEF EffectsInv, E!TypeOK
  <2>2. turn < 4 /\ turn' = turn + 1
    BY <1>1
  <2>. QED BY <2>1, <2>2
<1>3. E!TypeOK' /\ Phased' /\ E!MarkedWhileItLasts'
  <2>1. E!TypeOK'
    BY <1>1, <1>2 DEF EffectsInv, E!TypeOK, E!Phases
  <2>. QED BY <1>1, <2>1 DEF EffectsInv, Phased, E!Over, E!MarkedWhileItLasts
<1>4. AllAnchored'
  BY <1>1 DEF EffectsInv, AllAnchored, Anchored
<1>5. AllTimely'
  <2>. SUFFICES ASSUME NEW e \in effects PROVE Timely(e)'
    BY <1>1 DEF AllTimely
  <2>1. Timely(e) /\ e.turn \in 1 .. 4 /\ e.round \in Nat
    BY DEF EffectsInv, AllTimely, E!TypeOK, E!Effect
  <2>2. e.duration = "next" /\ ~e.token =>
           (e.round = round /\ e.turn = turn) \/ (e.round < round /\ e.turn = 4)
    BY <1>1, <2>1 DEF Timely, E!Over
  <2>3. e.duration = "turn" /\ ~e.token => e.late
    BY <1>1, <2>1 DEF Timely, E!Over
  <2>4. (e.token => e.on = {}) /\ (e.duration = "round" /\ ~e.token => e.round = round)
    BY <2>1 DEF Timely
  <2>5. ~E!Over' /\ phase' # "upgrades" /\ round' = round /\ turn' = turn + 1
    BY <1>1 DEF E!Over
  <2>. QED BY <1>2, <2>1, <2>2, <2>3, <2>4, <2>5 DEF Timely
<1>. QED BY <1>1, <1>3, <1>4, <1>5, Shrinking DEF EffectsInv

LEMMA EndPhaseKeeps == ASSUME EffectsInv, E!EndPhase PROVE EffectsInv'
<1>. DEFINE ended == {e \in effects : E!ExpiresThisRound(e)}
            some == UNION {e.on : e \in ended}
<1>1. /\ phase = "turn over" /\ ~turn < 4 /\ phase' = "round over"
      /\ effects' = effects \ ended /\ flag' = E!Refreshed(effects', some)
      /\ ran' = ran \cup E!Run(ended)
      /\ UNCHANGED <<place, round, turn, made>>
  BY DEF E!EndPhase
<1>2. \A e \in effects : e \in E!Effect /\ Timely(e) /\ Anchored(e)
  BY DEF EffectsInv, E!TypeOK, AllTimely, AllAnchored
<1>3. \A e \in ended : e.duration = "round" /\ round = e.round
  BY <1>2 DEF Timely, E!ExpiresThisRound
<1>4. some \in SUBSET Cards
  BY <1>2 DEF E!Effect, E!On
<1>5. AllTimely' /\ AllAnchored'
  BY <1>1, <1>2 DEF AllTimely, Timely, AllAnchored, Anchored, E!Over
<1>. HIDE DEF ended, some
<1>6. flag' \in [Cards -> BOOLEAN] /\ E!MarkedWhileItLasts'
  BY <1>1, <1>4, RefreshedMarks
<1>7. /\ Fresh' /\ E!OneInstance' /\ E!PayloadsInTime'
      /\ ran' \subseteq [effect : E!Effect, round : Nat, turn : 1 .. 4]
  <2>1. ended \in SUBSET effects
    BY DEF ended
  <2>. QED BY <1>1, <1>3, <2>1, Ended
<1>8. E!TypeOK' /\ Phased'
  <2>1. E!TypeOK'
    BY <1>1, <1>6, <1>7 DEF EffectsInv, E!TypeOK, E!Phases
  <2>2. turn \in 1 .. 4
    BY DEF EffectsInv, E!TypeOK
  <2>3. ~(turn < 4)
    BY <1>1
  <2>4. turn = 4
    BY <2>2, <2>3
  <2>. QED BY <1>1, <2>1, <2>4 DEF EffectsInv, Phased, E!Over
<1>. QED BY <1>5, <1>6, <1>7, <1>8 DEF EffectsInv

LEMMA EndPhaseCleanupKeeps ==
    ASSUME EffectsInv, NEW gone \in SUBSET effects, E!EndPhaseCleanup(gone) PROVE EffectsInv'
<1>. DEFINE ended  == {e \in effects : E!ExpiresThisRound(e)}
            some   == UNION {e.on : e \in ended}
            table  == {c \in Cards : place[c] \in {"resolved", "unresolved"}}
            swept  == E!Refreshed(effects \ ended, some)
<1>1. /\ phase = "round over" /\ phase' = "upgrades"
      /\ effects' \subseteq effects \ ended
      /\ \A e \in effects' : e.on \cap table = {}
      /\ flag' = [c \in Cards |-> c \notin table /\ swept[c]]
      /\ place' = [c \in Cards |-> IF c \in table \/ place[c] = "discard"
                                   THEN "hand" ELSE place[c]]
      /\ UNCHANGED <<round, turn, made, ran>>
  BY DEF E!EndPhaseCleanup
<1>2. \A e \in effects : e.on \subseteq Cards /\ Timely(e) /\ Anchored(e)
  BY DEF EffectsInv, E!TypeOK, E!Effect, E!On, AllTimely, AllAnchored
<1>3. flag' \in [Cards -> BOOLEAN]
  BY <1>1 DEF EffectsInv, E!TypeOK, E!Refreshed
<1>4. E!MarkedWhileItLasts'
  <2>. SUFFICES ASSUME NEW e \in effects', NEW c \in e.on PROVE flag'[c]
    BY DEF E!MarkedWhileItLasts
  <2>1. c \in Cards /\ c \notin table /\ e \in effects \ ended
    BY <1>1, <1>2
  <2>2. flag[c]
    BY <2>1 DEF EffectsInv, E!MarkedWhileItLasts
  <2>3. swept[c]
    BY <2>1, <2>2 DEF E!Refreshed
  <2>. QED BY <1>1, <2>1, <2>3
<1>5. E!TypeOK' /\ Phased'
  BY <1>1, <1>3 DEF EffectsInv, E!TypeOK, E!Places, E!Phases, Phased, E!Over
<1>6. AllTimely'
  BY <1>1, <1>2 DEF AllTimely, Timely, E!ExpiresThisRound, E!Over
<1>7. AllAnchored'
  <2>. SUFFICES ASSUME NEW e \in effects', ~e.astray, NEW c \in e.on PROVE e.active /\ ~e.played
    BY DEF AllAnchored, Anchored
  <2>1. c \in Cards /\ c \notin table /\ Anchored(e)
    BY <1>1, <1>2
  <2>. QED BY <1>1, <2>1 DEF Anchored
<1>. QED BY <1>1, <1>4, <1>5, <1>6, <1>7, Shrinking DEF EffectsInv

LEMMA RoundResetKeeps == ASSUME EffectsInv, E!RoundReset PROVE EffectsInv'
<1>1. /\ phase = "upgrades" /\ phase' = "planning" /\ round' = round + 1 /\ turn' = 1
      /\ UNCHANGED <<effects, place, flag, made, ran>>
  BY DEF E!RoundReset
<1>2. E!TypeOK' /\ Phased' /\ E!MarkedWhileItLasts'
  BY <1>1 DEF EffectsInv, E!TypeOK, E!Phases, Phased, E!Over, E!MarkedWhileItLasts
<1>3. AllAnchored'
  BY <1>1 DEF EffectsInv, AllAnchored, Anchored
<1>4. AllTimely'
  <2>. SUFFICES ASSUME NEW e \in effects PROVE Timely(e)'
    BY <1>1 DEF AllTimely
  <2>1. Timely(e) /\ e.turn \in 1 .. 4 /\ e.round \in Nat /\ round \in Nat /\ turn = 4
    BY <1>1 DEF EffectsInv, AllTimely, E!TypeOK, E!Effect, Phased
  <2>. QED BY <1>1, <2>1 DEF Timely, E!Over
<1>. QED BY <1>1, <1>2, <1>3, <1>4, Shrinking DEF EffectsInv

-----------------------------------------------------------------------------
(* The invariant, and what follows from it. *)

LEMMA EffectsInit == E!Init => EffectsInv
<1>. SUFFICES ASSUME E!Init PROVE EffectsInv
  OBVIOUS
<1>1. E!TypeOK /\ Phased
  BY DEF E!Init, E!TypeOK, E!Places, E!Phases, Phased, E!Over
<1>2. Fresh /\ E!OneInstance /\ E!MarkedWhileItLasts /\ AllAnchored /\ AllTimely /\ E!PayloadsInTime
  BY DEF E!Init, Fresh, E!OneInstance, E!MarkedWhileItLasts, AllAnchored, AllTimely, E!PayloadsInTime
<1>. QED BY <1>1, <1>2 DEF EffectsInv

LEMMA EffectsStutter == EffectsInv /\ UNCHANGED E!vars => EffectsInv'
<1>. SUFFICES ASSUME EffectsInv, UNCHANGED E!vars PROVE EffectsInv'
  OBVIOUS
<1>1. effects' \subseteq effects /\ UNCHANGED <<effects, place, flag, E!clock, made, ran>>
  BY DEF E!vars, E!clock
<1>2. AllAnchored' /\ Phased' /\ place' \in [Cards -> E!Places]
  BY <1>1, AnchoredStays DEF EffectsInv, Phased, E!Over, E!clock, E!TypeOK
<1>. QED BY <1>1, <1>2, Moving

LEMMA EffectsStep == EffectsInv /\ [E!Next]_(E!vars) => EffectsInv'
<1>. SUFFICES ASSUME EffectsInv, [E!Next]_(E!vars) PROVE EffectsInv'
  OBVIOUS
<1>1. CASE E!Comings
  BY <1>1, CreateEffectKeeps, ExpireEffectByIdKeeps, CancelEffectsKeeps, DefeatHeroKeeps DEF E!Comings
<1>2. CASE E!CardMoves
  <2>1. CASE \E c \in Cards : E!PlayCard(c) \/ E!UnplayCard(c) \/ E!RetrieveUnresolvedCard(c)
    BY <2>1, PlanningKeeps
  <2>2. CASE \E c \in Cards : \/ E!DiscardCard(c) \/ E!RetrieveCard(c)
                              \/ E!ConvertCardToItem(c) \/ E!FinalizeHeroTurn(c)
    BY <2>2, DiscardCardKeeps, RetrieveCardKeeps, ConvertCardToItemKeeps, FinalizeHeroTurnKeeps
  <2>3. CASE \E c, d \in Cards : E!SwapCards(c, d) \/ E!SwapItemCard(c, d)
    BY <2>3, SwapCardsKeeps, SwapItemCardKeeps
  <2>4. CASE \E old, new, pair \in Cards : E!ApplyHeroUpgrade(old, new, pair)
    BY <2>4, ApplyHeroUpgradeKeeps
  <2>. QED BY <1>2, <2>1, <2>2, <2>3, <2>4 DEF E!CardMoves
<1>3. CASE E!Phasing
  BY <1>3, RevealKeeps, StartResolutionKeeps, EndTurnKeeps, AdvanceTurnKeeps, EndPhaseKeeps,
     RoundResetKeeps, EndPhaseCleanupKeeps DEF E!Phasing
<1>. QED BY <1>1, <1>2, <1>3, EffectsStutter DEF E!Next

\* Effects, cards, flags and the calendar keep their types, whatever is played.
THEOREM EffectsTypeCorrect == E!Spec => []E!TypeOK
<1>1. EffectsInv => E!TypeOK
  BY DEF EffectsInv
<1>. QED BY <1>1, EffectsInit, EffectsStep, PTL DEF E!Spec

\* No effect sleeps for ever: one that waits for its card to resolve has a card
\* that will resolve or be taken back, with the effect (FinalizeHeroTurnStep,
\* expire_by_card, cleanup_stale_effects), unless the card was made an item.
THEOREM DormantAwaitsCorrect == E!Spec => []E!DormantAwaits
BY EffectsInit, EffectsStep, Consequences, PTL DEF E!Spec

\* A card that is performed twice does not have its effect twice
\* (_find_existing_instance), however cards and effects come and go between.
THEOREM OneInstanceCorrect == E!Spec => []E!OneInstance
<1>1. EffectsInv => E!OneInstance
  BY DEF EffectsInv
<1>. QED BY <1>1, EffectsInit, EffectsStep, PTL DEF E!Spec

\* The flag of a card is set as long as it has an effect
\* (_update_card_active_status and the places that clear the flag by hand).
THEOREM MarkedWhileItLastsCorrect == E!Spec => []E!MarkedWhileItLasts
<1>1. EffectsInv => E!MarkedWhileItLasts
  BY DEF EffectsInv
<1>. QED BY <1>1, EffectsInit, EffectsStep, PTL DEF E!Spec

\* What a played card does is over when the round is, passive effects included
\* (expire_by_card as the cards are retrieved).
THEOREM EndsWithItsRoundCorrect == E!Spec => []E!EndsWithItsRound
BY EffectsInit, EffectsStep, Consequences, PTL DEF E!Spec

\* The sweeps of turns and rounds leave nothing whose time is over, but for
\* tokens, late ones and those for the turn after the last (expire_active_turn_effects
\* and expire_effects against _is_effect_active).
THEOREM NoLeftoversCorrect == E!Spec => []E!NoLeftovers
BY EffectsInit, EffectsStep, Consequences, PTL DEF E!Spec

\* A finishing payload is put on the stack once at most, at the end of the turn
\* or round its effect is for, or after the cards of the next turn are played.
THEOREM PayloadsInTimeCorrect == E!Spec => []E!PayloadsInTime
<1>1. EffectsInv => E!PayloadsInTime
  BY DEF EffectsInv
<1>. QED BY <1>1, EffectsInit, EffectsStep, PTL DEF E!Spec

-----------------------------------------------------------------------------
(* The draft. *)

DraftSteps == [action : {"BAN", "PICK"}, team : Sides]

\* What a list of steps put together one after the other is.
LEMMA Flattened ==
    ASSUME NEW S, NEW p \in Seq(Seq(S))
    PROVE  \E f \in [0 .. Len(p) -> Seq(S)] :
              /\ f[0] = <<>> /\ FlattenSeq(p) = f[Len(p)]
              /\ \A i \in 1 .. Len(p) : f[i] = f[i - 1] \o p[i]
<1>. DEFINE n == Len(p)
            Run(f) == f = [i \in 1 .. n |-> IF i = 1 THEN p[i] ELSE f[i - 1] \o p[i]]
            step == [x \in (1 .. n) \X Seq(S) |-> x[2] \o p[x[1]]]
<1>1. n \in Nat /\ \A i \in 1 .. n : p[i] \in Seq(S)
  OBVIOUS
<1>2. \A i \in 1 .. n, v \in Seq(S) : step[<<i, v>>] = v \o p[i] /\ v \o p[i] \in Seq(S)
  <2> SUFFICES ASSUME NEW i \in 1 .. n, NEW v \in Seq(S)
               PROVE  step[<<i, v>>] = v \o p[i] /\ v \o p[i] \in Seq(S)
    BY Zenon
  <2>1. v \o p[i] \in Seq(S)
    BY <1>1, Onto
  <2>2. <<i, v>> \in (1 .. n) \X Seq(S) /\ <<i, v>>[1] = i /\ <<i, v>>[2] = v
    OBVIOUS
  <2>. HIDE DEF n
  <2>3. step[<<i, v>>] = v \o p[i]
    BY <2>2, Zenon
  <2>. QED BY <2>1, <2>3
<1>3. <<>> \in Seq(S)
  OBVIOUS
<1>4. \E f : Runs(f, Seq(S), <<>>, step, n)
  <2>1. \A i \in 1 .. n, v \in Seq(S) : step[<<i, v>>] \in Seq(S)
    BY <1>2
  <2>. HIDE DEF step, n
  <2>. QED BY <1>1, <1>3, <2>1, Recursion, Zenon
<1>5. PICK f : /\ f \in [0 .. n -> Seq(S)] /\ f[0] = <<>>
               /\ \A i \in 1 .. n : f[i] = step[<<i, f[i - 1]>>]
  <2>. HIDE DEF step, n
  <2>. QED BY <1>4 DEF Runs
<1>6. \A i \in 1 .. n : i - 1 \in 0 .. n /\ f[i] = f[i - 1] \o p[i] /\ f[i - 1] \in Seq(S)
  <2> SUFFICES ASSUME NEW i \in 1 .. n
               PROVE  i - 1 \in 0 .. n /\ f[i] = f[i - 1] \o p[i] /\ f[i - 1] \in Seq(S)
    BY Zenon
  <2>. HIDE DEF step, n
  <2>1. i - 1 \in 0 .. n
    BY <1>1
  <2>2. f[i - 1] \in Seq(S)
    BY <1>5, <2>1, Zenon
  <2>. QED BY <1>2, <1>5, <2>1, <2>2, Zenon
<1>7. CASE n = 0
  <2>1. p = <<>>
    BY <1>7
  <2>2. FlattenSeq(p) = p
    BY <1>7, Zenon DEF FlattenSeq
  <2>. QED BY <1>5, <1>6, <1>7, <2>1, <2>2
<1>8. CASE n # 0
  <2>1. FlattenSeq(p) = (CHOOSE g : Run(g))[n]
    BY <1>8, Zenon DEF FlattenSeq
  <2>2. Run([i \in 1 .. n |-> f[i]])
    <3>1. \A i \in 1 .. n : f[i] = IF i = 1 THEN p[i] ELSE [j \in 1 .. n |-> f[j]][i - 1] \o p[i]
      <4> SUFFICES ASSUME NEW i \in 1 .. n
                   PROVE  f[i] = IF i = 1 THEN p[i] ELSE [j \in 1 .. n |-> f[j]][i - 1] \o p[i]
        OBVIOUS
      <4>1. CASE i = 1
        <5>1. <<>> \o p[i] = p[i]
          BY <1>1
        <5>2. f[i] = f[0] \o p[i]
          <6>1. i - 1 = 0
            BY <4>1
          <6>. QED BY <1>6, <6>1, Zenon
        <5>. QED BY <1>5, <4>1, <5>1, <5>2, Zenon
      <4>2. CASE i # 1
        <5>1. i - 1 \in 1 .. n
          BY <1>1, <4>2
        <5>. QED BY <1>6, <4>2, <5>1
      <4>. QED BY <4>1, <4>2
    <3>. QED BY <3>1
  <2>3. PICK g : Run(g) /\ FlattenSeq(p) = g[n]
    <3>. HIDE DEF Run
    <3>. QED BY <2>1, <2>2, Zenon
  <2>. DEFINE G == {i \in 0 .. n : i # 0 => g[i] = f[i]}
  <2>4. \A i \in 1 .. n : g[i] = IF i = 1 THEN p[i] ELSE g[i - 1] \o p[i]
    <3>. HIDE DEF n
    <3>. QED BY <2>3, Zenon
  <2>5. ASSUME NEW i \in 1 .. n, i - 1 \in G PROVE i \in G
    <3>1. CASE i = 1
      <4>1. <<>> \o p[i] = p[i]
        BY <1>1
      <4>2. i - 1 = 0 /\ i \in 0 .. n
        BY <1>1, <3>1
      <4>3. f[i] = f[0] \o p[i]
        BY <1>6, <4>2, Zenon
      <4>4. g[i] = p[i]
        BY <2>4, <3>1, Zenon
      <4>5. f[i] = p[i]
        BY <1>5, <4>1, <4>3, Zenon
      <4>. QED BY <4>2, <4>4, <4>5
    <3>2. CASE i # 1
      <4>1. i - 1 # 0 /\ i \in 0 .. n
        BY <1>1, <3>2
      <4>2. g[i] = g[i - 1] \o p[i]
        BY <2>4, <3>2, Zenon
      <4>. QED BY <1>6, <2>5, <4>1, <4>2, Zenon
    <3>. QED BY <3>1, <3>2
  <2>6. 0 .. n \subseteq G
    <3>1. 0 \in G
      BY <1>1
    <3>. HIDE DEF G, n
    <3>. QED BY <1>1, <2>5, <3>1, UpTo
  <2>7. g[n] = f[n]
    BY <1>1, <1>8, <2>6
  <2>. QED BY <1>5, <1>6, <2>3, <2>7
<1>. QED BY <1>7, <1>8

-----------------------------------------------------------------------------
(* Counting the steps of a draft. *)

\* Where a step occurs.
StepPlaces(s, a, t) == {i \in DOMAIN s : s[i] = DraftStep(a, t)}

LEMMA CountIs == \A s, a, t : CountOf(s, a, t) = Cardinality(StepPlaces(s, a, t))
<1>1. \A s, a, t : CountOf(s, a, t) = Cardinality(StepPlaces(s, a, t))
  BY DEF CountOf, StepPlaces
<1>. QED BY <1>1

LEMMA CountsAre ==
    ASSUME NEW S, NEW s \in Seq(S), NEW a, NEW t
    PROVE  CountOf(s, a, t) \in Nat /\ IsFiniteSet(StepPlaces(s, a, t))
<1>1. IsFiniteSet(1 .. Len(s)) /\ DOMAIN s = 1 .. Len(s)
  BY FS_Interval
<1>2. IsFiniteSet(StepPlaces(s, a, t))
  BY <1>1, FS_Subset DEF StepPlaces
<1>. QED BY <1>2, FS_CardinalityType, CountIs

LEMMA CountOnto ==
    ASSUME NEW S, NEW s \in Seq(S), NEW r \in Seq(S), NEW a, NEW t
    PROVE  CountOf(s \o r, a, t) = CountOf(s, a, t) + CountOf(r, a, t)
<1>. PICK x : x = DraftStep(a, t)
  OBVIOUS
<1>. PICK n \in Nat : n = Len(s)
  OBVIOUS
<1>. DEFINE P == {i \in DOMAIN s : s[i] = x}
            Q == {i \in DOMAIN r : r[i] = x}
            R == {i \in DOMAIN (s \o r) : (s \o r)[i] = x}
            T == {i + n : i \in Q}
<1>1. R = P \cup T /\ P \cap T = {}
  <2>1. DOMAIN s = 1 .. n /\ DOMAIN r = 1 .. Len(r) /\ DOMAIN (s \o r) = 1 .. n + Len(r) /\ Len(r) \in Nat
    OBVIOUS
  <2>2. \A i \in 1 .. n + Len(r) : (s \o r)[i] = IF i <= n THEN s[i] ELSE r[i - n]
    OBVIOUS
  <2>3. \A i \in R : i \in P \/ i \in T
    <3> SUFFICES ASSUME NEW i \in R, i > n PROVE i \in T
      BY <2>1, <2>2
    <3>1. i - n \in DOMAIN r /\ r[i - n] = x
      BY <2>1, <2>2
    <3>2. i = (i - n) + n
      BY <2>1
    <3>. QED BY <3>1, <3>2
  <2>4. \A i \in P : i \in R
    BY <2>1, <2>2
  <2>5. \A i \in T : i \in R /\ i \notin P
    <3> SUFFICES ASSUME NEW j \in Q PROVE j + n \in R /\ j + n \notin P
      OBVIOUS
    <3>1. j + n > n /\ j + n \in 1 .. n + Len(r) /\ (j + n) - n = j
      BY <2>1
    <3>. QED BY <2>1, <2>2, <3>1
  <2>. HIDE DEF P, R, T
  <2>. QED BY <2>3, <2>4, <2>5
<1>2. IsFiniteSet(P) /\ IsFiniteSet(Q)
  BY CountsAre DEF StepPlaces
<1>3. Cardinality(T) = Cardinality(Q) /\ IsFiniteSet(T)
  <2>. DEFINE f == [i \in Q |-> i + n]
  <2>1. \A i, j \in Q : i + n = j + n => i = j
    OBVIOUS
  <2>2. f \in Bijection(Q, T)
    <3>1. f \in [Q -> T] /\ \A i, j \in Q : f[i] = f[j] => i = j
      BY <2>1
    <3>2. \A y \in T : \E i \in Q : f[i] = y
      OBVIOUS
    <3>. HIDE DEF f, Q, T
    <3>. QED BY <3>1, <3>2 DEF Bijection, Injection, Surjection, IsInjective
  <2>. HIDE DEF f, Q, T
  <2>. QED BY <1>2, <2>2, FS_Bijection DEF ExistsBijection
<1>4. /\ CountOf(s \o r, a, t) = Cardinality(R)
      /\ CountOf(s, a, t) = Cardinality(P)
      /\ CountOf(r, a, t) = Cardinality(Q)
  BY CountIs, Zenon DEF StepPlaces
<1>. HIDE DEF P, Q, R, T
<1>5. Cardinality(R) = Cardinality(P) + Cardinality(T) - Cardinality(P \cap T)
  BY <1>1, <1>2, <1>3, FS_Union
<1>6. Cardinality(P \cap T) = 0
  BY <1>1, FS_EmptySet
<1>7. Cardinality(P) \in Nat /\ Cardinality(Q) \in Nat
  BY <1>2, FS_CardinalityType
<1>. QED BY ONLY <1>3, <1>4, <1>5, <1>6, <1>7

\* The same step, some times over.
LEMMA CountSame ==
    ASSUME NEW n \in Nat, NEW x, NEW a, NEW t
    PROVE  CountOf([i \in 1 .. n |-> x], a, t) = IF x = DraftStep(a, t) THEN n ELSE 0
<1>. DEFINE s == [i \in 1 .. n |-> x]
<1>1. StepPlaces(s, a, t) = IF x = DraftStep(a, t) THEN 1 .. n ELSE {}
  BY DEF StepPlaces
<1>2. Cardinality(1 .. n) = n /\ Cardinality({}) = 0
  BY FS_Interval, FS_EmptySet
<1>. QED BY <1>1, <1>2, CountIs

LEMMA CountNone == ASSUME NEW a, NEW t PROVE CountOf(<<>>, a, t) = 0
<1>1. StepPlaces(<<>>, a, t) = {}
  BY DEF StepPlaces
<1>. QED BY <1>1, FS_EmptySet, CountIs

LEMMA CountOne ==
    ASSUME NEW x, NEW a, NEW t
    PROVE  CountOf(<<x>>, a, t) = IF x = DraftStep(a, t) THEN 1 ELSE 0
<1>1. DOMAIN <<x>> = {1} /\ <<x>>[1] = x
  OBVIOUS
<1>2. StepPlaces(<<x>>, a, t) = IF x = DraftStep(a, t) THEN {1} ELSE {}
  BY <1>1 DEF StepPlaces
<1>. QED BY <1>2, FS_EmptySet, FS_Singleton, CountIs

LEMMA CountSum ==
    \A s, r \in Seq(DraftSteps) : \A a, t :
        s \o r \in Seq(DraftSteps) /\ CountOf(s \o r, a, t) = CountOf(s, a, t) + CountOf(r, a, t)
<1> SUFFICES ASSUME NEW s \in Seq(DraftSteps), NEW r \in Seq(DraftSteps), NEW a, NEW t
             PROVE  /\ s \o r \in Seq(DraftSteps)
                    /\ CountOf(s \o r, a, t) = CountOf(s, a, t) + CountOf(r, a, t)
  BY Zenon
<1>. QED BY CountOnto

-----------------------------------------------------------------------------
(* The orders of the three modes. *)

LEMMA StepIs ==
    /\ \A a, b, t, u : DraftStep(a, t) = DraftStep(b, u) <=> a = b /\ t = u
    /\ \A a \in {"BAN", "PICK"}, t \in Sides : DraftStep(a, t) \in DraftSteps
  BY DEF DraftStep, DraftSteps

LEMMA TeamsAre ==
    /\ Sides = {"red", "blue"}
    /\ \A t \in Sides : Opponent(t) \in Sides /\ Opponent(t) # t
                          /\ \A u \in Sides : u = t \/ u = Opponent(t)
  BY DEF Sides, Opponent

\* Each team once.
LEMMA TurnsCount ==
    ASSUME NEW a \in {"BAN", "PICK"}, NEW f \in Sides
    PROVE  /\ Turns(a, Order(f)) \in Seq(DraftSteps)
           /\ \A b \in {"BAN", "PICK"}, t \in Sides :
                CountOf(Turns(a, Order(f)), b, t) = IF b = a THEN 1 ELSE 0
<1>a. PICK x, y, g : x = DraftStep(a, f) /\ y = DraftStep(a, g) /\ g = Opponent(f)
  OBVIOUS
<1>1. g \in Sides /\ g # f /\ \A u \in Sides : u = f \/ u = g
  BY <1>a, TeamsAre
<1>2. x \in DraftSteps /\ y \in DraftSteps
  BY <1>1, <1>a, StepIs
<1>3. Turns(a, Order(f)) = <<x>> \o <<y>>
  BY <1>a DEF Turns, Order
<1>4. <<x>> \in Seq(DraftSteps) /\ <<y>> \in Seq(DraftSteps) /\ <<x>> \o <<y>> \in Seq(DraftSteps)
  BY <1>2
<1>5. ASSUME NEW b, NEW t \in Sides
      PROVE  CountOf(<<x>> \o <<y>>, b, t) = IF b = a THEN 1 ELSE 0
  <2>1. CountOf(<<x>> \o <<y>>, b, t) = CountOf(<<x>>, b, t) + CountOf(<<y>>, b, t)
    <3>1. PICK p, q : p = <<x>> /\ q = <<y>>
      OBVIOUS
    <3>2. p \in Seq(DraftSteps) /\ q \in Seq(DraftSteps)
      BY <1>4, <3>1, Zenon
    <3>3. CountOf(p \o q, b, t) = CountOf(p, b, t) + CountOf(q, b, t)
      BY ONLY <3>2, CountSum
    <3>. QED BY <3>1, <3>3, Zenon
  <2>2. /\ CountOf(<<x>>, b, t) = IF x = DraftStep(b, t) THEN 1 ELSE 0
        /\ CountOf(<<y>>, b, t) = IF y = DraftStep(b, t) THEN 1 ELSE 0
    BY CountOne
  <2>3. (x = DraftStep(b, t) <=> a = b /\ f = t) /\ (y = DraftStep(b, t) <=> a = b /\ g = t)
    BY <1>a, StepIs
  <2>. QED BY ONLY <1>1, <2>1, <2>2, <2>3, t \in Sides
<1>. QED BY <1>3, <1>4, <1>5

LEMMA MayPickCount ==
    ASSUME NEW size, NEW r, NEW u \in Sides
    PROVE  /\ MayPick(size, r, u) \in Seq(DraftSteps)
           /\ \A b \in {"BAN", "PICK"}, t \in Sides : CountOf(MayPick(size, r, u), b, t)
                                       = IF b = "PICK" /\ t = u /\ r < size[t] THEN 1 ELSE 0
<1>. PICK x : x = DraftStep("PICK", u)
  OBVIOUS
<1>1. x \in DraftSteps
  BY StepIs
<1>2. CASE r < size[u]
  <2>1. MayPick(size, r, u) = <<x>>
    BY <1>2 DEF MayPick
  <2>2. \A b \in {"BAN", "PICK"}, t \in Sides : x = DraftStep(b, t) <=> b = "PICK" /\ t = u
    BY StepIs
  <2>3. \A b, t : CountOf(<<x>>, b, t) = IF x = DraftStep(b, t) THEN 1 ELSE 0
    BY CountOne
  <2>4. <<x>> \in Seq(DraftSteps)
    BY <1>1
  <2>. QED BY <1>2, <2>1, <2>2, <2>3, <2>4
<1>3. CASE ~(r < size[u])
  <2>1. MayPick(size, r, u) = <<>>
    BY <1>3 DEF MayPick
  <2>. QED BY <1>3, <2>1, CountNone
<1>. QED BY <1>2, <1>3

\* A sequence that fits teams of some size.
Fitting(s, size) ==
    /\ s \in Seq(DraftSteps)
    /\ \A t \in Sides : CountOf(s, "PICK", t) = size[t]
    /\ CountOf(s, "BAN", "red") = CountOf(s, "BAN", "blue")

Sizes == [Sides -> Nat \ {0}]

LEMMA LargestIs ==
    ASSUME NEW size \in Sizes
    PROVE  Largest(size) \in Nat \ {0} /\ \A t \in Sides : size[t] <= Largest(size)
<1>. PICK a, b : a = size["red"] /\ b = size["blue"]
  OBVIOUS
<1>1. a \in Nat \ {0} /\ b \in Nat \ {0}
  BY TeamsAre DEF Sizes
<1>2. Largest(size) = Max({a, b})
  BY DEF Largest
<1>3. \E x \in {a, b} : \A y \in {a, b} : x >= y
  <2>1. a >= b \/ b >= a
    BY <1>1
  <2>. QED BY <1>1, <2>1
<1>4. Max({a, b}) \in {a, b} /\ Max({a, b}) >= a /\ Max({a, b}) >= b
  BY <1>3 DEF Max
<1>. QED BY <1>1, <1>2, <1>4, TeamsAre

LEMMA SequentialFits ==
    ASSUME NEW size \in Sizes, NEW first \in Sides
    PROVE  Fitting(Sequential(size, first), size)
<1>. PICK n : n = Largest(size)
  OBVIOUS
<1>. DEFINE p == [i \in 1 .. n |-> BanAndPick(size, first, i - 1)]
<1>1. n \in Nat /\ \A t \in Sides : size[t] <= n /\ size[t] \in Nat /\ size[t] # 0
  BY LargestIs DEF Sizes
<1>2. ASSUME NEW r
      PROVE  /\ BanAndPick(size, first, r) \in Seq(DraftSteps)
             /\ \A t \in Sides : /\ CountOf(BanAndPick(size, first, r), "BAN", t) = 1
                                   /\ CountOf(BanAndPick(size, first, r), "PICK", t)
                                        = IF r < size[t] THEN 1 ELSE 0
  <2>a. PICK f, u, v : /\ f = (IF r % 2 = 0 THEN first ELSE Opponent(first))
                       /\ u = (IF r = 0 THEN first ELSE Opponent(first)) /\ v = Opponent(u)
    OBVIOUS
  <2>b. PICK x, y, z : x = Turns("BAN", Order(f)) /\ y = MayPick(size, r, u) /\ z = MayPick(size, r, v)
    OBVIOUS
  <2>1. f \in Sides /\ u \in Sides /\ v \in Sides /\ u # v /\ \A t \in Sides : t = u \/ t = v
    BY <2>a, TeamsAre
  <2>2. BanAndPick(size, first, r) = (x \o y) \o z
    BY <2>a, <2>b DEF BanAndPick
  <2>3. x \in Seq(DraftSteps) /\ \A b \in {"BAN", "PICK"}, t \in Sides : CountOf(x, b, t) = IF b = "BAN" THEN 1 ELSE 0
    BY <2>1, <2>b, TurnsCount
  <2>4. /\ y \in Seq(DraftSteps) /\ z \in Seq(DraftSteps)
        /\ \A b \in {"BAN", "PICK"}, t \in Sides :
             /\ CountOf(y, b, t) = IF b = "PICK" /\ t = u /\ r < size[t] THEN 1 ELSE 0
             /\ CountOf(z, b, t) = IF b = "PICK" /\ t = v /\ r < size[t] THEN 1 ELSE 0
    BY <2>1, <2>b, MayPickCount
  <2>5. x \o y \in Seq(DraftSteps) /\ (x \o y) \o z \in Seq(DraftSteps)
    BY <2>3, <2>4
  <2>6. \A b, t : CountOf((x \o y) \o z, b, t) = (CountOf(x, b, t) + CountOf(y, b, t)) + CountOf(z, b, t)
    <3>1. \A b, t : CountOf(x \o y, b, t) = CountOf(x, b, t) + CountOf(y, b, t)
      BY <2>3, <2>4, CountSum
    <3>2. \A b, t : CountOf((x \o y) \o z, b, t) = CountOf(x \o y, b, t) + CountOf(z, b, t)
      <4>1. PICK w : w = x \o y
        OBVIOUS
      <4>2. w \in Seq(DraftSteps) /\ z \in Seq(DraftSteps)
        BY <2>4, <2>5, <4>1, Zenon
      <4>3. \A b, t : CountOf(w \o z, b, t) = CountOf(w, b, t) + CountOf(z, b, t)
        BY ONLY <4>2, CountSum
      <4>. QED BY <4>1, <4>3, Zenon
    <3>. QED BY <3>1, <3>2
  <2>7. ASSUME NEW t \in Sides
        PROVE  /\ CountOf((x \o y) \o z, "BAN", t) = 1
               /\ CountOf((x \o y) \o z, "PICK", t) = IF r < size[t] THEN 1 ELSE 0
    <3>1. CountOf(x, "BAN", t) = 1 /\ CountOf(y, "BAN", t) = 0 /\ CountOf(z, "BAN", t) = 0
      BY <2>3, <2>4
    <3>2. CountOf(x, "PICK", t) = 0
      BY <2>3
    <3>3. /\ CountOf(y, "PICK", t) = IF t = u /\ r < size[t] THEN 1 ELSE 0
          /\ CountOf(z, "PICK", t) = IF t = v /\ r < size[t] THEN 1 ELSE 0
      BY <2>4
    <3>4. (t = u /\ t # v) \/ (t = v /\ t # u)
      BY <2>1
    <3>. QED BY ONLY <2>6, <3>1, <3>2, <3>3, <3>4
  <2>. QED BY <2>2, <2>5, <2>7
<1>3. p \in Seq(Seq(DraftSteps)) /\ Len(p) = n
  BY <1>1, <1>2
<1>4. PICK f \in [0 .. n -> Seq(DraftSteps)] :
        /\ f[0] = <<>> /\ FlattenSeq(p) = f[n]
        /\ \A i \in 1 .. n : f[i] = f[i - 1] \o p[i]
  <2>. HIDE DEF p
  <2>1. \E f \in [0 .. Len(p) -> Seq(DraftSteps)] :
           /\ f[0] = <<>> /\ FlattenSeq(p) = f[Len(p)]
           /\ \A i \in 1 .. Len(p) : f[i] = f[i - 1] \o p[i]
    BY <1>3, Flattened
  <2>. QED BY <1>3, <2>1
<1>5. \A i \in 1 .. n : p[i] = BanAndPick(size, first, i - 1)
  OBVIOUS
<1>. HIDE DEF p
<1>. DEFINE G == {i \in 0 .. n : \A t \in Sides :
                     /\ CountOf(f[i], "BAN", t) = i
                     /\ CountOf(f[i], "PICK", t) = IF i <= size[t] THEN i ELSE size[t]}
<1>6. 0 \in G
  BY <1>1, <1>4, CountNone
<1>7. ASSUME NEW i \in 1 .. n, i - 1 \in G PROVE i \in G
  <2>. PICK q, w : q = f[i - 1] /\ w = p[i]
    OBVIOUS
  <2>1. q \in Seq(DraftSteps) /\ w \in Seq(DraftSteps) /\ f[i] = q \o w
    <3>1. i - 1 \in 0 .. n
      BY <1>1
    <3>2. q \in Seq(DraftSteps)
      BY <1>4, <3>1, Zenon
    <3>3. w \in Seq(DraftSteps)
      BY <1>2, <1>5
    <3>. QED BY <1>4, <3>2, <3>3
  <2>2. \A t \in Sides : /\ CountOf(q, "BAN", t) = i - 1
                           /\ CountOf(q, "PICK", t) = IF i - 1 <= size[t] THEN i - 1 ELSE size[t]
    BY <1>7
  <2>3. \A t \in Sides : /\ CountOf(w, "BAN", t) = 1
                           /\ CountOf(w, "PICK", t) = IF i - 1 < size[t] THEN 1 ELSE 0
    BY <1>2, <1>5
  <2>4. \A b, t : CountOf(q \o w, b, t) = CountOf(q, b, t) + CountOf(w, b, t)
    BY <2>1, CountSum
  <2>5. ASSUME NEW t \in Sides
        PROVE  /\ CountOf(f[i], "BAN", t) = i
               /\ CountOf(f[i], "PICK", t) = IF i <= size[t] THEN i ELSE size[t]
    <3>1. CountOf(q \o w, "BAN", t) = (i - 1) + 1
      BY <2>2, <2>3, <2>4
    <3>2. CountOf(q \o w, "PICK", t) = (IF i - 1 <= size[t] THEN i - 1 ELSE size[t])
                                          + IF i - 1 < size[t] THEN 1 ELSE 0
      BY <2>2, <2>3, <2>4
    <3>3. size[t] \in Nat /\ i \in Nat
      BY <1>1
    <3>. QED BY ONLY <2>1, <3>1, <3>2, <3>3
  <2>. QED BY <1>1, <2>5
<1>8. n \in G
  <2>1. 0 .. n \subseteq G
    <3>. HIDE DEF G
    <3>. QED BY <1>1, <1>6, <1>7, UpTo
  <2>. QED BY <1>1, <2>1
<1>9. \A t \in Sides : CountOf(f[n], "PICK", t) = size[t] /\ CountOf(f[n], "BAN", t) = n
  BY <1>1, <1>8
<1>10. Sequential(size, first) = f[n]
  BY <1>4 DEF Sequential, p
<1>11. f[n] \in Seq(DraftSteps)
  BY <1>1, <1>4
<1>. QED BY <1>9, <1>10, <1>11, TeamsAre DEF Fitting

\* Everyone bans and picks once a round.
LEMMA ChaosCounts ==
    ASSUME NEW size \in Sizes, NEW first \in Sides, size["red"] = size["blue"]
    PROVE  Fitting(Chaos(size, first), size)
<1>. PICK n : n = size["red"]
  OBVIOUS
<1>. DEFINE p == [i \in 1 .. n |-> ChaosRound(first, ChaosOpens[i])]
<1>1. n \in Nat /\ \A t \in Sides : size[t] = n
  BY TeamsAre DEF Sizes
<1>2. ASSUME NEW o
      PROVE  /\ ChaosRound(first, o) \in Seq(DraftSteps)
             /\ \A b \in {"BAN", "PICK"}, t \in Sides : CountOf(ChaosRound(first, o), b, t) = 1
  <2>a. PICK f, u : /\ f = (IF o[1] THEN first ELSE Opponent(first))
                    /\ u = (IF o[2] THEN first ELSE Opponent(first))
    OBVIOUS
  <2>b. PICK x, y : x = Turns("BAN", Order(f)) /\ y = Turns("PICK", Order(u))
    OBVIOUS
  <2>1. f \in Sides /\ u \in Sides
    BY <2>a, TeamsAre
  <2>2. ChaosRound(first, o) = x \o y
    BY <2>a, <2>b, Zenon DEF ChaosRound
  <2>3. /\ x \in Seq(DraftSteps) /\ y \in Seq(DraftSteps)
        /\ \A b \in {"BAN", "PICK"}, t \in Sides :
             /\ CountOf(x, b, t) = IF b = "BAN" THEN 1 ELSE 0
             /\ CountOf(y, b, t) = IF b = "PICK" THEN 1 ELSE 0
    BY <2>1, <2>b, TurnsCount
  <2>4. /\ x \o y \in Seq(DraftSteps)
        /\ \A b, t : CountOf(x \o y, b, t) = CountOf(x, b, t) + CountOf(y, b, t)
    <3>1. x \in Seq(DraftSteps) /\ y \in Seq(DraftSteps)
      BY <2>3
    <3>. QED BY ONLY <3>1, CountSum
  <2>5. ASSUME NEW b \in {"BAN", "PICK"}, NEW t \in Sides
        PROVE  CountOf(x \o y, b, t) = 1
    <3>1. /\ CountOf(x, b, t) = IF b = "BAN" THEN 1 ELSE 0
          /\ CountOf(y, b, t) = IF b = "PICK" THEN 1 ELSE 0
      BY <2>3
    <3>2. b = "BAN" \/ b = "PICK"
      OBVIOUS
    <3>. QED BY ONLY <2>4, <3>1, <3>2
  <2>. QED BY <2>2, <2>4, <2>5
<1>3. p \in Seq(Seq(DraftSteps)) /\ Len(p) = n
  BY <1>1, <1>2
<1>4. PICK f \in [0 .. n -> Seq(DraftSteps)] :
        /\ f[0] = <<>> /\ FlattenSeq(p) = f[n]
        /\ \A i \in 1 .. n : f[i] = f[i - 1] \o p[i]
  <2>. HIDE DEF p
  <2>1. \E f \in [0 .. Len(p) -> Seq(DraftSteps)] :
           /\ f[0] = <<>> /\ FlattenSeq(p) = f[Len(p)]
           /\ \A i \in 1 .. Len(p) : f[i] = f[i - 1] \o p[i]
    BY <1>3, Flattened
  <2>. QED BY <1>3, <2>1
<1>5. \A i \in 1 .. n : p[i] = ChaosRound(first, ChaosOpens[i])
  OBVIOUS
<1>. HIDE DEF p
<1>. DEFINE G == {i \in 0 .. n : \A b \in {"BAN", "PICK"}, t \in Sides : CountOf(f[i], b, t) = i}
<1>6. 0 \in G
  BY <1>1, <1>4, CountNone
<1>7. ASSUME NEW i \in 1 .. n, i - 1 \in G PROVE i \in G
  <2>. PICK q, w : q = f[i - 1] /\ w = p[i]
    OBVIOUS
  <2>1. q \in Seq(DraftSteps) /\ w \in Seq(DraftSteps) /\ f[i] = q \o w
    <3>1. i - 1 \in 0 .. n
      BY <1>1
    <3>2. q \in Seq(DraftSteps)
      BY <1>4, <3>1, Zenon
    <3>3. w \in Seq(DraftSteps)
      BY <1>2, <1>5
    <3>. QED BY <1>4, <3>2, <3>3
  <2>2. \A b \in {"BAN", "PICK"}, t \in Sides : CountOf(q, b, t) = i - 1 /\ CountOf(w, b, t) = 1
    BY <1>2, <1>5, <1>7
  <2>3. \A b, t : CountOf(q \o w, b, t) = CountOf(q, b, t) + CountOf(w, b, t)
    BY <2>1, CountSum
  <2>4. ASSUME NEW b \in {"BAN", "PICK"}, NEW t \in Sides PROVE CountOf(f[i], b, t) = i
    <3>1. CountOf(q \o w, b, t) = (i - 1) + 1
      BY <2>2, <2>3
    <3>2. i \in Nat
      BY <1>1
    <3>. QED BY ONLY <2>1, <3>1, <3>2
  <2>. QED BY <1>1, <2>4
<1>8. n \in G
  <2>1. 0 .. n \subseteq G
    <3>. HIDE DEF G
    <3>. QED BY <1>1, <1>6, <1>7, UpTo
  <2>. QED BY <1>1, <2>1
<1>9. \A b \in {"BAN", "PICK"}, t \in Sides : CountOf(f[n], b, t) = n
  BY <1>1, <1>8
<1>10. Chaos(size, first) = f[n]
  BY <1>4 DEF Chaos, p
<1>11. f[n] \in Seq(DraftSteps)
  BY <1>1, <1>4
<1>. QED BY <1>1, <1>9, <1>10, <1>11, TeamsAre DEF Fitting

\* Orders without bans and with no more picks than the teams have players.
Partial(size) == {s \in Seq(DraftSteps) : \A t \in Sides : /\ CountOf(s, "BAN", t) = 0
                                                            /\ CountOf(s, "PICK", t) <= size[t]}

Picking(first, k) == IF k % 2 = 1 THEN first ELSE Opponent(first)

LEMMA PickingIs ==
    ASSUME NEW first \in Sides, NEW k \in Nat \ {0}
    PROVE  /\ Picking(first, k) \in Sides
           /\ Picking(first, k - 1) = Opponent(Picking(first, k))
<1>1. (k % 2 = 1 /\ (k - 1) % 2 = 0) \/ (k % 2 = 0 /\ (k - 1) % 2 = 1)
  OBVIOUS
<1>2. Opponent(Opponent(first)) = first /\ Opponent(first) \in Sides
  BY DEF Opponent, Sides
<1>. QED BY <1>1, <1>2 DEF Picking

LEMMA ExtendCount ==
    ASSUME NEW size \in Sizes, NEW first \in Sides, NEW k \in Nat \ {0}, NEW v \in Partial(size)
    PROVE  /\ Extend(size, first, k, v) \in Partial(size)
           /\ \A t \in Sides :
                CountOf(Extend(size, first, k, v), "PICK", t)
                  = IF t # Picking(first, k) THEN CountOf(v, "PICK", t)
                    ELSE IF CountOf(v, "PICK", t) + (IF k = 1 THEN 1 ELSE 2) <= size[t]
                         THEN CountOf(v, "PICK", t) + (IF k = 1 THEN 1 ELSE 2)
                         ELSE size[t]
<1>a. PICK u, c, a : u = Picking(first, k) /\ c = CountOf(v, "PICK", u) /\ a = (IF k = 1 THEN 1 ELSE 2)
  OBVIOUS
<1>b. PICK n : n = Min({a, size[u] - c})
  OBVIOUS
<1>c. PICK x, w : x = DraftStep("PICK", u) /\ w = [i \in 1 .. n |-> x]
  OBVIOUS
<1>1. u \in Sides /\ size[u] \in Nat /\ v \in Seq(DraftSteps)
  BY <1>a, PickingIs DEF Sizes, Partial
<1>2. c \in Nat /\ c <= size[u] /\ a \in Nat
  BY <1>1, <1>a, CountsAre DEF Partial
<1>3. n = IF a <= size[u] - c THEN a ELSE size[u] - c
  <2>1. \E m \in {a, size[u] - c} : \A y \in {a, size[u] - c} : m <= y
    <3>1. a <= size[u] - c \/ size[u] - c <= a
      BY <1>1, <1>2
    <3>. QED BY <1>1, <1>2, <3>1
  <2>2. n \in {a, size[u] - c} /\ n <= a /\ n <= size[u] - c
    BY <1>b, <2>1 DEF Min
  <2>. QED BY <1>1, <1>2, <2>2
<1>4. Extend(size, first, k, v) = v \o w
  BY <1>a, <1>b, <1>c DEF Extend, Picking
<1>5. n \in Nat
  BY <1>1, <1>2, <1>3
<1>6. x \in DraftSteps /\ \A b \in {"BAN", "PICK"}, t \in Sides : x = DraftStep(b, t) <=> b = "PICK" /\ t = u
  BY <1>1, <1>c, StepIs
<1>7. w \in Seq(DraftSteps)
  BY <1>5, <1>6, <1>c
<1>8. \A b \in {"BAN", "PICK"}, t \in Sides : CountOf(w, b, t) = IF b = "PICK" /\ t = u THEN n ELSE 0
  <2>1. \A b, t : CountOf([i \in 1 .. n |-> x], b, t) = IF x = DraftStep(b, t) THEN n ELSE 0
    BY <1>5, CountSame
  <2>2. \A b, t : CountOf(w, b, t) = IF x = DraftStep(b, t) THEN n ELSE 0
    BY <1>c, <2>1, Zenon
  <2>. QED BY <1>6, <2>2
<1>9. /\ v \o w \in Seq(DraftSteps)
      /\ \A b, t : CountOf(v \o w, b, t) = CountOf(v, b, t) + CountOf(w, b, t)
  BY ONLY <1>1, <1>7, CountSum
<1>10. ASSUME NEW t \in Sides
       PROVE  /\ CountOf(v \o w, "BAN", t) = 0
              /\ CountOf(v \o w, "PICK", t) <= size[t]
              /\ CountOf(v \o w, "PICK", t)
                   = IF t # u THEN CountOf(v, "PICK", t)
                     ELSE IF CountOf(v, "PICK", t) + a <= size[t] THEN CountOf(v, "PICK", t) + a
                     ELSE size[t]
  <2>. PICK d, e : d = CountOf(v, "PICK", t) /\ e = size[t]
    OBVIOUS
  <2>1. CountOf(v, "BAN", t) = 0 /\ d \in Nat /\ d <= e /\ e \in Nat
    BY <1>1, CountsAre DEF Partial, Sizes
  <2>2. CountOf(w, "BAN", t) = 0 /\ CountOf(w, "PICK", t) = IF t = u THEN n ELSE 0
    BY <1>8
  <2>3. t = u => d = c /\ e = size[u]
    BY <1>a
  <2>. QED BY <1>2, <1>3, <1>5, <1>9, <2>1, <2>2, <2>3
<1>. QED BY <1>4, <1>9, <1>10, <1>a DEF Partial

\* A team of a full order has all its picks.
LEMMA SnakeCounts ==
    ASSUME NEW size \in Sizes, NEW first \in Sides
    PROVE  Fitting(Snake(size, first), size)
<1>. PICK l, n : l = Largest(size) /\ n = 2 * l
  OBVIOUS
<1>. DEFINE V == Partial(size)
            Next_(k, v) == Extend(size, first, k, v)
            step == [x \in (1 .. n) \X V |-> Next_(x[1], x[2])]
            Run(f) == f = [k \in 0 .. n |-> IF k = 0 THEN <<>> ELSE Next_(k, f[k - 1])]
            Picked(f, k, t) == CountOf(f[k], "PICK", t)
            Done(f, k, t, m) == Picked(f, k, t) = size[t] \/ Picked(f, k, t) >= m
<1>1. l \in Nat \ {0} /\ n \in Nat /\ n = 2 * l /\ \A t \in Sides : size[t] \in Nat /\ size[t] <= l
  BY LargestIs DEF Sizes
<1>2. <<>> \in V
  BY <1>1, CountNone DEF Partial
<1>3. \A k \in 1 .. n, v \in V : Next_(k, v) \in V
  <2> SUFFICES ASSUME NEW k \in 1 .. n, NEW v \in V PROVE Next_(k, v) \in V
    BY Zenon
  <2>1. k \in Nat \ {0} /\ v \in Partial(size)
    BY <1>1
  <2>. QED BY <2>1, ExtendCount
<1>. HIDE DEF V, Next_
<1>4. \A k \in 1 .. n, v \in V : step[<<k, v>>] = Next_(k, v)
  OBVIOUS
<1>. HIDE DEF step
<1>5. \E f : Runs(f, V, <<>>, step, n)
  <2>1. \A k \in 1 .. n, v \in V : step[<<k, v>>] \in V
    BY <1>3, <1>4
  <2>. QED BY <1>1, <1>2, <2>1, Recursion, Zenon
<1>6. PICK f : f \in [0 .. n -> V] /\ f[0] = <<>> /\ \A k \in 1 .. n : f[k] = step[<<k, f[k - 1]>>]
  BY <1>5 DEF Runs
<1>7. Run(f)
  <2>1. \A k \in 1 .. n : k - 1 \in 0 .. n
    BY <1>1
  <2>2. \A k \in 0 .. n : f[k] = IF k = 0 THEN <<>> ELSE Next_(k, f[k - 1])
    <3> SUFFICES ASSUME NEW k \in 0 .. n, k # 0 PROVE f[k] = Next_(k, f[k - 1])
      BY <1>6
    <3>1. k \in 1 .. n
      BY <1>1
    <3>2. f[k - 1] \in V
      BY <1>6, <2>1, <3>1
    <3>. QED BY <1>4, <1>6, <3>1, <3>2
  <2>. QED BY <1>6, <2>2
<1>8. PICK g : g = (CHOOSE h : Run(h))
  OBVIOUS
<1>9. Run(g)
  <2>. HIDE DEF Run
  <2>. QED BY <1>7, <1>8, Zenon
<1>10. Snake(size, first) = g[n]
  BY <1>1, <1>8, Zenon DEF Snake, Next_
<1>11. g[0] = <<>> /\ \A k \in 1 .. n : g[k] = Next_(k, g[k - 1])
  <2>1. 0 \in 0 .. n /\ \A k \in 1 .. n : k \in 0 .. n /\ k # 0
    BY <1>1
  <2>. QED BY <1>9, <2>1
<1>. HIDE DEF Run
<1>. DEFINE G == {k \in 0 .. n : /\ g[k] \in V
                                /\ Done(g, k, Picking(first, k), k)
                                /\ Done(g, k, Opponent(Picking(first, k)), k - 1)}
<1>12. 0 \in G
  <2>1. \A t \in Sides : Picked(g, 0, t) = 0
    BY <1>11, CountNone
  <2>2. Picking(first, 0) \in Sides /\ Opponent(Picking(first, 0)) \in Sides
    BY TeamsAre DEF Picking
  <2>. QED BY <1>1, <1>2, <1>11, <2>1, <2>2
<1>13. ASSUME NEW k \in 1 .. n, k - 1 \in G PROVE k \in G
  <2>1. k \in Nat \ {0} /\ k \in 0 .. n
    BY <1>1
  <2>2. PICK u, v : u = Picking(first, k) /\ v = Opponent(u)
    OBVIOUS
  <2>3. /\ u \in Sides /\ v \in Sides /\ u # v /\ Picking(first, k - 1) = v /\ Opponent(v) = u
    <3>1. u \in Sides /\ Picking(first, k - 1) = v
      BY <2>1, <2>2, PickingIs
    <3>. QED BY <2>2, <3>1 DEF Sides, Opponent
  <2>4. g[k - 1] \in V /\ Done(g, k - 1, v, k - 1) /\ Done(g, k - 1, u, (k - 1) - 1)
    BY <1>13, <2>3
  <2>5. g[k] \in V /\ \A t \in Sides :
           Picked(g, k, t) = IF t # u THEN Picked(g, k - 1, t)
                            ELSE IF Picked(g, k - 1, t) + (IF k = 1 THEN 1 ELSE 2) <= size[t]
                                 THEN Picked(g, k - 1, t) + (IF k = 1 THEN 1 ELSE 2)
                                 ELSE size[t]
    <3>1. g[k - 1] \in Partial(size) /\ g[k] = Extend(size, first, k, g[k - 1])
      BY <1>11, <2>4 DEF V, Next_
    <3>2. PICK y : y = g[k - 1]
      OBVIOUS
    <3>3. y \in Partial(size) /\ g[k] = Extend(size, first, k, y)
      BY <3>1, <3>2, Zenon
    <3>4. /\ Extend(size, first, k, y) \in Partial(size)
          /\ \A t \in Sides :
               CountOf(Extend(size, first, k, y), "PICK", t)
                 = IF t # Picking(first, k) THEN CountOf(y, "PICK", t)
                   ELSE IF CountOf(y, "PICK", t) + (IF k = 1 THEN 1 ELSE 2) <= size[t]
                        THEN CountOf(y, "PICK", t) + (IF k = 1 THEN 1 ELSE 2)
                        ELSE size[t]
      BY <2>1, <3>3, ExtendCount
    <3>. QED BY <2>2, <3>2, <3>3, <3>4, Zenon DEF V
  <2>6. Picked(g, k - 1, u) \in Nat /\ Picked(g, k - 1, v) \in Nat /\ size[u] \in Nat
    <3>1. g[k - 1] \in Seq(DraftSteps)
      BY <2>4 DEF V, Partial
    <3>. QED BY <1>1, <2>3, <3>1, CountsAre
  <2>7. k = 1 => Picked(g, k - 1, u) = 0
    <3>1. k = 1 => g[k - 1] = <<>>
      BY <1>11
    <3>. QED BY <3>1, CountNone
  <2>8. Done(g, k, u, k)
    <3>. PICK c, d, z : c = Picked(g, k - 1, u) /\ d = Picked(g, k, u) /\ z = size[u]
      OBVIOUS
    <3>1. /\ c \in Nat /\ z \in Nat /\ (c = z \/ c >= (k - 1) - 1) /\ (k = 1 => c = 0)
          /\ d = IF c + (IF k = 1 THEN 1 ELSE 2) <= z THEN c + (IF k = 1 THEN 1 ELSE 2) ELSE z
      BY <2>3, <2>4, <2>5, <2>6, <2>7
    <3>2. d = z \/ d >= k
      BY ONLY <2>1, <3>1
    <3>. QED BY <3>2
  <2>9. Done(g, k, v, k - 1)
    BY <2>3, <2>4, <2>5
  <2>. QED BY <2>1, <2>2, <2>5, <2>8, <2>9
<1>14. n \in G
  <2>1. 0 .. n \subseteq G
    <3>. HIDE DEF G
    <3>. QED BY <1>1, <1>12, <1>13, UpTo
  <2>. QED BY <1>1, <2>1
<1>15. g[n] \in Partial(size)
  BY <1>14 DEF V
<1>16. ASSUME NEW t \in Sides PROVE CountOf(g[n], "PICK", t) = size[t]
  <2>1. Picked(g, n, t) = size[t] \/ Picked(g, n, t) >= n - 1
    <3>1. Picking(first, n) \in Sides
      BY TeamsAre DEF Picking
    <3>2. t = Picking(first, n) \/ t = Opponent(Picking(first, n))
      BY <3>1, TeamsAre
    <3>3. CASE t = Picking(first, n)
      <4>1. Done(g, n, t, n)
        BY <1>14, <3>3
      <4>2. Picked(g, n, t) \in Nat
        BY <1>15, CountsAre DEF Partial
      <4>. QED BY <1>1, <4>1, <4>2
    <3>4. CASE t = Opponent(Picking(first, n))
      BY <1>14, <3>4
    <3>. QED BY <3>2, <3>3, <3>4
  <2>2. Picked(g, n, t) \in Nat /\ Picked(g, n, t) <= size[t]
    BY <1>15, CountsAre DEF Partial
  <2>. QED BY <1>1, <2>1, <2>2
<1>. QED BY <1>10, <1>15, <1>16, TeamsAre DEF Fitting, Partial

\* The order of every mode gives each team a pick for each of its players, and
\* as many bans as the other.
LEMMA OrderFits ==
    ASSUME NEW mode \in Modes, NEW size \in Sizes, NEW first \in Sides,
           mode = "chaos" => ChaosFits(size)
    PROVE  Fitting(BuildSequence(mode, size, first), size)
<1>1. CASE mode = "sequential_ban_pick"
  BY <1>1, SequentialFits DEF BuildSequence
<1>2. CASE mode = "simple_draft"
  BY <1>2, SnakeCounts DEF BuildSequence
<1>3. CASE mode = "chaos"
  BY <1>3, ChaosCounts DEF BuildSequence, ChaosFits
<1>. QED BY <1>1, <1>2, <1>3 DEF Modes

-----------------------------------------------------------------------------
(* What is left of an order. *)

ToCome(s, i, a, t) == CountOf(SubSeq(s, i + 1, Len(s)), a, t)

LEMMA RestIs ==
    ASSUME NEW s \in Seq(DraftSteps)
    PROVE  /\ \A i \in 0 .. Len(s) : \A a, t : ToCome(s, i, a, t) \in Nat
           /\ \A a, t : ToCome(s, 0, a, t) = CountOf(s, a, t)
           /\ \A a, t : ToCome(s, Len(s), a, t) = 0
           /\ \A i \in 0 .. Len(s) - 1 : \A a, t :
                ToCome(s, i, a, t) = ToCome(s, i + 1, a, t) + IF s[i + 1] = DraftStep(a, t) THEN 1 ELSE 0
<1>0. Len(s) \in Nat
  OBVIOUS
<1>1. \A i \in 0 .. Len(s) : SubSeq(s, i + 1, Len(s)) \in Seq(DraftSteps)
  <2> SUFFICES ASSUME NEW i \in 0 .. Len(s) PROVE SubSeq(s, i + 1, Len(s)) \in Seq(DraftSteps)
    OBVIOUS
  <2>1. \A j \in i + 1 .. Len(s) : s[j] \in DraftSteps
    OBVIOUS
  <2>. QED BY <1>0, <2>1, SubSeqProperties
<1>2. \A a, t : ToCome(s, 0, a, t) = CountOf(s, a, t)
  <2>1. SubSeq(s, 0 + 1, Len(s)) = s
    <3>1. SubSeq(s, 1, Len(s)) = s
      BY SubSeqFull
    <3>. QED BY <3>1
  <2>. QED BY <2>1, Zenon DEF ToCome
<1>3. \A a, t : ToCome(s, Len(s), a, t) = 0
  <2>1. SubSeq(s, Len(s) + 1, Len(s)) = <<>>
    BY <1>0, SubSeqEmpty
  <2>2. \A a, t : CountOf(<<>>, a, t) = 0
    BY CountNone
  <2>. QED BY <2>1, <2>2, Zenon DEF ToCome
<1>4. ASSUME NEW i \in 0 .. Len(s) - 1, NEW a, NEW t
      PROVE  ToCome(s, i, a, t) = ToCome(s, i + 1, a, t) + IF s[i + 1] = DraftStep(a, t) THEN 1 ELSE 0
  <2>1. PICK x, p, q : x = s[i + 1] /\ p = <<x>> /\ q = SubSeq(s, (i + 1) + 1, Len(s))
    OBVIOUS
  <2>2. i + 1 \in 1 .. Len(s) /\ Len(s) \in i + 1 .. Len(s) /\ i + 1 \in 0 .. Len(s)
    BY <1>0
  <2>3. SubSeq(s, i + 1, Len(s)) = <<s[i + 1]>> \o SubSeq(s, (i + 1) + 1, Len(s))
    BY <2>2, SubSeqRecursiveFirst
  <2>4. p \in Seq(DraftSteps) /\ q \in Seq(DraftSteps)
    <3>1. x \in DraftSteps
      BY <2>1, <2>2
    <3>2. q \in Seq(DraftSteps)
      BY <1>1, <2>1, <2>2, Zenon
    <3>. QED BY <2>1, <3>1, <3>2
  <2>5. CountOf(p \o q, a, t) = CountOf(p, a, t) + CountOf(q, a, t)
    BY ONLY <2>4, CountSum
  <2>6. CountOf(<<x>>, a, t) = IF x = DraftStep(a, t) THEN 1 ELSE 0
    BY CountOne
  <2>7. ToCome(s, i, a, t) = CountOf(p \o q, a, t) /\ ToCome(s, i + 1, a, t) = CountOf(q, a, t)
    BY <2>1, <2>3, Zenon DEF ToCome
  <2>8. CountOf(p, a, t) = IF s[i + 1] = DraftStep(a, t) THEN 1 ELSE 0
    BY <2>1, <2>6, Zenon
  <2>9. CountOf(q, a, t) \in Nat
    BY <2>4, CountsAre
  <2>. QED BY ONLY <2>5, <2>7, <2>8, <2>9
<1>5. \A i \in 0 .. Len(s) : \A a, t : ToCome(s, i, a, t) \in Nat
  <2> SUFFICES ASSUME NEW i \in 0 .. Len(s), NEW a, NEW t PROVE ToCome(s, i, a, t) \in Nat
    OBVIOUS
  <2>1. PICK q : q = SubSeq(s, i + 1, Len(s))
    OBVIOUS
  <2>2. q \in Seq(DraftSteps)
    BY <1>1, <2>1, Zenon
  <2>3. CountOf(q, a, t) \in Nat
    BY <2>2, CountsAre
  <2>. QED BY <2>1, <2>3, Zenon DEF ToCome
<1>. QED BY <1>2, <1>3, <1>4, <1>5

-----------------------------------------------------------------------------
(* The invariant of a draft. *)

DraftTypeOK ==
    /\ status \in {"LOBBY", "DRAFTING", "CLAIMING", "COMPLETE"}
    /\ settings \in Settings
    /\ \E k \in 1 .. MaxPlayers : joined = 1 .. k
    /\ team \in [Players -> Sides \cup {"none"}]
    /\ captain \subseteq joined
    /\ pool \subseteq AllHeroes
    /\ sequence \in Seq(DraftSteps) /\ index \in 0 .. Len(sequence)
    /\ bans \in [Sides -> SUBSET pool] /\ picks \in [Sides -> SUBSET pool]
    /\ claim \in [Players -> AllHeroes \cup {NoHero}]

\* A team has at most one captain, and one from the start of the draft on.
OneCaptain ==
    /\ \A p \in captain : team[p] # "none"
    /\ \A p, q \in captain : team[p] = team[q] => p = q
    /\ status # "LOBBY" => \A t \in Sides : \E p \in captain : team[p] = t

\* Nothing is taken in the lobby, nothing claimed before the last pick.
InTurn ==
    /\ status = "LOBBY" => bans = Nothing /\ picks = Nothing
    /\ status \in {"LOBBY", "DRAFTING"} => \A p \in Players : claim[p] = NoHero
    /\ status = "DRAFTING" => index < Len(sequence)
    /\ status \in {"CLAIMING", "COMPLETE"} => index = Len(sequence)

\* What a player claimed is a pick of the own team that nobody else claimed.
OwnHeroes ==
    /\ picks["red"] \cap picks["blue"] = {}
    /\ \A p \in Players : claim[p] # NoHero => p \in Participants /\ claim[p] \in picks[team[p]]
    /\ \A p, q \in Players : claim[p] # NoHero /\ claim[p] = claim[q] => p = q
    /\ status = "COMPLETE" => \A p \in Participants : claim[p] # NoHero

DraftInv == DraftTypeOK /\ OneCaptain /\ InTurn /\ OwnHeroes /\ DraftFits

\* A lobby is a finite set of players, and a pool one of heroes.
LEMMA DraftSets ==
    ASSUME DraftTypeOK
    PROVE  /\ joined \in SUBSET Nat /\ joined \subseteq Players /\ IsFiniteSet(joined)
           /\ \A t, m : /\ Members(t, m) \subseteq joined /\ IsFiniteSet(Members(t, m))
                        /\ Cardinality(Members(t, m)) \in Nat
           /\ IsFiniteSet(pool)
           /\ \A S \in SUBSET pool : IsFiniteSet(S) /\ Cardinality(S) \in Nat
<1>1. MaxPlayers \in Nat
  BY DraftAssumption
<1>2. PICK k \in 1 .. MaxPlayers : joined = 1 .. k
  BY DEF DraftTypeOK
<1>3. joined \in SUBSET Nat /\ joined \subseteq Players
  BY <1>1, <1>2 DEF Players
<1>4. IsFiniteSet(joined)
  BY <1>1, <1>2, FS_Interval
<1>5. \A t, m : Members(t, m) \in SUBSET joined
  BY DEF Members
<1>6. \A S \in SUBSET joined : IsFiniteSet(S) /\ Cardinality(S) \in Nat
  BY <1>4, FS_Subset, FS_CardinalityType
<1>7. IsFiniteSet(AllHeroes)
  BY DraftAssumption DEF AllHeroes
<1>8. IsFiniteSet(pool)
  BY <1>7, FS_Subset DEF DraftTypeOK
<1>9. \A S \in SUBSET pool : IsFiniteSet(S) /\ Cardinality(S) \in Nat
  BY <1>8, FS_Subset, FS_CardinalityType
<1>. QED BY <1>3, <1>4, <1>5, <1>6, <1>8, <1>9

\* _ensure_captains leaves a team at most one, of its members.
LEMMA CaptainsAre ==
    ASSUME joined \in SUBSET Nat, NEW m, NEW c
    PROVE  /\ \A p \in Captains(m, c) : p \in joined /\ m[p] \in Sides
           /\ \A p, q \in Captains(m, c) : m[p] = m[q] => p = q
<1>. DEFINE Kept(t) == IF c \cap Members(t, m) # {} THEN c \cap Members(t, m) ELSE Members(t, m)
<1>1. Captains(m, c) = {Min(Kept(t)) : t \in {t \in Sides : Members(t, m) # {}}}
  BY DEF Captains
<1>2. ASSUME NEW t \in Sides, Members(t, m) # {}
      PROVE  Min(Kept(t)) \in joined /\ m[Min(Kept(t))] = t
  <2>1. Kept(t) \in SUBSET Members(t, m) /\ Kept(t) # {}
    BY <1>2
  <2>2. Members(t, m) \in SUBSET joined /\ \A p \in Members(t, m) : m[p] = t
    BY DEF Members
  <2>. HIDE DEF Kept
  <2>3. \E x \in Kept(t) : \A y \in Kept(t) : x <= y
    BY <2>1, <2>2, Least
  <2>4. Min(Kept(t)) \in Kept(t)
    BY <2>3 DEF Min
  <2>. QED BY <2>1, <2>2, <2>4
<1>. HIDE DEF Kept
<1>3. \A p \in Captains(m, c) : \E t \in Sides : Members(t, m) # {} /\ p = Min(Kept(t))
  BY <1>1
<1>4. \A p \in Captains(m, c) : p \in joined /\ m[p] \in Sides /\ p = Min(Kept(m[p]))
  BY <1>2, <1>3
<1>. QED BY <1>4

LEMMA DraftStarts == DraftInit => DraftInv
<1>. SUFFICES ASSUME DraftInit PROVE DraftInv
  OBVIOUS
<1>1. MaxPlayers \in Nat \ {0}
  BY DraftAssumption
<1>2. /\ status = "LOBBY" /\ settings \in Settings
      /\ joined = {1} /\ team = [p \in Players |-> "none"] /\ captain = {}
      /\ pool = {} /\ sequence = <<>> /\ index = 0
      /\ bans = Nothing /\ picks = Nothing /\ claim = [p \in Players |-> NoHero]
  BY DEF DraftInit
<1>3. DraftTypeOK
  <2>1. 1 \in 1 .. MaxPlayers /\ joined = 1 .. 1
    BY <1>1, <1>2
  <2>2. /\ bans \in [Sides -> SUBSET pool] /\ picks \in [Sides -> SUBSET pool]
    BY <1>2 DEF Nothing
  <2>3. sequence \in Seq(DraftSteps) /\ index \in 0 .. Len(sequence)
    BY <1>2
  <2>. QED BY <1>2, <2>1, <2>2, <2>3 DEF DraftTypeOK
<1>4. OneCaptain /\ InTurn /\ DraftFits
  BY <1>2 DEF OneCaptain, InTurn, DraftFits
<1>5. OwnHeroes
  <2>1. picks["red"] = {}
    BY <1>2, TeamsAre DEF Nothing
  <2>. QED BY <1>2, <2>1 DEF OwnHeroes
<1>. QED BY <1>3, <1>4, <1>5 DEF DraftInv

\* Requests in the lobby.
LEMMA LobbyKeeps ==
    ASSUME DraftInv, status = "LOBBY", status' = "LOBBY",
           UNCHANGED <<pool, sequence, index, bans, picks, claim>>,
           settings' \in Settings, (\E k \in 1 .. MaxPlayers : joined = 1 .. k)',
           joined \subseteq joined', team' \in [Players -> Sides \cup {"none"}],
           captain' \subseteq joined',
           \A p \in captain' : team'[p] # "none",
           \A p, q \in captain' : team'[p] = team'[q] => p = q
    PROVE  DraftInv'
<1>1. DraftTypeOK'
  BY DEF DraftInv, DraftTypeOK
<1>2. OneCaptain' /\ InTurn' /\ DraftFits'
  BY DEF DraftInv, OneCaptain, InTurn, DraftFits
<1>3. OwnHeroes'
  <2>1. \A p \in Players : claim'[p] = NoHero
    BY DEF DraftInv, InTurn
  <2>2. (picks["red"] \cap picks["blue"] = {})'
    BY DEF DraftInv, OwnHeroes
  <2>. QED BY <2>1, <2>2 DEF OwnHeroes
<1>. QED BY <1>1, <1>2, <1>3 DEF DraftInv

LEMMA LobbyStep ==
    ASSUME DraftInv, InLobby,
           \/ \E s \in Settings : UpdateSettings(s)
           \/ Join \/ RandomizeTeams
           \/ \E p \in Players : SetCaptain(p) \/ \E t \in Sides \cup {"none"} : SetTeam(p, t)
    PROVE  DraftInv'
<1>1. /\ status = "LOBBY" /\ UNCHANGED <<pool, sequence, index, bans, picks, claim>>
  BY DEF InLobby
<1>2. DraftTypeOK /\ OneCaptain
  BY DEF DraftInv
<1>3. joined \in SUBSET Nat /\ joined \subseteq Players
  BY <1>2, DraftSets
<1>4. CASE \E s \in Settings : UpdateSettings(s)
  <2>1. settings' \in Settings /\ UNCHANGED <<status, joined, team, captain>>
    BY <1>4 DEF UpdateSettings
  <2>. QED BY <1>1, <1>2, <2>1, LobbyKeeps DEF DraftTypeOK, OneCaptain
<1>5. CASE Join
  <2>1. /\ Cardinality(joined) < MaxPlayers /\ joined' = joined \cup {Cardinality(joined) + 1}
        /\ UNCHANGED <<status, settings, team, captain>>
    BY <1>5, Zenon DEF Join
  <2>2. PICK k \in 1 .. MaxPlayers : joined = 1 .. k
    BY <1>2 DEF DraftTypeOK
  <2>3. MaxPlayers \in Nat
    BY DraftAssumption
  <2>4. Cardinality(joined) = k
    BY <2>2, <2>3, FS_Interval
  <2>5. k + 1 \in 1 .. MaxPlayers /\ joined' = 1 .. k + 1
    BY <2>1, <2>2, <2>3, <2>4
  <2>6. (\E i \in 1 .. MaxPlayers : joined = 1 .. i)'
    BY <2>5
  <2>. QED BY <1>1, <1>2, <2>1, <2>6, LobbyKeeps DEF DraftTypeOK, OneCaptain
<1>6. CASE RandomizeTeams
  <2>1. PICK red : team' = [p \in Players |-> IF p \notin joined THEN "none"
                                                ELSE IF p \in red THEN "red" ELSE "blue"]
    BY <1>6 DEF RandomizeTeams
  <2>2. captain' = Captains(team', {}) /\ UNCHANGED <<status, settings, joined>>
    BY <1>6 DEF RandomizeTeams
  <2>3. /\ \A p \in captain' : p \in joined /\ team'[p] \in Sides
        /\ \A p, q \in captain' : team'[p] = team'[q] => p = q
    BY <1>3, <2>2, CaptainsAre
  <2>4. team' \in [Players -> Sides \cup {"none"}]
    BY <2>1, TeamsAre
  <2>. QED BY <1>1, <1>2, <2>2, <2>3, <2>4, LobbyKeeps, TeamsAre DEF DraftTypeOK
<1>7. ASSUME NEW p \in Players, SetCaptain(p) PROVE DraftInv'
  <2>1. /\ p \in joined /\ team[p] # "none"
        /\ captain' = (captain \ Members(team[p], team)) \cup {p}
        /\ UNCHANGED <<status, settings, joined, team>>
    BY <1>7 DEF SetCaptain
  <2>2. \A q \in captain' : q \in joined /\ team'[q] # "none" /\ (q = p \/ team[q] # team[p])
    BY <1>2, <2>1 DEF Members, OneCaptain, DraftTypeOK
  <2>3. \A q, r \in captain' : team'[q] = team'[r] => q = r
    BY <1>2, <2>1, <2>2 DEF OneCaptain
  <2>. QED BY <1>1, <1>2, <2>1, <2>2, <2>3, LobbyKeeps DEF DraftTypeOK
<1>8. ASSUME NEW p \in Players, NEW t \in Sides \cup {"none"}, SetTeam(p, t) PROVE DraftInv'
  <2>1. /\ team' = [team EXCEPT ![p] = t]
        /\ captain' = Captains(team', captain \ {p})
        /\ UNCHANGED <<status, settings, joined>>
    BY <1>8 DEF SetTeam
  <2>2. /\ \A q \in captain' : q \in joined /\ team'[q] \in Sides
        /\ \A q, r \in captain' : team'[q] = team'[r] => q = r
    <3>1. PICK m, c : m = team' /\ c = captain \ {p}
      OBVIOUS
    <3>2. /\ \A q \in Captains(m, c) : q \in joined /\ m[q] \in Sides
          /\ \A q, r \in Captains(m, c) : m[q] = m[r] => q = r
      BY <1>3, CaptainsAre
    <3>3. captain' = Captains(m, c)
      BY <2>1, <3>1, Zenon
    <3>. QED BY <3>1, <3>2, <3>3
  <2>3. team' \in [Players -> Sides \cup {"none"}]
    BY <1>2, <2>1 DEF DraftTypeOK
  <2>. QED BY <1>1, <1>2, <2>1, <2>2, <2>3, LobbyKeeps, TeamsAre DEF DraftTypeOK
<1>. QED BY <1>4, <1>5, <1>6, <1>7, <1>8

\* start_draft: the order is that of two teams of the sizes they have, and the
\* pool holds a hero for each of its steps.
LEMMA StartStep ==
    ASSUME DraftInv, StartDraft
    PROVE  DraftInv'
<1>1. DraftTypeOK /\ OneCaptain /\ InTurn /\ status = "LOBBY"
  BY DEF DraftInv, StartDraft
<1>2. /\ index' = 0 /\ status' = "DRAFTING"
      /\ UNCHANGED <<settings, joined, team, captain, bans, picks, claim>>
  BY DEF StartDraft
<1>3. Size \in Sizes
  <2>1. /\ Size \in [Sides -> Nat]
    BY <1>1, DraftSets DEF Size
  <2>2. Size["red"] > 0 /\ Size["blue"] > 0
    BY DEF StartDraft, Balanced
  <2>. QED BY <2>1, <2>2, TeamsAre DEF Sizes
<1>4. \A t \in Sides : \E p \in captain : team[p] = t
  BY DEF StartDraft, Members
<1>5. settings.mode \in Modes /\ settings.stars \in DOMAIN Roster
  BY <1>1 DEF DraftTypeOK, Settings
<1>6. pool' \in Pools(settings.mode, Size, Roster[settings.stars])
  BY DEF StartDraft
<1>7. settings.mode = "chaos" => ChaosFits(Size)
  BY <1>6, Zenon DEF Pools
<1>8. pool' \subseteq AllHeroes
  <2>1. Roster[settings.stars] \subseteq AllHeroes
    BY <1>5, DraftAssumption DEF AllHeroes
  <2>2. pool' \subseteq Roster[settings.stars]
    BY <1>6 DEF Pools, kSubset
  <2>. QED BY <2>1, <2>2
<1>9. Fitting(sequence', Size)
  <2>1. PICK first \in Sides : sequence' = BuildSequence(settings.mode, Size, first)
    BY DEF StartDraft
  <2>. QED BY <1>3, <1>5, <1>7, <2>1, OrderFits
<1>10. Cardinality(pool') >= Len(sequence')
  BY DEF StartDraft
<1>11. Len(sequence') \in Nat \ {0}
  <2>1. sequence' \in Seq(DraftSteps) /\ CountOf(sequence', "PICK", "red") = Size["red"] /\ Size["red"] # 0
    BY <1>3, <1>9, TeamsAre DEF Fitting, Sizes
  <2>2. sequence' # <<>>
    BY <2>1, CountNone
  <2>. QED BY <2>1, <2>2
<1>12. bans' = Nothing /\ picks' = Nothing /\ \A p \in Players : claim'[p] = NoHero
  BY <1>1, <1>2 DEF InTurn
<1>13. DraftTypeOK'
  <2>1. sequence' \in Seq(DraftSteps) /\ index' \in 0 .. Len(sequence')
    BY <1>2, <1>9, <1>11 DEF Fitting
  <2>2. bans' \in [Sides -> SUBSET pool'] /\ picks' \in [Sides -> SUBSET pool']
    BY <1>12 DEF Nothing
  <2>. QED BY <1>1, <1>2, <1>8, <2>1, <2>2 DEF DraftTypeOK
<1>14. OneCaptain' /\ InTurn'
  BY <1>1, <1>2, <1>4, <1>11, <1>12 DEF OneCaptain, InTurn
<1>15. \A t \in Sides : bans'[t] = {} /\ picks'[t] = {}
  BY <1>12 DEF Nothing
<1>16. OwnHeroes'
  BY <1>2, <1>12, <1>15, TeamsAre DEF OwnHeroes
<1>17. DraftFits'
  <2>1. AvailableHeroes' = pool'
    BY <1>15, TeamsAre DEF AvailableHeroes, TakenBy
  <2>2. Size' = Size
    BY <1>2 DEF Size, Members
  <2>3. \A a, t : Left(a, t)' = CountOf(sequence', a, t)
    <3>1. sequence' \in Seq(DraftSteps)
      BY <1>9 DEF Fitting
    <3>2. \A a, t : ToCome(sequence', 0, a, t) = CountOf(sequence', a, t)
      BY <3>1, RestIs
    <3>3. \A a, t : Left(a, t)' = ToCome(sequence', 0, a, t)
      BY <1>2 DEF Left, ToCome
    <3>. QED BY <3>2, <3>3
  <2>4. \A t \in Sides : Cardinality(picks'[t]) = 0 /\ Cardinality(bans'[t]) = 0
    BY <1>15, FS_EmptySet
  <2>5. \A t \in Sides : CountOf(sequence', "PICK", t) = Size[t] /\ Size[t] \in Nat
    BY <1>3, <1>9 DEF Fitting, Sizes
  <2>6. CountOf(sequence', "BAN", "red") = CountOf(sequence', "BAN", "blue")
    BY <1>9 DEF Fitting
  <2>7. \A t \in Sides : Cardinality(picks'[t]) + Left("PICK", t)' = Size'[t]
    BY <2>2, <2>3, <2>4, <2>5
  <2>8. Cardinality(bans'["red"]) + Left("BAN", "red")'
          = Cardinality(bans'["blue"]) + Left("BAN", "blue")'
    BY <2>3, <2>4, <2>6, TeamsAre
  <2>9. Cardinality(pool') \in Nat
    <3>1. IsFiniteSet(AllHeroes)
      BY DraftAssumption DEF AllHeroes
    <3>. QED BY <1>8, <3>1, FS_Subset, FS_CardinalityType
  <2>10. /\ Cardinality(pool') = Cardinality(AvailableHeroes') + index'
         /\ Cardinality(AvailableHeroes') >= Len(sequence') - index'
    BY <1>2, <1>10, <1>11, <2>1, <2>9
  <2>. QED BY <2>7, <2>8, <2>10 DEF DraftFits
<1>. QED BY <1>13, <1>14, <1>16, <1>17 DEF DraftInv

\* apply_action: the hero leaves the available ones, the step what is left of
\* the order.
LEMMA ActionStep ==
    ASSUME DraftInv, NEW p \in Players, NEW h \in AllHeroes, ApplyAction(p, h)
    PROVE  DraftInv'
<1>1. /\ DraftTypeOK /\ OneCaptain /\ InTurn /\ OwnHeroes
      /\ status = "DRAFTING" /\ index < Len(sequence)
  BY DEF DraftInv, ApplyAction, InTurn
<1>2. /\ h \in AvailableHeroes /\ index' = index + 1
      /\ status' = IF index' >= Len(sequence) THEN "CLAIMING" ELSE status
      /\ UNCHANGED <<settings, joined, team, captain, pool, sequence, claim>>
  BY DEF ApplyAction
<1>3. PICK a \in {"BAN", "PICK"}, u \in Sides : Current = DraftStep(a, u)
  <2>1. sequence[index + 1] \in DraftSteps
    BY <1>1 DEF DraftTypeOK
  <2>. QED BY <2>1 DEF Current, DraftSteps, DraftStep
<1>4. Current.action = a /\ Current.team = u
  BY <1>3 DEF DraftStep
<1>5. /\ bans' = IF a = "BAN" THEN [bans EXCEPT ![u] = @ \cup {h}] ELSE bans
      /\ picks' = IF a = "PICK" THEN [picks EXCEPT ![u] = @ \cup {h}] ELSE picks
  BY <1>4 DEF ApplyAction
<1>6. /\ bans \in [Sides -> SUBSET pool] /\ picks \in [Sides -> SUBSET pool]
      /\ sequence \in Seq(DraftSteps) /\ index \in 0 .. Len(sequence)
  BY <1>1 DEF DraftTypeOK
<1>7. /\ \A t \in Sides : bans'[t] = IF a = "BAN" /\ t = u THEN bans[t] \cup {h} ELSE bans[t]
      /\ \A t \in Sides : picks'[t] = IF a = "PICK" /\ t = u THEN picks[t] \cup {h} ELSE picks[t]
  BY <1>5, <1>6
<1>8. h \in pool /\ \A t \in Sides : h \notin bans[t] /\ h \notin picks[t]
  BY <1>2, TeamsAre DEF AvailableHeroes, TakenBy
<1>9. index + 1 \in 0 .. Len(sequence) /\ index \in 0 .. Len(sequence) - 1 /\ Len(sequence) \in Nat
  BY <1>1, <1>6
<1>10. DraftTypeOK'
  <2>1. bans' \in [Sides -> SUBSET pool'] /\ picks' \in [Sides -> SUBSET pool']
    BY <1>2, <1>5, <1>6, <1>8
  <2>2. status' \in {"DRAFTING", "CLAIMING"}
    BY <1>1, <1>2
  <2>. QED BY <1>1, <1>2, <1>6, <1>9, <2>1, <2>2 DEF DraftTypeOK
<1>11. OneCaptain' /\ InTurn'
  <2>1. \A q \in Players : claim'[q] = NoHero
    BY <1>1, <1>2 DEF InTurn
  <2>2. (status' = "DRAFTING" /\ index' < Len(sequence')) \/ (status' = "CLAIMING" /\ index' = Len(sequence'))
    BY <1>1, <1>2, <1>9
  <2>. QED BY <1>1, <1>2, <2>1, <2>2 DEF OneCaptain, InTurn
<1>12. OwnHeroes'
  <2>1. \A q \in Players : claim'[q] = NoHero
    BY <1>1, <1>2 DEF InTurn
  <2>2. picks'["red"] \cap picks'["blue"] = {}
    BY <1>1, <1>7, <1>8, TeamsAre DEF OwnHeroes
  <2>3. status' # "COMPLETE"
    BY <1>1, <1>2
  <2>. QED BY <2>1, <2>2, <2>3 DEF OwnHeroes
<1>13. DraftFits'
  <2>1. AvailableHeroes' = AvailableHeroes \ {h}
    BY <1>2, <1>3, <1>7, TeamsAre DEF AvailableHeroes, TakenBy
  <2>2. Size' = Size
    BY <1>2 DEF Size, Members
  <2>3. \A b, t : /\ Left(b, t) \in Nat /\ Left(b, t)' \in Nat
                  /\ Left(b, t) = Left(b, t)' + IF b = a /\ t = u THEN 1 ELSE 0
    <3>1. /\ \A b, t : ToCome(sequence, index, b, t) \in Nat
          /\ \A b, t : ToCome(sequence, index + 1, b, t) \in Nat
          /\ \A b, t : ToCome(sequence, index, b, t)
                         = ToCome(sequence, index + 1, b, t)
                             + IF sequence[index + 1] = DraftStep(b, t) THEN 1 ELSE 0
      BY <1>6, <1>9, RestIs
    <3>2. \A b, t : /\ Left(b, t) = ToCome(sequence, index, b, t)
                    /\ Left(b, t)' = ToCome(sequence, index + 1, b, t)
      BY <1>2 DEF Left, ToCome
    <3>3. \A b, t : sequence[index + 1] = DraftStep(b, t) <=> b = a /\ t = u
      BY <1>3, StepIs DEF Current
    <3>. QED BY <3>1, <3>2, <3>3
  <2>4. \A S \in SUBSET pool : IsFiniteSet(S) /\ Cardinality(S) \in Nat
    BY <1>1, DraftSets
  <2>5. ASSUME NEW t \in Sides
        PROVE  /\ Cardinality(bans[t]) \in Nat /\ Cardinality(picks[t]) \in Nat
               /\ Cardinality(bans'[t]) = Cardinality(bans[t]) + IF a = "BAN" /\ t = u THEN 1 ELSE 0
               /\ Cardinality(picks'[t]) = Cardinality(picks[t]) + IF a = "PICK" /\ t = u THEN 1 ELSE 0
    <3>1. IsFiniteSet(bans[t]) /\ IsFiniteSet(picks[t]) /\ Cardinality(bans[t]) \in Nat /\ Cardinality(picks[t]) \in Nat
      BY <1>6, <2>4
    <3>2. /\ Cardinality(bans[t] \cup {h}) = Cardinality(bans[t]) + 1
          /\ Cardinality(picks[t] \cup {h}) = Cardinality(picks[t]) + 1
      BY <1>8, <3>1, FS_AddElement
    <3>. QED BY <1>7, <3>1, <3>2
  <2>6. /\ \A t \in Sides : Cardinality(picks[t]) + Left("PICK", t) = Size[t]
        /\ Cardinality(bans["red"]) + Left("BAN", "red")
             = Cardinality(bans["blue"]) + Left("BAN", "blue")
        /\ Cardinality(pool) = Cardinality(AvailableHeroes) + index
        /\ Cardinality(AvailableHeroes) >= Len(sequence) - index
    BY <1>1 DEF DraftInv, DraftFits
  <2>7. ASSUME NEW t \in Sides
        PROVE  Cardinality(picks'[t]) + Left("PICK", t)' = Size'[t]
    <3>1. PICK c, d, l, m : /\ c = Cardinality(picks[t]) /\ d = Cardinality(picks'[t])
                            /\ l = Left("PICK", t) /\ m = Left("PICK", t)'
      OBVIOUS
    <3>2. /\ c \in Nat /\ l \in Nat /\ m \in Nat /\ l = m + (IF "PICK" = a /\ t = u THEN 1 ELSE 0)
          /\ d = c + (IF a = "PICK" /\ t = u THEN 1 ELSE 0) /\ c + l = Size[t]
      BY <2>3, <2>5, <2>6, <3>1
    <3>3. d + m = Size[t]
      BY ONLY <3>2
    <3>. QED BY <2>2, <3>1, <3>3
  <2>8. Cardinality(bans'["red"]) + Left("BAN", "red")'
          = Cardinality(bans'["blue"]) + Left("BAN", "blue")'
    <3>1. \A t \in Sides : Cardinality(bans'[t]) + Left("BAN", t)' = Cardinality(bans[t]) + Left("BAN", t)
      <4> SUFFICES ASSUME NEW t \in Sides
                   PROVE  Cardinality(bans'[t]) + Left("BAN", t)' = Cardinality(bans[t]) + Left("BAN", t)
        OBVIOUS
      <4>1. PICK c, d, l, m : /\ c = Cardinality(bans[t]) /\ d = Cardinality(bans'[t])
                              /\ l = Left("BAN", t) /\ m = Left("BAN", t)'
        OBVIOUS
      <4>2. /\ c \in Nat /\ l \in Nat /\ m \in Nat /\ l = m + (IF "BAN" = a /\ t = u THEN 1 ELSE 0)
            /\ d = c + (IF a = "BAN" /\ t = u THEN 1 ELSE 0)
        BY <2>3, <2>5, <4>1
      <4>3. d + m = c + l
        BY ONLY <4>2
      <4>. QED BY <4>1, <4>3
    <3>. QED BY <2>6, <3>1, TeamsAre
  <2>9. /\ Cardinality(pool') = Cardinality(AvailableHeroes') + index'
        /\ Cardinality(AvailableHeroes') >= Len(sequence') - index'
    <3>1. AvailableHeroes \in SUBSET pool
      BY DEF AvailableHeroes
    <3>2. IsFiniteSet(AvailableHeroes) /\ Cardinality(AvailableHeroes) \in Nat
      BY <2>4, <3>1
    <3>3. Cardinality(AvailableHeroes \ {h}) = Cardinality(AvailableHeroes) - 1
      BY <1>2, <3>2, FS_RemoveElement
    <3>4. Cardinality(AvailableHeroes') = Cardinality(AvailableHeroes) - 1
      BY <2>1, <3>3
    <3>. QED BY <1>2, <1>9, <2>6, <3>2, <3>4
  <2>. QED BY <2>7, <2>8, <2>9 DEF DraftFits
<1>. QED BY <1>10, <1>11, <1>12, <1>13 DEF DraftInv

\* claim_hero.
LEMMA ClaimStep ==
    ASSUME DraftInv, NEW p \in Players, NEW h \in AllHeroes, ClaimHero(p, h)
    PROVE  DraftInv'
<1>1. DraftTypeOK /\ OneCaptain /\ InTurn /\ OwnHeroes /\ DraftFits /\ status = "CLAIMING"
  BY DEF DraftInv, ClaimHero
<1>2. /\ p \in Participants /\ h \in Claimable(p) /\ claim' = [claim EXCEPT ![p] = h]
      /\ status' = IF \A q \in Participants : claim'[q] # NoHero THEN "COMPLETE" ELSE status
      /\ UNCHANGED <<settings, joined, team, captain, pool, sequence, index, bans, picks>>
  BY DEF ClaimHero
<1>3. status' \in {"CLAIMING", "COMPLETE"}
  BY <1>1, <1>2
<1>4. h # NoHero
  BY DraftAssumption DEF AllHeroes
<1>5. \A q \in Players : claim'[q] = IF q = p THEN h ELSE claim[q]
  BY <1>1, <1>2 DEF DraftTypeOK
<1>6. h \in picks[team[p]] /\ \A q \in joined : q # p => claim[q] # h
  BY <1>2 DEF Claimable
<1>7. Participants' = Participants /\ Participants \subseteq joined /\ joined \subseteq Players
  BY <1>1, <1>2, DraftSets DEF Participants
<1>8. DraftTypeOK'
  BY <1>1, <1>2, <1>3 DEF DraftTypeOK
<1>9. OneCaptain' /\ InTurn'
  BY <1>1, <1>2, <1>3 DEF OneCaptain, InTurn
<1>10. OwnHeroes'
  <2>1. (picks["red"] \cap picks["blue"] = {})'
    BY <1>1, <1>2 DEF OwnHeroes
  <2>2. \A q \in Players : claim'[q] # NoHero => q \in Participants' /\ claim'[q] \in picks'[team'[q]]
    BY <1>1, <1>2, <1>5, <1>6, <1>7 DEF OwnHeroes
  <2>3. \A q, r \in Players : claim'[q] # NoHero /\ claim'[q] = claim'[r] => q = r
    <3> SUFFICES ASSUME NEW q \in Players, NEW r \in Players, claim'[q] # NoHero, claim'[q] = claim'[r]
                 PROVE  q = r
      OBVIOUS
    <3>1. \A s \in Players : claim[s] # NoHero => s \in joined
      BY <1>1, <1>7 DEF OwnHeroes
    <3>2. \A s \in Players : s # p => claim[s] # h
      BY <1>4, <1>6, <3>1
    <3>. QED BY <1>1, <1>4, <1>5, <3>2 DEF OwnHeroes
  <2>4. status' = "COMPLETE" => \A q \in Participants' : claim'[q] # NoHero
    BY <1>1, <1>2, <1>7
  <2>. QED BY <2>1, <2>2, <2>3, <2>4 DEF OwnHeroes
<1>11. DraftFits'
  BY <1>1, <1>2 DEF DraftFits, Size, Members, Left, AvailableHeroes, TakenBy
<1>. QED BY <1>8, <1>9, <1>10, <1>11 DEF DraftInv

\* As many players as heroes at least, if each hero is claimed by one of them.
LEMMA Covered ==
    ASSUME NEW S, IsFiniteSet(S), NEW T, NEW f, \A y \in T : \E x \in S : f[x] = y
    PROVE  Cardinality(T) <= Cardinality(S)
<1>. DEFINE Q == {x \in S : f[x] \in T}
            g == [x \in Q |-> f[x]]
<1>1. Q \in SUBSET S
  OBVIOUS
<1>2. IsFiniteSet(Q) /\ Cardinality(Q) <= Cardinality(S) /\ Cardinality(Q) \in Nat /\ Cardinality(S) \in Nat
  BY <1>1, FS_Subset, FS_CardinalityType
<1>3. g \in Surjection(Q, T)
  <2>1. g \in [Q -> T] /\ \A y \in T : \E x \in Q : g[x] = y
    OBVIOUS
  <2>. HIDE DEF g, Q
  <2>. QED BY <2>1 DEF Surjection
<1>. HIDE DEF g, Q
<1>4. IsFiniteSet(T) /\ Cardinality(T) <= Cardinality(Q)
  BY <1>2, <1>3, FS_Surjection
<1>5. Cardinality(T) \in Nat
  BY <1>4, FS_CardinalityType
<1>. QED BY ONLY <1>2, <1>4, <1>5

LEMMA DraftInvGoesOn == DraftInv => DraftGoesOn
<1>. SUFFICES ASSUME DraftInv PROVE DraftGoesOn
  OBVIOUS
<1>1. DraftTypeOK /\ OneCaptain /\ InTurn /\ OwnHeroes /\ DraftFits
  BY DEF DraftInv
<1>2. joined \subseteq Players /\ IsFiniteSet(joined) /\ captain \subseteq joined
  BY <1>1, DraftSets DEF DraftTypeOK
<1>3. ASSUME status = "DRAFTING" PROVE Cardinality({p \in joined : MayAct(p)}) = 1
  <2>1. Current \in DraftSteps
    BY <1>1, <1>3 DEF InTurn, DraftTypeOK, Current
  <2>2. Current.team \in Sides
    BY <2>1 DEF DraftSteps
  <2>3. PICK p \in captain : team[p] = Current.team
    BY <1>1, <1>3, <2>2 DEF OneCaptain
  <2>4. {q \in joined : MayAct(q)} = {p}
    BY <1>1, <1>2, <2>3 DEF MayAct, OneCaptain
  <2>. QED BY <2>4, FS_Singleton
<1>4. ASSUME status = "CLAIMING", NEW p \in Participants, claim[p] = NoHero
      PROVE  Claimable(p) # {}
  <2>1. PICK t : t = team[p]
    OBVIOUS
  <2>2. p \in joined /\ t \in Sides
    BY <1>1, <1>2, <2>1 DEF Participants, DraftTypeOK
  <2>3. Left("PICK", t) = 0
    <3>1. index = Len(sequence) /\ sequence \in Seq(DraftSteps)
      BY <1>1, <1>4 DEF InTurn, DraftTypeOK
    <3>2. ToCome(sequence, Len(sequence), "PICK", t) = 0
      BY <3>1, RestIs
    <3>. QED BY <3>1, <3>2 DEF Left, ToCome
  <2>. DEFINE M == Members(t, team)
  <2>4. IsFiniteSet(M) /\ Cardinality(M) \in Nat /\ p \in M
    <3>1. p \in M
      BY <2>1, <2>2 DEF Members
    <3>. HIDE DEF M
    <3>2. IsFiniteSet(Members(t, team)) /\ Cardinality(Members(t, team)) \in Nat
      BY <1>1, DraftSets
    <3>. QED BY <3>1, <3>2 DEF M
  <2>5. Cardinality(picks[t]) = Cardinality(M)
    <3>1. Cardinality(picks[t]) + 0 = Cardinality(M)
      BY <1>1, <1>4, <2>2, <2>3 DEF DraftFits, Size
    <3>2. Cardinality(picks[t]) \in Nat
      BY <1>1, <2>2, DraftSets DEF DraftTypeOK
    <3>. QED BY <3>1, <3>2
  <2>6. ASSUME Claimable(p) = {} PROVE FALSE
    <3>1. \A h \in picks[t] : \E q \in joined : q # p /\ claim[q] = h
      BY <2>1, <2>6 DEF Claimable
    <3>2. \A h \in picks[t] : \E q \in M \ {p} : claim[q] = h
      <4> SUFFICES ASSUME NEW h \in picks[t] PROVE \E q \in M \ {p} : claim[q] = h
        OBVIOUS
      <4>1. PICK q \in joined : q # p /\ claim[q] = h
        BY <3>1
      <4>2. h # NoHero
        BY <1>1, <2>2, DraftAssumption DEF DraftTypeOK, AllHeroes
      <4>3. q \in Participants /\ h \in picks[team[q]]
        BY <1>1, <1>2, <4>1, <4>2 DEF OwnHeroes
      <4>4. team[q] \in Sides
        BY <1>1, <1>2, <4>3 DEF Participants, DraftTypeOK
      <4>5. team[q] = t
        BY <1>1, <2>2, <4>3, <4>4, TeamsAre DEF OwnHeroes
      <4>. QED BY <4>1, <4>5 DEF Members
    <3>. HIDE DEF M
    <3>3. IsFiniteSet(M \ {p}) /\ Cardinality(M \ {p}) = Cardinality(M) - 1
      BY <2>4, FS_RemoveElement
    <3>4. Cardinality(picks[t]) <= Cardinality(M \ {p})
      BY <3>2, <3>3, Covered
    <3>. QED BY <2>4, <2>5, <3>3, <3>4
  <2>. QED BY <2>6
<1>5. ASSUME status = "COMPLETE", NEW p \in Participants
      PROVE  claim[p] \in picks[team[p]] /\ \A q \in Participants \ {p} : claim[q] # claim[p]
  BY <1>1, <1>2, <1>5 DEF OwnHeroes, Participants
<1>. QED BY <1>3, <1>4, <1>5 DEF DraftGoesOn

LEMMA DraftKeeps == DraftInv /\ [DraftNext]_draftVars => DraftInv'
<1>. SUFFICES ASSUME DraftInv, [DraftNext]_draftVars PROVE DraftInv'
  OBVIOUS
<1>1. CASE Lobby
  <2>1. CASE StartDraft
    BY <2>1, StartStep
  <2>2. CASE ~StartDraft
    <3>1. InLobby
      BY <1>1, <2>2 DEF Lobby, UpdateSettings, Join, SetTeam, RandomizeTeams, SetCaptain
    <3>2. \/ \E s \in Settings : UpdateSettings(s)
          \/ Join \/ RandomizeTeams
          \/ \E p \in Players : SetCaptain(p) \/ \E t \in Sides \cup {"none"} : SetTeam(p, t)
      BY <1>1, <2>2, Zenon DEF Lobby
    <3>. QED BY <3>1, <3>2, LobbyStep
  <2>. QED BY <2>1, <2>2
<1>2. ASSUME NEW p \in Players, NEW h \in AllHeroes, ApplyAction(p, h) PROVE DraftInv'
  BY <1>2, ActionStep
<1>3. ASSUME NEW p \in Players, NEW h \in AllHeroes, ClaimHero(p, h) PROVE DraftInv'
  BY <1>3, ClaimStep
<1>4. CASE UNCHANGED draftVars
  BY <1>4 DEF draftVars, DraftInv, DraftTypeOK, OneCaptain, InTurn, OwnHeroes, DraftFits, Size,
     Members, Left, AvailableHeroes, TakenBy, Participants
<1>. QED BY <1>1, <1>2, <1>3, <1>4, Zenon DEF DraftNext

\* However the lobby was used before: an order gives each team a pick for each
\* of its players and as many bans as the other, the captains follow it step
\* by step, and the pool suffices to its end (start_draft, build_sequence,
\* apply_action).
THEOREM DraftFitting == DraftSpec => []DraftFits
<1>1. DraftInit => DraftInv
  BY DraftStarts
<1>2. DraftInv /\ [DraftNext]_draftVars => DraftInv'
  BY DraftKeeps
<1>3. DraftInv => DraftFits
  BY DEF DraftInv
<1>. QED BY <1>1, <1>2, <1>3, PTL DEF DraftSpec

\* There is always one captain whose turn it is, a hero for every player who
\* has none, and a completed draft gives each player one of the own team's.
THEOREM DraftProceeds == DraftSpec => []DraftGoesOn
<1>1. DraftInit => DraftInv
  BY DraftStarts
<1>2. DraftInv /\ [DraftNext]_draftVars => DraftInv'
  BY DraftKeeps
<1>3. DraftInv => DraftGoesOn
  BY DraftInvGoesOn
<1>. QED BY <1>1, <1>2, <1>3, PTL DEF DraftSpec
=============================================================================
