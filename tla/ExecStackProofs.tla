--------------------------- MODULE ExecStackProofs ---------------------------
(***************************************************************************)
(* ExecStack for any set of heroes and any number of attacks, nested       *)
(* actions and payloads: an abort never takes away the end of a turn, a    *)
(* Wish that is to be checked or the combat of an attack that was answered *)
(* with a primary defense, and no action context outlives its action.      *)
(*                                                                         *)
(* The invariant reads the stack frame by frame: what may lie above what,  *)
(* what lies right below, and what must lie somewhere below.               *)
(***************************************************************************)
EXTENDS ExecStack, FiniteSetTheorems, SequenceTheorems, WellFoundedInduction, TLAPS

-----------------------------------------------------------------------------
(* The stack. *)

\* Where a turn, or the match's search for one, ends.
Base == {"next", "finalize", "advance"}

\* Steps of an attack, steps under another actor, and steps an abort may drop.
OfAttack == {"attack", "select", "window", "deftext", "combat", "onblock"}
Loose    == OfAttack \cup {"text", "enter", "leave", "restore"}

Kinds  == Base \cup Loose \cup {"confirm", "finished", "wish", "source"}
Hows   == Keys \cup {"plain", "own", "payload", "mandatory", "optional", "chosen", "other"}
Frames == [kind : Kinds, n : Nat, how : Hows]

Foreign(f) == f.kind \in {"enter", "text", "leave"} /\ f.how = "defense"
OwnEnd(f)  == f.kind = "restore" /\ f.how = "own"

\* f may lie above g.  Nothing lies below a turn's end; a choice and a change of
\* actor are resolved at once; only a defense text delays a combat, and only
\* steps of the same text delay the return of the actor.
MayTop(f, g) ==
    /\ f.kind \notin Base
    /\ g.kind \notin {"enter", "select"}
    /\ g.kind \in {"attack", "window"} => f.kind = "select"
    /\ g.kind = "deftext" => f.kind \in {"select", "window"}
    /\ g.kind \in {"combat", "onblock"} =>
         \/ f.kind \in {"select", "window", "deftext"}
         \/ f.kind = "combat" /\ g.kind = "onblock"
         \/ Foreign(f) \/ OwnEnd(f)
    /\ g.kind = "leave" =>
         \/ f.kind \in {"enter", "text"} /\ f.how = g.how
         \/ f.kind = "restore"

\* g may lie right below f.
Follows(f, g) ==
    /\ f.kind = "window"  => g = Frame("deftext", f.n, "plain")
    /\ f.kind = "deftext" => g = Frame("combat", f.n, "plain")
    /\ f.kind = "select" /\ f.how = "optional" => g.kind # "window"
    /\ f.kind = "leave" /\ f.how = "defense" => g.kind = "combat"
    /\ OthersEnd(f) => g.kind = "leave"
    /\ g.kind = "leave" /\ g.how = "forced" => OthersEnd(f)

\* What has to be undone has its undoing below.
NeedsLeave(f) == f.kind = "enter" \/ (f.kind = "text" /\ f.how \in Keys)

Backed(s, i) ==
    /\ s[i].kind \in Loose => \E j \in i + 1 .. Len(s) : Boundary(s[j])
    /\ NeedsLeave(s[i]) => \E j \in i + 1 .. Len(s) : s[j].kind = "leave"

Stacked(s) ==
    /\ s \in Seq(Frames)
    /\ \A i, j \in 1 .. Len(s) : i < j => MayTop(s[i], s[j])
    /\ \A i \in 1 .. Len(s) - 1 : Follows(s[i], s[i + 1])
    /\ Len(s) > 0 => s[Len(s)].kind \in Base
    /\ \A i \in 1 .. Len(s) : Backed(s, i)

\* A frame fits the attacks of the turn and whose turn it is.
Local(f) ==
    /\ f.kind \in OfAttack => f.n = Len(windows) /\ Len(windows) > 0
    /\ f.kind \in {"attack", "select", "window"} => windows[f.n] = "none"
    /\ f.kind \in {"enter", "leave"} => f.how \in Keys /\ f.n = 0
    /\ f.kind = "text" => f.how \in Keys \cup {"own", "payload"}
    /\ f.kind \in {"next", "source"} => owner = Nobody
    /\ f.kind \in OfAttack \cup {"enter", "leave"} => owner # Nobody
    /\ f.kind = "text" /\ f.how # "payload" => owner # Nobody
    /\ f.kind = "advance" => todo = {}

AllLocal == \A i \in 1 .. Len(stack) : Local(stack[i])

-----------------------------------------------------------------------------
(* The context. *)

Answers == {"none", "passed", "secondary", "primary"}

TypeOK ==
    /\ owner \in Heroes \cup {Nobody} /\ actor \in Heroes \cup {Nobody}
    /\ saved \in [Keys -> Heroes \cup {Nobody}] /\ depth \in Nat /\ victim \in Nat
    /\ defender \in Heroes \cup {Nobody} /\ primary \in BOOLEAN
    /\ todo \subseteq Heroes /\ nested \in Nat
    /\ windows \in Seq(Answers) /\ fought \subseteq Nat \X (Heroes \cup {Nobody})
    /\ wishes \in Nat /\ over \in BOOLEAN

\* The attack on the stack is against the victim of the context, and its window
\* was answered as the context says.
Aimed ==
    \A i \in 1 .. Len(stack) :
        /\ i = 1 /\ stack[i].kind = "window" => victim = stack[i].n
        /\ stack[i].kind = "combat" /\ windows[stack[i].n] # "none" =>
             /\ victim = stack[i].n
             /\ primary <=> windows[stack[i].n] = "primary"
        /\ stack[i].kind = "leave" /\ stack[i].how = "defense" => primary

\* Whoever has the turn acts, or acts again once the text of another is done.
ActorFits ==
    owner # Nobody =>
        /\ (\A i \in 1 .. Len(stack) : stack[i].kind # "leave") => actor = owner
        /\ \A i \in 1 .. Len(stack) : stack[i].kind = "leave" =>
             IF stack[1].kind = "enter" THEN actor = owner ELSE saved[stack[i].how] = owner

\* What was fought belongs to the turn.
TurnFits ==
    /\ \A f \in fought : f[2] = owner
    /\ owner = Nobody => fought = {} /\ windows = <<>>

\* An attack answered with a primary defense is fought, or will be.
PrimaryFought ==
    \A n \in DOMAIN windows : windows[n] = "primary" =>
        \/ \E i \in 1 .. Len(stack) : stack[i] = Frame("combat", n, "plain")
        \/ \E h \in Heroes : <<n, h>> \in fought

\* Frames of a kind in a part of a sequence.
Number(s, a, b, kind) == Cardinality({i \in a .. b : s[i].kind = kind})

Counted == /\ wishes = Number(stack, 1, Len(stack), "wish")
           /\ depth <= Number(stack, 1, Len(stack), "restore")

Finished == stack = <<>> => todo = {} /\ over

IInv == /\ TypeOK /\ Stacked(stack) /\ AllLocal /\ Aimed /\ ActorFits /\ TurnFits
        /\ PrimaryFought /\ Counted /\ Finished
-----------------------------------------------------------------------------
(* Sequences: what a push, a pop or a cut leaves. *)

\* t is s on top of what q holds from position k on.
Onto(t, s, q, k) ==
    /\ k \in 1 .. Len(q) + 1
    /\ Len(t) = Len(s) + Len(q) + 1 - k
    /\ \A i \in 1 .. Len(s) : t[i] = s[i]
    /\ \A i \in k .. Len(q) : t[Len(s) + 1 + i - k] = q[i]

\* A step that is resolved is dropped.
LEMMA TailOnto ==
    ASSUME NEW q \in Seq(Frames), q # <<>>
    PROVE  Tail(q) \in Seq(Frames) /\ Onto(Tail(q), <<>>, q, 2)
<1>1. Len(q) > 0 /\ Tail(q) \in Seq(Frames) /\ Len(Tail(q)) = Len(q) - 1
  OBVIOUS
<1>2. \A i \in 1 .. Len(q) - 1 : Tail(q)[i] = q[i + 1]
  OBVIOUS
<1>3. ASSUME NEW i \in 2 .. Len(q)
      PROVE  Tail(q)[i - 1] = q[i]
  <2>1. i - 1 \in 1 .. Len(q) - 1 /\ (i - 1) + 1 = i
    BY <1>1
  <2>. QED BY <1>2, <2>1
<1>4. \A i \in 2 .. Len(q) : 0 + 1 + i - 2 = i - 1
  OBVIOUS
<1>. QED BY <1>1, <1>3, <1>4 DEF Onto

\* Steps are pushed on the rest of the stack.
LEMMA PushOnto ==
    ASSUME NEW q \in Seq(Frames), q # <<>>, NEW s \in Seq(Frames)
    PROVE  s \o Tail(q) \in Seq(Frames) /\ Onto(s \o Tail(q), s, q, 2)
<1>1. Len(q) > 0 /\ Tail(q) \in Seq(Frames) /\ Len(Tail(q)) = Len(q) - 1
  OBVIOUS
<1>2. /\ s \o Tail(q) \in Seq(Frames)
      /\ Len(s \o Tail(q)) = Len(s) + Len(q) - 1
  BY <1>1
<1>3. \A i \in 1 .. Len(s) : (s \o Tail(q))[i] = s[i]
  BY <1>1
<1>4. ASSUME NEW i \in 2 .. Len(q)
      PROVE  (s \o Tail(q))[Len(s) + 1 + i - 2] = q[i]
  <2>1. Tail(q)[i - 1] = q[i]
    BY <1>1, TailOnto DEF Onto
  <2>2. Len(s) + 1 + i - 2 \in Len(s) + 1 .. Len(s) + Len(Tail(q))
    BY <1>1
  <2>3. (s \o Tail(q))[Len(s) + 1 + i - 2] = Tail(q)[Len(s) + 1 + i - 2 - Len(s)]
    BY <1>1, <2>2
  <2>4. Len(s) + 1 + i - 2 - Len(s) = i - 1
    BY <1>1
  <2>. QED BY <2>1, <2>3, <2>4
<1>. QED BY <1>1, <1>2, <1>3, <1>4 DEF Onto

\* Steps are pushed on the whole stack.
LEMMA OverOnto ==
    ASSUME NEW q \in Seq(Frames), NEW s \in Seq(Frames)
    PROVE  s \o q \in Seq(Frames) /\ Onto(s \o q, s, q, 1)
<1>1. s \o q \in Seq(Frames) /\ Len(s \o q) = Len(s) + Len(q)
  OBVIOUS
<1>2. \A i \in 1 .. Len(s) : (s \o q)[i] = s[i]
  OBVIOUS
<1>3. ASSUME NEW i \in 1 .. Len(q)
      PROVE  (s \o q)[Len(s) + 1 + i - 1] = q[i]
  <2>1. (s \o q)[Len(s) + i] = q[i]
    OBVIOUS
  <2>2. Len(s) + 1 + i - 1 = Len(s) + i
    OBVIOUS
  <2>. QED BY <2>1, <2>2
<1>. QED BY <1>1, <1>2, <1>3 DEF Onto

\* An abort cuts the rest of the stack.
LEMMA CutOnto ==
    ASSUME NEW q \in Seq(Frames), NEW i \in 1 .. Len(q)
    PROVE  /\ SubSeq(Tail(q), i, Len(Tail(q))) \in Seq(Frames)
           /\ Onto(SubSeq(Tail(q), i, Len(Tail(q))), <<>>, q, i + 1)
<1>. DEFINE r == Tail(q)
            t == SubSeq(r, i, Len(r))
<1>1. Len(q) > 0 /\ q # <<>> /\ r \in Seq(Frames) /\ Len(r) = Len(q) - 1
  OBVIOUS
<1>2. t \in Seq(Frames) /\ Len(t) = Len(q) - i
  <2>1. i \in Int /\ Len(r) \in Int /\ \A j \in i .. Len(r) : r[j] \in Frames
    BY <1>1
  <2>2. t \in Seq(Frames) /\ Len(t) = IF i <= Len(r) THEN Len(r) - i + 1 ELSE 0
    BY ONLY <2>1, SubSeqProperties
  <2>. HIDE DEF t, r
  <2>3. Len(q) \in Nat /\ i \in 1 .. Len(q)
    OBVIOUS
  <2>. QED BY <1>1, <2>2, <2>3
<1>3. ASSUME NEW j \in i + 1 .. Len(q)
      PROVE  t[j - i] = q[j]
  <2>1. j - i \in 1 .. Len(r) - i + 1
    BY <1>1
  <2>2. t[j - i] = r[j - 1]
    <3>1. t[j - i] = r[i + (j - i) - 1]
      BY <1>1, <2>1
    <3>2. i + (j - i) - 1 = j - 1
      OBVIOUS
    <3>. QED BY <3>1, <3>2
  <2>3. r[j - 1] = q[j]
    <3>1. 0 + 1 + j - 2 = j - 1 /\ j \in 2 .. Len(q)
      BY <1>1
    <3>. QED BY <1>1, <3>1, TailOnto DEF Onto
  <2>. QED BY <2>2, <2>3
<1>4. \A j \in i + 1 .. Len(q) : 0 + 1 + j - (i + 1) = j - i
  OBVIOUS
<1>. HIDE DEF t
<1>. QED BY <1>1, <1>2, <1>3, <1>4 DEF Onto

\* Every frame is a new one or one that was kept.
LEMMA OntoAt ==
    ASSUME NEW t, NEW s \in Seq(Frames), NEW q \in Seq(Frames), NEW k, Onto(t, s, q, k)
    PROVE  \A j \in 1 .. Len(t) :
             \/ j <= Len(s) /\ t[j] = s[j]
             \/ j > Len(s) /\ \E m \in k .. Len(q) : m = j - Len(s) - 1 + k /\ t[j] = q[m]
<1>. SUFFICES ASSUME NEW j \in 1 .. Len(t), j > Len(s)
              PROVE  \E m \in k .. Len(q) : m = j - Len(s) - 1 + k /\ t[j] = q[m]
  BY DEF Onto
<1>1. Len(s) \in Nat /\ Len(q) \in Nat /\ k \in 1 .. Len(q) + 1
      /\ Len(t) = Len(s) + Len(q) + 1 - k
  BY DEF Onto
<1>2. j - Len(s) - 1 + k \in k .. Len(q)
  BY <1>1
<1>3. Len(s) + 1 + (j - Len(s) - 1 + k) - k = j
  BY <1>1
<1>. QED BY <1>2, <1>3 DEF Onto

-----------------------------------------------------------------------------
(* The order of the stack. *)

\* New frames s on what q holds from k on: they fit each other and what is
\* kept, and what they leave to be undone is undone below.
Fitting(s, q, k) ==
    /\ \A a, b \in 1 .. Len(s) : a < b => MayTop(s[a], s[b])
    /\ \A a \in 1 .. Len(s), i \in k .. Len(q) : MayTop(s[a], q[i])
    /\ \A a \in 1 .. Len(s) - 1 : Follows(s[a], s[a + 1])
    /\ Len(s) > 0 => Follows(s[Len(s)], q[k])
    /\ Len(s) > 0 => \E j \in k .. Len(q) : Boundary(q[j])
    /\ \A a \in 1 .. Len(s) : NeedsLeave(s[a]) =>
         \/ \E b \in a + 1 .. Len(s) : s[b].kind = "leave"
         \/ \E j \in k .. Len(q) : q[j].kind = "leave"

\* Fitting frames keep the order.
LEMMA OrderKept ==
    ASSUME NEW q, Stacked(q), NEW s \in Seq(Frames), NEW t \in Seq(Frames), NEW k,
           Onto(t, s, q, k), k <= Len(q), Fitting(s, q, k)
    PROVE  Stacked(t)
<1>1. /\ q \in Seq(Frames) /\ Len(q) \in Nat /\ Len(s) \in Nat /\ Len(t) \in Nat
      /\ k \in 1 .. Len(q) /\ Len(t) = Len(s) + Len(q) + 1 - k
  BY DEF Stacked, Onto
<1>2. /\ \A i \in 1 .. Len(s) : t[i] = s[i]
      /\ \A i \in k .. Len(q) : /\ Len(s) + 1 + i - k \in Len(s) + 1 .. Len(t)
                                /\ t[Len(s) + 1 + i - k] = q[i]
  BY <1>1 DEF Onto
<1>3. \A j \in 1 .. Len(t) :
        \/ j <= Len(s) /\ t[j] = s[j]
        \/ j > Len(s) /\ \E m \in k .. Len(q) : m = j - Len(s) - 1 + k /\ t[j] = q[m]
  BY <1>1, OntoAt
<1>9. \A j \in 1 .. Len(t) : j > Len(s) =>
        \E m \in k .. Len(q) : m = j - Len(s) - 1 + k /\ t[j] = q[m]
  BY ONLY <1>1, <1>3
<1>4. ASSUME NEW i \in 1 .. Len(t), NEW j \in 1 .. Len(t), i < j
      PROVE  MayTop(t[i], t[j])
  <2>1. CASE j <= Len(s)
    <3>1. t[i] = s[i] /\ t[j] = s[j] /\ i \in 1 .. Len(s) /\ j \in 1 .. Len(s)
      BY <1>1, <1>2, <1>4, <2>1
    <3>. QED BY <1>4, <3>1 DEF Fitting
  <2>2. CASE i <= Len(s) /\ j > Len(s)
    <3>1. t[i] = s[i] /\ i \in 1 .. Len(s)
      BY <1>1, <1>2, <2>2
    <3>2. PICK m \in k .. Len(q) : t[j] = q[m]
      BY <1>9, <2>2, Zenon
    <3>. QED BY <3>1, <3>2 DEF Fitting
  <2>3. CASE i > Len(s)
    <3>1. PICK m \in k .. Len(q) : m = i - Len(s) - 1 + k /\ t[i] = q[m]
      BY <1>9, <2>3, Zenon
    <3>2. j > Len(s)
      BY <1>1, <1>4, <2>3
    <3>3. PICK o \in k .. Len(q) : o = j - Len(s) - 1 + k /\ t[j] = q[o]
      BY <1>9, <3>2, Zenon
    <3>4. m \in 1 .. Len(q) /\ o \in 1 .. Len(q) /\ m < o
      <4>1. m \in k .. Len(q) /\ o \in k .. Len(q) /\ i \in Int /\ j \in Int
        BY <1>1
      <4>. QED BY ONLY <1>1, <1>4, <3>1, <3>3, <4>1
    <3>. QED BY <3>1, <3>3, <3>4 DEF Stacked
  <2>. QED BY <1>1, <2>1, <2>2, <2>3
<1>5. ASSUME NEW i \in 1 .. Len(t) - 1
      PROVE  Follows(t[i], t[i + 1])
  <2>1. CASE i + 1 <= Len(s)
    <3>1. /\ t[i] = s[i] /\ t[i + 1] = s[i + 1] /\ i \in 1 .. Len(s) - 1
      BY <1>1, <1>2, <2>1
    <3>. QED BY <3>1 DEF Fitting
  <2>2. CASE i = Len(s)
    <3>1. t[i] = s[i]
      BY <1>1, <1>2, <2>2
    <3>2. Len(s) + 1 + k - k = i + 1 /\ k \in k .. Len(q)
      BY <1>1, <2>2
    <3>3. t[i + 1] = q[k]
      BY <1>2, <3>2
    <3>. QED BY <1>1, <2>2, <3>1, <3>3 DEF Fitting
  <2>3. CASE i > Len(s)
    <3>1. PICK m \in k .. Len(q) : m = i - Len(s) - 1 + k /\ t[i] = q[m]
      <4>1. i \in 1 .. Len(t)
        BY <1>1
      <4>. QED BY <1>9, <2>3, <4>1, Zenon
    <3>2. i + 1 \in 1 .. Len(t) /\ i + 1 > Len(s)
      BY <1>1, <2>3
    <3>3. PICK o \in k .. Len(q) : o = (i + 1) - Len(s) - 1 + k /\ t[i + 1] = q[o]
      BY <1>9, <3>2, Zenon
    <3>4. m \in 1 .. Len(q) - 1 /\ o = m + 1
      BY <1>1, <3>1, <3>3
    <3>. QED BY <3>1, <3>3, <3>4 DEF Stacked
  <2>. QED BY <1>1, <2>1, <2>2, <2>3
<1>6. Len(t) > 0 /\ t[Len(t)].kind \in Base
  <2>1. Len(q) \in k .. Len(q) /\ Len(s) + 1 + Len(q) - k = Len(t) /\ Len(q) > 0
    BY <1>1
  <2>2. t[Len(t)] = q[Len(q)]
    BY <1>2, <2>1
  <2>. QED BY <1>1, <2>1, <2>2 DEF Stacked
<1>7. ASSUME NEW a \in 1 .. Len(t)
      PROVE  Backed(t, a)
  <2>1. CASE a <= Len(s)
    <3>1. t[a] = s[a] /\ a \in 1 .. Len(s)
      BY <1>1, <1>2, <2>1
    <3>2. \E j \in a + 1 .. Len(t) : Boundary(t[j])
      <4>1. PICK j \in k .. Len(q) : Boundary(q[j])
        BY <1>1, <3>1 DEF Fitting
      <4>2. Len(s) + 1 + j - k \in a + 1 .. Len(t)
        BY <1>1, <3>1
      <4>3. t[Len(s) + 1 + j - k] = q[j]
        BY <1>2
      <4>. QED BY <4>1, <4>2, <4>3
    <3>3. ASSUME NeedsLeave(t[a])
          PROVE  \E j \in a + 1 .. Len(t) : t[j].kind = "leave"
      <4>1. CASE \E b \in a + 1 .. Len(s) : s[b].kind = "leave"
        <5>1. PICK b \in a + 1 .. Len(s) : s[b].kind = "leave"
          BY <4>1
        <5>2. b \in a + 1 .. Len(t) /\ t[b] = s[b]
          BY <1>1, <1>2, <3>1
        <5>. QED BY <5>1, <5>2
      <4>2. CASE \E j \in k .. Len(q) : q[j].kind = "leave"
        <5>1. PICK j \in k .. Len(q) : q[j].kind = "leave"
          BY <4>2
        <5>2. Len(s) + 1 + j - k \in a + 1 .. Len(t)
          BY <1>1, <3>1
        <5>3. t[Len(s) + 1 + j - k] = q[j]
          BY <1>2
        <5>. QED BY <5>1, <5>2, <5>3
      <4>. QED BY <3>1, <3>3, <4>1, <4>2 DEF Fitting
    <3>. QED BY <3>2, <3>3 DEF Backed
  <2>2. CASE a > Len(s)
    <3>1. PICK m \in k .. Len(q) : m = a - Len(s) - 1 + k /\ t[a] = q[m]
      BY <1>9, <2>2, Zenon
    <3>2. \A j \in m + 1 .. Len(q) : /\ Len(s) + 1 + j - k \in a + 1 .. Len(t)
                                     /\ t[Len(s) + 1 + j - k] = q[j]
      <4>1. \A j \in m + 1 .. Len(q) : /\ Len(s) + 1 + j - k \in a + 1 .. Len(t)
                                       /\ j \in k .. Len(q)
        BY <1>1, <2>2, <3>1
      <4>. QED BY <1>2, <4>1
    <3>3. Backed(q, m)
      BY <1>1, <3>1 DEF Stacked
    <3>4. t[a].kind \in Loose => \E j \in a + 1 .. Len(t) : Boundary(t[j])
      <4>. SUFFICES ASSUME t[a].kind \in Loose
                    PROVE  \E j \in a + 1 .. Len(t) : Boundary(t[j])
        OBVIOUS
      <4>1. PICK j \in m + 1 .. Len(q) : Boundary(q[j])
        BY <3>1, <3>3 DEF Backed
      <4>. QED BY <3>2, <4>1
    <3>5. NeedsLeave(t[a]) => \E j \in a + 1 .. Len(t) : t[j].kind = "leave"
      <4>. SUFFICES ASSUME NeedsLeave(t[a])
                    PROVE  \E j \in a + 1 .. Len(t) : t[j].kind = "leave"
        OBVIOUS
      <4>1. PICK j \in m + 1 .. Len(q) : q[j].kind = "leave"
        BY <3>1, <3>3 DEF Backed
      <4>. QED BY <3>2, <4>1
    <3>. QED BY <3>4, <3>5 DEF Backed
  <2>. QED BY <1>1, <2>1, <2>2
<1>. QED BY <1>4, <1>5, <1>6, <1>7 DEF Stacked

-----------------------------------------------------------------------------
(* Counting frames. *)

LEMMA NumberType ==
    ASSUME NEW s, NEW a \in Int, NEW b \in Int, NEW kind, NEW S \in SUBSET (a .. b)
    PROVE  IsFiniteSet(S) /\ Number(s, a, b, kind) \in Nat
<1>1. IsFiniteSet(a .. b)
  BY FS_Interval
<1>2. {i \in a .. b : s[i].kind = kind} \in SUBSET (a .. b)
  OBVIOUS
<1>3. IsFiniteSet({i \in a .. b : s[i].kind = kind}) /\ IsFiniteSet(S)
  BY <1>1, <1>2, FS_Subset
<1>. QED BY <1>3, FS_CardinalityType DEF Number

\* A part is counted as its two halves are.
LEMMA NumberSplit ==
    ASSUME NEW s, NEW a \in Int, NEW b \in Int, NEW c \in Int, NEW kind,
           a <= c + 1, c <= b
    PROVE  Number(s, a, b, kind) = Number(s, a, c, kind) + Number(s, c + 1, b, kind)
<1>. DEFINE L == {i \in a .. c : s[i].kind = kind}
            R == {i \in c + 1 .. b : s[i].kind = kind}
<1>1. {i \in a .. b : s[i].kind = kind} = L \cup R /\ L \cap R = {}
  OBVIOUS
<1>2. IsFiniteSet(L) /\ IsFiniteSet(R)
  <2>1. L \in SUBSET (a .. c) /\ R \in SUBSET (c + 1 .. b) /\ c + 1 \in Int
    OBVIOUS
  <2>. HIDE DEF L, R
  <2>. QED BY <2>1, NumberType
<1>3. Cardinality(L) \in Nat /\ Cardinality(R) \in Nat
  BY <1>2, FS_CardinalityType
<1>4. Cardinality(L \cup R) = Cardinality(L) + Cardinality(R) - Cardinality(L \cap R)
  BY <1>2, FS_Union
<1>5. Cardinality(L \cap R) = 0
  BY <1>1, FS_EmptySet
<1>6. Cardinality(L \cup R) = Cardinality(L) + Cardinality(R)
  BY <1>3, <1>4, <1>5
<1>7. Cardinality({i \in a .. b : s[i].kind = kind}) = Cardinality(L \cup R)
  BY <1>1
<1>. QED BY <1>6, <1>7 DEF Number

\* The frames that are kept are as many as before.
LEMMA NumberShift ==
    ASSUME NEW q \in Seq(Frames), NEW s \in Seq(Frames), NEW t, NEW k, Onto(t, s, q, k), NEW kind
    PROVE  Number(t, Len(s) + 1, Len(t), kind) = Number(q, k, Len(q), kind)
<1>. DEFINE S == {i \in k .. Len(q) : q[i].kind = kind}
            T == {i \in Len(s) + 1 .. Len(t) : t[i].kind = kind}
            f == [i \in S |-> Len(s) + 1 + i - k]
<1>1. /\ Len(q) \in Nat /\ Len(s) \in Nat /\ k \in 1 .. Len(q) + 1 /\ k \in Int
      /\ Len(t) = Len(s) + Len(q) + 1 - k
  BY DEF Onto
<1>2. \A i \in k .. Len(q) : t[Len(s) + 1 + i - k] = q[i]
  BY DEF Onto
<1>3. \A i \in k .. Len(q) : Len(s) + 1 + i - k \in Len(s) + 1 .. Len(t)
  BY ONLY <1>1
<1>4. f \in [S -> T]
  BY ONLY <1>2, <1>3
<1>5. \A i, j \in S : f[i] = f[j] => i = j
  BY ONLY <1>1
<1>6. ASSUME NEW y \in T
      PROVE  \E i \in S : f[i] = y
  <2>. DEFINE i == y - Len(s) - 1 + k
  <2>1. i \in k .. Len(q) /\ Len(s) + 1 + i - k = y
    BY ONLY <1>1, y \in T
  <2>2. q[i].kind = kind
    BY ONLY <1>2, <2>1, y \in T
  <2>. HIDE DEF i
  <2>. QED BY ONLY <2>1, <2>2
<1>7. f \in Bijection(S, T)
  BY <1>4, <1>5, <1>6 DEF Bijection, Injection, Surjection, IsInjective
<1>8. ExistsBijection(S, T)
  BY <1>7 DEF ExistsBijection
<1>9. IsFiniteSet(S)
  <2>1. S \in SUBSET (k .. Len(q))
    OBVIOUS
  <2>2. IsFiniteSet(k .. Len(q))
    BY <1>1, FS_Interval
  <2>. HIDE DEF S
  <2>. QED BY ONLY <2>1, <2>2, FS_Subset
<1>. HIDE DEF S, T, f
<1>10. Cardinality(T) = Cardinality(S)
  BY <1>8, <1>9, FS_Bijection
<1>. QED BY <1>10 DEF Number, S, T

\* No frame, or one, of a kind.
LEMMA NumberZero ==
    ASSUME NEW s, NEW a \in Int, NEW b \in Int, NEW kind,
           \A i \in a .. b : s[i].kind # kind
    PROVE  Number(s, a, b, kind) = 0
<1>1. {i \in a .. b : s[i].kind = kind} = {}
  OBVIOUS
<1>. QED BY <1>1, FS_EmptySet DEF Number

LEMMA NumberOne ==
    ASSUME NEW s, NEW a \in Int, NEW b \in Int, NEW kind, NEW j \in a .. b,
           \A i \in a .. b : s[i].kind = kind <=> i = j
    PROVE  Number(s, a, b, kind) = 1
<1>1. {i \in a .. b : s[i].kind = kind} = {j}
  OBVIOUS
<1>. QED BY <1>1, FS_Singleton DEF Number

\* What is pushed and what is kept are counted apart.
LEMMA NumberOnto ==
    ASSUME NEW q \in Seq(Frames), NEW s \in Seq(Frames), NEW t, NEW k, Onto(t, s, q, k), NEW kind
    PROVE  /\ Number(t, 1, Len(t), kind) = Number(s, 1, Len(s), kind) + Number(q, k, Len(q), kind)
           /\ Number(q, 1, Len(q), kind) = Number(q, 1, k - 1, kind) + Number(q, k, Len(q), kind)
<1>1. /\ Len(q) \in Nat /\ Len(s) \in Nat /\ k \in 1 .. Len(q) + 1
      /\ Len(t) = Len(s) + Len(q) + 1 - k
  BY DEF Onto
<1>2. Number(t, 1, Len(t), kind) = Number(t, 1, Len(s), kind) + Number(t, Len(s) + 1, Len(t), kind)
  <2>1. 1 <= Len(s) + 1 /\ Len(s) <= Len(t) /\ Len(t) \in Int
    BY <1>1
  <2>. QED BY <1>1, <2>1, NumberSplit
<1>3. Number(t, 1, Len(s), kind) = Number(s, 1, Len(s), kind)
  <2>1. {i \in 1 .. Len(s) : t[i].kind = kind} = {i \in 1 .. Len(s) : s[i].kind = kind}
    BY DEF Onto
  <2>. QED BY <2>1 DEF Number
<1>4. Number(t, Len(s) + 1, Len(t), kind) = Number(q, k, Len(q), kind)
  BY NumberShift
<1>5. Number(q, 1, Len(q), kind) = Number(q, 1, k - 1, kind) + Number(q, k, Len(q), kind)
  <2>1. 1 <= (k - 1) + 1 /\ k - 1 <= Len(q) /\ k - 1 \in Int /\ (k - 1) + 1 = k
    BY <1>1
  <2>2. Number(q, 1, Len(q), kind)
          = Number(q, 1, k - 1, kind) + Number(q, (k - 1) + 1, Len(q), kind)
    BY <1>1, <2>1, NumberSplit
  <2>. QED BY <2>1, <2>2
<1>. QED BY <1>2, <1>3, <1>4, <1>5

-----------------------------------------------------------------------------
(* What an operation may rely on. *)

\* The step on top of a stack that is not empty.
LEMMA TopIs ==
    ASSUME IInv, stack # <<>>
    PROVE  /\ stack \in Seq(Frames) /\ Len(stack) \in Nat /\ Len(stack) >= 1
           /\ Top = stack[1] /\ Top \in Frames
           /\ Len(stack) > 1 => Top.kind \notin Base
           /\ Top.kind \notin Base => Len(stack) >= 2
           /\ \A j \in 2 .. Len(stack) : stack[j] \in Frames /\ MayTop(Top, stack[j])
           /\ Local(Top) /\ Backed(stack, 1)
<1>1. stack \in Seq(Frames) /\ Len(stack) \in Nat /\ Len(stack) >= 1 /\ 1 \in 1 .. Len(stack)
  BY DEF IInv, Stacked
<1>2. Top = stack[1] /\ Top \in Frames
  BY <1>1 DEF Top
<1>3. \A j \in 2 .. Len(stack) : stack[j] \in Frames /\ MayTop(Top, stack[j])
  BY <1>1, <1>2 DEF IInv, Stacked
<1>4. Local(Top) /\ Backed(stack, 1)
  BY <1>1, <1>2 DEF IInv, Stacked, AllLocal
<1>5. Len(stack) > 1 => Top.kind \notin Base
  BY <1>1, <1>3 DEF MayTop
<1>6. Top.kind \notin Base => Len(stack) >= 2
  BY <1>1, <1>2 DEF IInv, Stacked
<1>. QED BY <1>1, <1>2, <1>3, <1>4, <1>5, <1>6

\* What a frame is made of.
LEMMA FrameType ==
    \A kind \in Kinds, how \in Hows, n \in Nat :
        /\ Frame(kind, n, how) \in Frames
        /\ Frame(kind, n, how).kind = kind /\ Frame(kind, n, how).n = n
        /\ Frame(kind, n, how).how = how
BY DEF Frame, Frames

\* A step is popped: what is left is in order, and counted.
LEMMA Pop ==
    ASSUME IInv, stack # <<>>, Top.kind \notin Base, stack' = Tail(stack)
    PROVE  /\ Onto(stack', <<>>, stack, 2) /\ 2 <= Len(stack)
           /\ Stacked(stack') /\ Fitting(<<>>, stack, 2)
<1>1. stack \in Seq(Frames) /\ Len(stack) \in Nat /\ Len(stack) >= 2
  BY TopIs
<1>2. stack' \in Seq(Frames) /\ Onto(stack', <<>>, stack, 2)
  BY <1>1, TailOnto
<1>3. <<>> \in Seq(Frames) /\ Len(<<>>) = 0
  OBVIOUS
<1>4. Fitting(<<>>, stack, 2)
  BY <1>3 DEF Fitting
<1>5. Stacked(stack)
  BY DEF IInv
<1>. QED BY <1>1, <1>2, <1>3, <1>4, <1>5, OrderKept

\* Fitting steps replace the step on top.
LEMMA Push ==
    ASSUME IInv, stack # <<>>, Top.kind \notin Base, NEW s \in Seq(Frames),
           stack' = Pushed(s), Fitting(s, stack, 2)
    PROVE  Onto(stack', s, stack, 2) /\ 2 <= Len(stack) /\ Stacked(stack')
<1>1. stack \in Seq(Frames) /\ Len(stack) \in Nat /\ Len(stack) >= 2
  BY TopIs
<1>2. stack' \in Seq(Frames) /\ Onto(stack', s, stack, 2)
  BY <1>1, PushOnto DEF Pushed
<1>5. Stacked(stack)
  BY DEF IInv
<1>. QED BY <1>1, <1>2, <1>5, OrderKept

\* Fitting steps are laid over the step on top.
LEMMA Over ==
    ASSUME IInv, stack # <<>>, NEW s \in Seq(Frames), stack' = s \o stack, Fitting(s, stack, 1)
    PROVE  Onto(stack', s, stack, 1) /\ 1 <= Len(stack) /\ Stacked(stack')
<1>1. stack \in Seq(Frames) /\ Len(stack) \in Nat /\ Len(stack) >= 1
  BY TopIs
<1>2. stack' \in Seq(Frames) /\ Onto(stack', s, stack, 1)
  BY <1>1, OverOnto
<1>5. Stacked(stack)
  BY DEF IInv
<1>. QED BY <1>1, <1>2, <1>5, OrderKept

-----------------------------------------------------------------------------
(* Each part of the invariant, when s lies on what the stack held from k on. *)

\* Every step of the new stack is new, or was in the stack at k or below.
LEMMA EachStep ==
    ASSUME NEW s \in Seq(Frames), NEW q \in Seq(Frames), NEW t, NEW k, Onto(t, s, q, k)
    PROVE  \A j \in 1 .. Len(t) :
             \/ \E a \in 1 .. Len(s) : t[j] = s[a]
             \/ \E m \in k .. Len(q) : t[j] = q[m]
<1>. SUFFICES ASSUME NEW j \in 1 .. Len(t)
              PROVE  \/ \E a \in 1 .. Len(s) : t[j] = s[a]
                     \/ \E m \in k .. Len(q) : t[j] = q[m]
  OBVIOUS
<1>1. CASE j <= Len(s)
  <2>1. j \in 1 .. Len(s) /\ t[j] = s[j]
    BY <1>1 DEF Onto
  <2>. QED BY <2>1
<1>2. CASE ~ (j <= Len(s))
  BY <1>2, OntoAt
<1>. QED BY <1>1, <1>2

\* A step that was kept is in the new stack.
LEMMA StillThere ==
    ASSUME NEW s \in Seq(Frames), NEW q \in Seq(Frames), NEW t, NEW k, Onto(t, s, q, k),
           NEW m \in k .. Len(q)
    PROVE  \E j \in 1 .. Len(t) : t[j] = q[m]
<1>1. /\ Len(q) \in Nat /\ Len(s) \in Nat /\ k \in 1 .. Len(q) + 1
      /\ Len(t) = Len(s) + Len(q) + 1 - k
  BY DEF Onto
<1>2. Len(s) + 1 + m - k \in 1 .. Len(t)
  BY <1>1
<1>3. t[Len(s) + 1 + m - k] = q[m]
  BY DEF Onto
<1>. QED BY <1>2, <1>3

\* Steps still fit the turn they are part of.
LEMMA LocalKept ==
    ASSUME IInv, NEW s \in Seq(Frames), NEW k, Onto(stack', s, stack, k),
           UNCHANGED <<owner, todo, windows>>, \A a \in 1 .. Len(s) : Local(s[a])
    PROVE  AllLocal'
<1>. SUFFICES ASSUME NEW j \in 1 .. Len(stack')
              PROVE  Local(stack[j])'
  BY DEF AllLocal
<1>1. stack \in Seq(Frames) /\ Len(stack) \in Nat /\ k \in 1 .. Len(stack) + 1
  BY DEF IInv, Stacked, Onto
<1>2. \A m \in k .. Len(stack) : Local(stack[m])
  BY <1>1 DEF IInv, AllLocal
<1>3. \/ \E a \in 1 .. Len(s) : stack'[j] = s[a]
      \/ \E m \in k .. Len(stack) : stack'[j] = stack[m]
  BY <1>1, EachStep
<1>4. PICK f : stack'[j] = f /\ Local(f)
  BY <1>2, <1>3
<1>. QED BY <1>4 DEF Local

\* The attack is still against its victim.
LEMMA AimedKept ==
    ASSUME IInv, NEW s \in Seq(Frames), NEW k, Onto(stack', s, stack, k), k <= Len(stack),
           UNCHANGED <<victim, primary, windows>>,
           stack'[1].kind = "window" => victim = stack'[1].n,
           \A a \in 1 .. Len(s) :
             /\ s[a].kind = "combat" => windows[s[a].n] = "none"
             /\ s[a].kind = "leave" /\ s[a].how = "defense" => primary
    PROVE  Aimed'
<1>. SUFFICES ASSUME NEW j \in 1 .. Len(stack')
              PROVE  /\ j = 1 /\ stack'[j].kind = "window" => victim' = stack'[j].n
                     /\ stack'[j].kind = "combat" /\ windows'[stack'[j].n] # "none" =>
                          /\ victim' = stack'[j].n
                          /\ primary' <=> windows'[stack'[j].n] = "primary"
                     /\ stack'[j].kind = "leave" /\ stack'[j].how = "defense" => primary'
  BY DEF Aimed
<1>1. stack \in Seq(Frames) /\ Len(stack) \in Nat /\ k \in 1 .. Len(stack) + 1
  BY DEF IInv, Stacked, Onto
<1>2. \A m \in k .. Len(stack) :
        /\ stack[m].kind = "combat" /\ windows[stack[m].n] # "none" =>
             /\ victim = stack[m].n
             /\ primary <=> windows[stack[m].n] = "primary"
        /\ stack[m].kind = "leave" /\ stack[m].how = "defense" => primary
  BY <1>1 DEF IInv, Aimed
<1>3. \/ \E a \in 1 .. Len(s) : stack'[j] = s[a]
      \/ \E m \in k .. Len(stack) : stack'[j] = stack[m]
  BY <1>1, EachStep
<1>. QED BY <1>2, <1>3

\* Whoever acted still acts.
LEMMA ActorKept ==
    ASSUME IInv, NEW s \in Seq(Frames), NEW k, Onto(stack', s, stack, k), k <= Len(stack),
           UNCHANGED <<owner, actor, saved>>,
           stack[1].kind # "enter", stack'[1].kind # "enter",
           \A a \in 1 .. Len(s) : s[a].kind # "leave",
           \A m \in 1 .. Len(stack) : stack[m].kind = "leave" => m >= k
    PROVE  ActorFits'
<1>1. stack \in Seq(Frames) /\ Len(stack) \in Nat /\ k \in 1 .. Len(stack) + 1
  BY DEF IInv, Stacked, Onto
<1>2. ActorFits
  BY DEF IInv
<1>3. \A j \in 1 .. Len(stack') : stack'[j].kind = "leave" =>
        \E m \in 1 .. Len(stack) : stack'[j] = stack[m]
  BY <1>1, EachStep
<1>4. \A m \in 1 .. Len(stack) : stack[m].kind = "leave" =>
        \E j \in 1 .. Len(stack') : stack'[j] = stack[m]
  BY <1>1, StillThere
<1>. SUFFICES ASSUME owner # Nobody
              PROVE  /\ (\A i \in 1 .. Len(stack') : stack'[i].kind # "leave") => actor = owner
                     /\ \A i \in 1 .. Len(stack') : stack'[i].kind = "leave" =>
                          saved[stack'[i].how] = owner
  BY DEF ActorFits
<1>5. (\A i \in 1 .. Len(stack') : stack'[i].kind # "leave") => actor = owner
  BY <1>2, <1>4 DEF ActorFits
<1>6. \A m \in 1 .. Len(stack) : stack[m].kind = "leave" => saved[stack[m].how] = owner
  BY <1>2 DEF ActorFits
<1>7. \A i \in 1 .. Len(stack') : stack'[i].kind = "leave" => saved[stack'[i].how] = owner
  BY <1>3, <1>6
<1>. QED BY <1>5, <1>7

\* Attacks that were answered with a primary defense are still to be fought.
LEMMA FoughtKept ==
    ASSUME IInv, NEW s \in Seq(Frames), NEW k, Onto(stack', s, stack, k),
           UNCHANGED <<windows, fought>>,
           \A m \in 1 .. Len(stack), n \in DOMAIN windows :
             windows[n] = "primary" /\ stack[m] = Frame("combat", n, "plain") => m >= k
    PROVE  PrimaryFought'
<1>1. stack \in Seq(Frames) /\ Len(stack) \in Nat /\ k \in 1 .. Len(stack) + 1
  <2>1. stack \in Seq(Frames)
    BY DEF IInv, Stacked
  <2>2. k \in 1 .. Len(stack) + 1
    BY DEF Onto
  <2>. QED BY ONLY <2>1, <2>2
<1>. SUFFICES ASSUME NEW n \in DOMAIN windows, windows[n] = "primary"
              PROVE  \/ \E i \in 1 .. Len(stack') : stack'[i] = Frame("combat", n, "plain")
                     \/ \E h \in Heroes : <<n, h>> \in fought
  BY DEF PrimaryFought, Frame
<1>2. CASE \E m \in 1 .. Len(stack) : stack[m] = Frame("combat", n, "plain")
  <2>1. PICK m \in 1 .. Len(stack) : stack[m] = Frame("combat", n, "plain")
    BY <1>2
  <2>2. m >= k
    BY <2>1, Zenon
  <2>3. m \in k .. Len(stack)
    BY ONLY <1>1, <2>2, m \in 1 .. Len(stack)
  <2>4. \E j \in 1 .. Len(stack') : stack'[j] = stack[m]
    BY ONLY <1>1, <2>3, s \in Seq(Frames), Onto(stack', s, stack, k), StillThere
  <2>. QED BY <2>1, <2>4
<1>3. CASE \E h \in Heroes : <<n, h>> \in fought
  BY <1>3
<1>. QED BY <1>2, <1>3 DEF IInv, PrimaryFought

\* A step that changes only the stack, and neither pushes nor pops the change of
\* the actor, a combat or a choice.
LEMMA Quiet ==
    ASSUME IInv, stack # <<>>, Top.kind \notin {"enter", "leave", "combat", "select"},
           NEW s \in Seq(Frames), NEW k \in {1, 2}, Onto(stack', s, stack, k),
           k <= Len(stack), k = 1 => Len(s) > 0, Stacked(stack'),
           UNCHANGED <<owner, actor, saved, victim, primary, todo, windows, fought>>,
           Len(s) > 0 /\ s[1].kind = "window" => victim = s[1].n,
           \A a \in 1 .. Len(s) :
             /\ Local(s[a]) /\ s[a].kind \notin {"enter", "leave"}
             /\ s[a].kind = "combat" => windows[s[a].n] = "none"
    PROVE  AllLocal' /\ Aimed' /\ ActorFits' /\ TurnFits' /\ PrimaryFought'
<1>1. stack \in Seq(Frames) /\ Len(stack) \in Nat /\ Len(s) \in Nat
  BY DEF IInv, Stacked
<1>2. AllLocal'
  BY LocalKept
<1>3. \/ Len(s) > 0 /\ stack'[1] = s[1] /\ 1 \in 1 .. Len(s)
      \/ /\ Len(s) = 0 /\ k = 2 /\ 2 \in 2 .. Len(stack) /\ stack'[1] = stack[2]
         /\ stack[2].kind \notin {"window", "enter"}
  <2>1. CASE Len(s) > 0
    BY <1>1, <2>1 DEF Onto
  <2>2. CASE Len(s) = 0
    <3>1. k = 2 /\ 2 \in 2 .. Len(stack) /\ 0 + 1 + 2 - 2 = 1
      BY <1>1, <2>2
    <3>2. stack'[1] = stack[2]
      BY <2>2, <3>1 DEF Onto
    <3>3. MayTop(Top, stack[2])
      BY <3>1, TopIs
    <3>. QED BY <2>2, <3>1, <3>2, <3>3 DEF MayTop
  <2>. QED BY <1>1, <2>1, <2>2
<1>4. Aimed'
  <2>1. stack'[1].kind = "window" => victim = stack'[1].n
    BY <1>3
  <2>. QED BY <2>1, AimedKept
<1>5. \A m \in 1 .. Len(stack) : stack[m].kind \in {"leave", "combat"} => m >= k
  BY <1>1, TopIs
<1>6. ActorFits'
  <2>1. stack[1].kind # "enter" /\ stack'[1].kind # "enter"
    BY <1>3, TopIs
  <2>2. \A m \in 1 .. Len(stack) : stack[m].kind = "leave" => m >= k
    BY <1>5
  <2>. QED BY <2>1, <2>2, ActorKept
<1>7. TurnFits'
  BY DEF IInv, TurnFits
<1>8. PrimaryFought'
  <2>1. \A m \in 1 .. Len(stack), n \in DOMAIN windows :
          windows[n] = "primary" /\ stack[m] = Frame("combat", n, "plain") => m >= k
    <3>1. \A n : Frame("combat", n, "plain").kind = "combat"
      BY DEF Frame
    <3>. QED BY <1>5, <3>1
  <2>. QED BY <2>1, FoughtKept
<1>. QED BY <1>2, <1>4, <1>6, <1>7, <1>8

\* The steps of a text under another actor are pushed.
LEMMA Wrapped ==
    ASSUME IInv, stack # <<>>, Top.kind \notin {"enter", "leave", "combat", "select"},
           \A m \in 1 .. Len(stack) : stack[m].kind # "leave",
           NEW s \in Seq(Frames), NEW k \in {1, 2}, Onto(stack', s, stack, k),
           k <= Len(stack), Len(s) > 0, s[1].kind = "enter", Stacked(stack'),
           UNCHANGED <<owner, actor, saved, victim, primary, todo, windows, fought>>,
           \A a \in 1 .. Len(s) :
             /\ Local(s[a]) /\ s[a].kind # "combat"
             /\ s[a].kind = "leave" /\ s[a].how = "defense" => primary
    PROVE  AllLocal' /\ Aimed' /\ ActorFits' /\ TurnFits' /\ PrimaryFought'
<1>1. stack \in Seq(Frames) /\ Len(stack) \in Nat /\ Len(s) \in Nat /\ 1 \in 1 .. Len(s)
  BY DEF IInv, Stacked
<1>2. AllLocal'
  BY LocalKept
<1>3. stack'[1] = s[1]
  BY <1>1 DEF Onto
<1>4. Aimed'
  <2>1. stack'[1].kind = "window" => victim = stack'[1].n
    BY <1>3
  <2>. QED BY <2>1, AimedKept
<1>5. ActorFits'
  BY <1>3 DEF IInv, ActorFits
<1>6. TurnFits'
  BY DEF IInv, TurnFits
<1>7. PrimaryFought'
  <2>1. \A m \in 1 .. Len(stack), n \in DOMAIN windows :
          windows[n] = "primary" /\ stack[m] = Frame("combat", n, "plain") => m >= k
    <3>1. \A n : Frame("combat", n, "plain").kind = "combat"
      BY DEF Frame
    <3>2. Top.kind # "combat" /\ Top = stack[1]
      BY TopIs
    <3>3. \A m \in 1 .. Len(stack) : stack[m].kind = "combat" => m >= k
      BY <1>1, <3>2
    <3>. QED BY <3>1, <3>3
  <2>. QED BY <2>1, FoughtKept
<1>. QED BY <1>2, <1>4, <1>5, <1>6, <1>7

-----------------------------------------------------------------------------
(* The steps of card texts. *)

\* Steps on top are counted apart.
LEMMA CountedKept ==
    ASSUME IInv, NEW s \in Seq(Frames), NEW k, Onto(stack', s, stack, k), k <= Len(stack),
           wishes' = (wishes - Number(stack, 1, k - 1, "wish")) + Number(s, 1, Len(s), "wish"),
           \/ depth' = 0
           \/ depth' \in Nat /\ depth' + Number(stack, 1, k - 1, "restore")
                                  <= depth + Number(s, 1, Len(s), "restore")
    PROVE  Counted' /\ wishes' \in Nat /\ depth' \in Nat /\ Finished'
<1>1. /\ stack \in Seq(Frames) /\ Len(stack) \in Nat /\ Len(s) \in Nat
      /\ k \in 1 .. Len(stack) + 1 /\ depth \in Nat /\ wishes \in Nat
      /\ Len(stack') = Len(s) + Len(stack) + 1 - k
  BY DEF IInv, Stacked, Onto, TypeOK
<1>2. \A kind : /\ Number(s, 1, Len(s), kind) \in Nat
                /\ Number(stack, 1, k - 1, kind) \in Nat
                /\ Number(stack, k, Len(stack), kind) \in Nat
                /\ Number(stack', 1, Len(stack'), kind) \in Nat
  <2>1. 1 \in Int /\ Len(s) \in Int /\ k \in Int /\ k - 1 \in Int /\ Len(stack) \in Int
        /\ Len(stack') \in Int
    BY <1>1
  <2>. QED BY <2>1, NumberType
<1>3. \A kind :
        /\ Number(stack', 1, Len(stack'), kind)
             = Number(s, 1, Len(s), kind) + Number(stack, k, Len(stack), kind)
        /\ Number(stack, 1, Len(stack), kind)
             = Number(stack, 1, k - 1, kind) + Number(stack, k, Len(stack), kind)
  BY <1>1, NumberOnto
<1>4. /\ wishes = Number(stack, 1, Len(stack), "wish")
      /\ depth <= Number(stack, 1, Len(stack), "restore")
  BY DEF IInv, Counted
<1>5. wishes' = Number(stack', 1, Len(stack'), "wish")
  <2>. DEFINE x == Number(s, 1, Len(s), "wish")
              y == Number(stack, 1, k - 1, "wish")
              z == Number(stack, k, Len(stack), "wish")
  <2>1. x \in Nat /\ y \in Nat /\ z \in Nat
    BY <1>2, Zenon
  <2>2. Number(stack', 1, Len(stack'), "wish") = x + z /\ wishes = y + z
    BY <1>3, <1>4, Zenon
  <2>3. wishes' = (wishes - y) + x
    OBVIOUS
  <2>. HIDE DEF x, y, z
  <2>. QED BY ONLY <2>1, <2>2, <2>3
<1>6. depth' \in Nat /\ depth' <= Number(stack', 1, Len(stack'), "restore")
  <2>. DEFINE x == Number(s, 1, Len(s), "restore")
              y == Number(stack, 1, k - 1, "restore")
              z == Number(stack, k, Len(stack), "restore")
  <2>1. x \in Nat /\ y \in Nat /\ z \in Nat
    BY <1>2, Zenon
  <2>2. Number(stack', 1, Len(stack'), "restore") = x + z /\ depth <= y + z
    BY <1>3, <1>4, Zenon
  <2>3. depth' = 0 \/ (depth' \in Nat /\ depth' + y <= depth + x)
    OBVIOUS
  <2>. HIDE DEF x, y, z
  <2>. QED BY ONLY <1>1, <2>1, <2>2, <2>3
<1>7. Finished'
  BY <1>1 DEF Finished
<1>. QED BY <1>2, <1>5, <1>6, <1>7 DEF Counted, Number

\* Nothing, or one step, was dropped.
LEMMA NumberTop ==
    ASSUME IInv, stack # <<>>, NEW kind
    PROVE  /\ Number(stack, 1, 0, kind) = 0
           /\ Number(stack, 1, 1, kind) = IF Top.kind = kind THEN 1 ELSE 0
           /\ Number(<<>>, 1, 0, kind) = 0
<1>1. Top = stack[1]
  BY TopIs
<1>2. Number(stack, 1, 0, kind) = 0 /\ Number(<<>>, 1, 0, kind) = 0
  BY NumberZero
<1>3. CASE Top.kind = kind
  <2>1. \A i \in 1 .. 1 : stack[i].kind = kind <=> i = 1
    BY <1>1, <1>3
  <2>2. 1 \in Int /\ 1 \in 1 .. 1
    OBVIOUS
  <2>. QED BY <1>2, <1>3, <2>1, <2>2, NumberOne
<1>4. CASE Top.kind # kind
  <2>1. \A i \in 1 .. 1 : stack[i].kind # kind
    BY <1>1, <1>4
  <2>. QED BY <1>2, <1>4, <2>1, NumberZero
<1>. QED BY <1>3, <1>4

\* A step that is neither a choice nor a combat nor a change of actor is popped.
LEMMA QuietPop ==
    ASSUME IInv, stack # <<>>, stack' = Tail(stack), Top.kind \notin Base,
           Top.kind \notin {"enter", "leave", "combat", "select"},
           UNCHANGED <<owner, actor, saved, victim, primary, todo, windows, fought>>
    PROVE  Stacked(stack') /\ AllLocal' /\ Aimed' /\ ActorFits' /\ TurnFits' /\ PrimaryFought'
<1>1. Onto(stack', <<>>, stack, 2) /\ 2 <= Len(stack) /\ Stacked(stack')
  BY Pop
<1>2. /\ <<>> \in Seq(Frames) /\ 2 \in {1, 2} /\ (2 = 1 => Len(<<>>) > 0)
      /\ ~ (Len(<<>>) > 0) /\ \A a \in 1 .. Len(<<>>) : FALSE
  OBVIOUS
<1>3. /\ Len(<<>>) > 0 /\ <<>>[1].kind = "window" => victim = <<>>[1].n
      /\ \A a \in 1 .. Len(<<>>) :
           /\ Local(<<>>[a]) /\ <<>>[a].kind \notin {"enter", "leave"}
           /\ <<>>[a].kind = "combat" => windows[<<>>[a].n] = "none"
  BY <1>2
<1>4. AllLocal' /\ Aimed' /\ ActorFits' /\ TurnFits' /\ PrimaryFought'
  BY <1>1, <1>2, <1>3, Quiet
<1>. QED BY <1>1, <1>4

\* What a pop leaves is counted.
LEMMA CountedPop ==
    ASSUME IInv, stack # <<>>, stack' = Tail(stack), Top.kind \notin Base,
           wishes' = wishes - (IF Top.kind = "wish" THEN 1 ELSE 0),
           depth' \in Nat, depth' = 0 \/ depth' + (IF Top.kind = "restore" THEN 1 ELSE 0) <= depth
    PROVE  Counted' /\ wishes' \in Nat /\ Finished'
<1>1. Onto(stack', <<>>, stack, 2) /\ 2 <= Len(stack)
  BY Pop
<1>2. <<>> \in Seq(Frames) /\ Len(<<>>) = 0 /\ 2 - 1 = 1
  OBVIOUS
<1>3. /\ Number(stack, 1, 1, "wish") = IF Top.kind = "wish" THEN 1 ELSE 0
      /\ Number(stack, 1, 1, "restore") = IF Top.kind = "restore" THEN 1 ELSE 0
      /\ \A kind : Number(<<>>, 1, 0, kind) = 0
  BY NumberTop
<1>4. depth \in Nat /\ wishes \in Nat
  BY DEF IInv, TypeOK
<1>5. /\ wishes' = (wishes - Number(stack, 1, 2 - 1, "wish")) + Number(<<>>, 1, Len(<<>>), "wish")
      /\ depth' = 0 \/ (depth' \in Nat /\ depth' + Number(stack, 1, 2 - 1, "restore")
                                               <= depth + Number(<<>>, 1, Len(<<>>), "restore"))
  <2>. DEFINE w == IF Top.kind = "wish" THEN 1 ELSE 0
              r == IF Top.kind = "restore" THEN 1 ELSE 0
  <2>1. /\ Number(stack, 1, 2 - 1, "wish") = w /\ Number(stack, 1, 2 - 1, "restore") = r
        /\ Number(<<>>, 1, Len(<<>>), "wish") = 0 /\ Number(<<>>, 1, Len(<<>>), "restore") = 0
    BY <1>2, <1>3, Zenon
  <2>2. w \in Nat /\ r \in Nat
    OBVIOUS
  <2>3. wishes' = wishes - w /\ depth' \in Nat /\ (depth' = 0 \/ depth' + r <= depth)
    OBVIOUS
  <2>. HIDE DEF w, r
  <2>4. wishes' = (wishes - w) + 0
    BY ONLY <1>4, <2>2, <2>3
  <2>5. depth' = 0 \/ (depth' \in Nat /\ depth' + r <= depth + 0)
    <3>1. depth + 0 = depth
      BY <1>4
    <3>. QED BY <2>3, <3>1, Zenon
  <2>. QED BY ONLY <2>1, <2>4, <2>5
<1>. QED BY <1>1, <1>2, <1>5, CountedKept

\* A step is popped that neither ends an action nor counts the Wishes.
LEMMA CountedSame ==
    ASSUME IInv, stack # <<>>, stack' = Tail(stack),
           Top.kind \notin Base, Top.kind # "wish", Top.kind # "restore",
           UNCHANGED <<wishes, depth>>
    PROVE  Counted' /\ wishes' \in Nat /\ Finished'
<1>1. wishes \in Nat /\ depth \in Nat
  BY DEF IInv, TypeOK
<1>2. wishes' = wishes - 0 /\ depth' \in Nat /\ depth' + 0 <= depth
  BY ONLY <1>1, UNCHANGED <<wishes, depth>>
<1>. QED BY <1>2, CountedPop

\* A text ends.
LEMMA TextEndsStep == IInv /\ TextEnds => IInv'
<1>. SUFFICES ASSUME IInv, TextEnds PROVE IInv'
  OBVIOUS
<1>1. /\ stack # <<>> /\ Top.kind = "text" /\ stack' = Tail(stack)
      /\ UNCHANGED <<owner, actor, saved, depth, victim, defender, primary, todo, nested, windows,
                     fought, wishes, over>>
  BY DEF TextEnds, On, contextVars
<1>2. Stacked(stack') /\ AllLocal' /\ Aimed' /\ ActorFits' /\ TurnFits' /\ PrimaryFought'
  BY <1>1, QuietPop DEF Base
<1>3. Counted' /\ wishes' \in Nat /\ Finished'
  BY <1>1, CountedSame DEF Base
<1>4. TypeOK'
  BY <1>1 DEF IInv, TypeOK
<1>. QED BY <1>2, <1>3, <1>4 DEF IInv, Stacked

\* What lies below a text.
LEMMA UnderText ==
    ASSUME IInv, On("text")
    PROVE  /\ stack # <<>> /\ stack \in Seq(Frames) /\ Len(stack) \in Nat /\ Len(stack) >= 2
           /\ Top = stack[1] /\ Top \in Frames /\ Top.kind = "text"
           /\ Top.how \in Keys \cup {"own", "payload"}
           /\ Top.how # "payload" => owner # Nobody
           /\ \E j \in 2 .. Len(stack) : Boundary(stack[j])
           /\ Top.how \in Keys => \E j \in 2 .. Len(stack) : stack[j].kind = "leave"
           /\ \A j \in 2 .. Len(stack) :
                /\ stack[j].kind \notin {"enter", "select", "attack", "window", "deftext"}
                /\ stack[j].kind \in {"combat", "onblock"} => Top.how = "defense"
                /\ stack[j].kind = "leave" => Top.how = stack[j].how
<1>1. stack # <<>> /\ Top.kind = "text"
  BY DEF On
<1>2. /\ stack \in Seq(Frames) /\ Len(stack) \in Nat /\ Len(stack) >= 2
      /\ Top = stack[1] /\ Top \in Frames
      /\ \A j \in 2 .. Len(stack) : MayTop(Top, stack[j])
      /\ Local(Top) /\ Backed(stack, 1)
  BY <1>1, TopIs DEF Base
<1>3. /\ Top.how \in Keys \cup {"own", "payload"}
      /\ Top.how # "payload" => owner # Nobody
  BY <1>1, <1>2 DEF Local
<1>4. /\ \E j \in 2 .. Len(stack) : Boundary(stack[j])
      /\ Top.how \in Keys => \E j \in 2 .. Len(stack) : stack[j].kind = "leave"
  BY <1>1, <1>2 DEF Backed, Loose, NeedsLeave
<1>5. ASSUME NEW j \in 2 .. Len(stack)
      PROVE  /\ stack[j].kind \notin {"enter", "select", "attack", "window", "deftext"}
             /\ stack[j].kind \in {"combat", "onblock"} => Top.how = "defense"
             /\ stack[j].kind = "leave" => Top.how = stack[j].how
  BY <1>1, <1>2 DEF MayTop, Foreign, OwnEnd
<1>. QED BY <1>1, <1>2, <1>3, <1>4, <1>5

\* An action that a text performs: its text, and the end of its context.
LEMMA PerformStep == IInv /\ Perform => IInv'
<1>. SUFFICES ASSUME IInv, Perform PROVE IInv'
  OBVIOUS
<1>1. PICK how \in {"own", "defense", "forced"} :
        OnText(how) /\ Nest(<<Frame("text", 0, how), Frame("restore", 0, "own")>>)
  BY DEF Perform
<1>. DEFINE s == <<Frame("text", 0, how), Frame("restore", 0, "own")>>
<1>2. /\ On("text") /\ Top.how = how /\ stack' = s \o stack /\ nested' = nested + 1
      /\ depth' = depth + 1
      /\ UNCHANGED <<owner, actor, saved, victim, defender, primary, todo, windows, fought,
                     wishes, over>>
  BY <1>1 DEF Perform, OnText, Nest
<1>3. /\ s \in Seq(Frames) /\ Len(s) = 2
      /\ s[1].kind = "text" /\ s[1].how = how /\ s[1].n = 0
      /\ s[2].kind = "restore" /\ s[2].how = "own" /\ s[2].n = 0
  <2>. DEFINE f == Frame("text", 0, how)
              g == Frame("restore", 0, "own")
  <2>1. /\ f \in Frames /\ f.kind = "text" /\ f.how = how /\ f.n = 0
        /\ g \in Frames /\ g.kind = "restore" /\ g.how = "own" /\ g.n = 0
    <3>1. how \in Hows /\ 0 \in Nat
      BY DEF Hows, Keys
    <3>2. "text" \in Kinds /\ "restore" \in Kinds /\ "own" \in Hows
      BY DEF Kinds, Loose, Hows
    <3>3. f \in Frames /\ f.kind = "text" /\ f.how = how /\ f.n = 0
      BY <3>1, <3>2, FrameType
    <3>4. g \in Frames /\ g.kind = "restore" /\ g.how = "own" /\ g.n = 0
      BY <3>1, <3>2, FrameType
    <3>. QED BY <3>3, <3>4
  <2>. HIDE DEF f, g
  <2>2. <<f, g>> \in Seq(Frames) /\ Len(<<f, g>>) = 2 /\ <<f, g>>[1] = f /\ <<f, g>>[2] = g
    BY <2>1
  <2>3. s = <<f, g>>
    BY DEF f, g, s
  <2>. QED BY <2>1, <2>2, <2>3
<1>. HIDE DEF s
<1>4. Fitting(s, stack, 1)
  <2>1. \A a, b \in 1 .. Len(s) : a < b => MayTop(s[a], s[b])
    BY <1>3 DEF MayTop, Base
  <2>2. ASSUME NEW a \in 1 .. Len(s), NEW i \in 1 .. Len(stack)
        PROVE  MayTop(s[a], stack[i])
    <3>1. CASE i = 1
      BY <1>2, <1>3, <3>1, UnderText DEF MayTop, Base
    <3>2. CASE i # 1
      <4>1. i \in 2 .. Len(stack)
        BY <1>2, <3>2, UnderText
      <4>. QED BY <1>2, <1>3, <4>1, UnderText DEF MayTop, Base, Foreign, OwnEnd
    <3>. QED BY <3>1, <3>2
  <2>3. \A a \in 1 .. Len(s) - 1 : Follows(s[a], s[a + 1])
    <3>1. Follows(s[1], s[2]) /\ 1 + 1 = 2
      BY <1>3 DEF Follows, OthersEnd
    <3>2. \A a \in 1 .. Len(s) - 1 : a = 1
      BY <1>3
    <3>. QED BY <3>1, <3>2
  <2>4. Follows(s[Len(s)], stack[1])
    BY <1>2, <1>3, UnderText DEF Follows, OthersEnd
  <2>5. \E j \in 1 .. Len(stack) : Boundary(stack[j])
    BY <1>2, UnderText
  <2>6. \A a \in 1 .. Len(s) : NeedsLeave(s[a]) =>
          \E j \in 1 .. Len(stack) : stack[j].kind = "leave"
    BY <1>2, <1>3, UnderText DEF NeedsLeave
  <2>. QED BY <2>1, <2>2, <2>3, <2>4, <2>5, <2>6 DEF Fitting
<1>5. Onto(stack', s, stack, 1) /\ 1 <= Len(stack) /\ Stacked(stack') /\ stack # <<>>
  BY <1>2, <1>3, <1>4, Over, UnderText
<1>6. AllLocal' /\ Aimed' /\ ActorFits' /\ TurnFits' /\ PrimaryFought'
  <2>1. \A a \in 1 .. Len(s) :
          /\ Local(s[a]) /\ s[a].kind \notin {"enter", "leave"}
          /\ s[a].kind = "combat" => windows[s[a].n] = "none"
    BY <1>1, <1>2, <1>3, UnderText DEF Local, OfAttack, Keys
  <2>2. Top.kind \notin {"enter", "leave", "combat", "select"} /\ s[1].kind # "window"
        /\ 1 \in {1, 2} /\ Len(s) > 0
    BY <1>2, <1>3, UnderText
  <2>. QED BY <1>2, <1>3, <1>5, <2>1, <2>2, Quiet
<1>7. Counted' /\ wishes' \in Nat /\ depth' \in Nat /\ Finished'
  <2>1. /\ Number(stack, 1, 1 - 1, "wish") = 0 /\ Number(stack, 1, 1 - 1, "restore") = 0
    BY <1>5, NumberTop
  <2>2. Number(s, 1, Len(s), "wish") = 0
    BY <1>3, NumberZero
  <2>3. Number(s, 1, Len(s), "restore") = 1
    <3>1. /\ 1 \in Int /\ Len(s) \in Int /\ 2 \in 1 .. Len(s)
          /\ \A i \in 1 .. Len(s) : s[i].kind = "restore" <=> i = 2
      BY <1>3
    <3>. QED BY <3>1, NumberOne
  <2>4. depth \in Nat /\ wishes \in Nat
    BY DEF IInv, TypeOK
  <2>5. /\ wishes' = (wishes - Number(stack, 1, 1 - 1, "wish")) + Number(s, 1, Len(s), "wish")
        /\ depth' \in Nat
        /\ depth' + Number(stack, 1, 1 - 1, "restore") <= depth + Number(s, 1, Len(s), "restore")
    BY <1>2, <2>1, <2>2, <2>3, <2>4
  <2>. QED BY <1>3, <1>5, <2>5, CountedKept
<1>8. TypeOK'
  BY <1>2, <1>7 DEF IInv, TypeOK
<1>. QED BY <1>5, <1>6, <1>7, <1>8 DEF IInv, Stacked

\* A text of the acting hero is done by the hero whose turn it is.
LEMMA UnderOwn ==
    ASSUME IInv, On("text"), Top.how = "own"
    PROVE  \A j \in 1 .. Len(stack) : stack[j].kind \notin OfAttack \cup {"enter", "leave"}
<1>1. ASSUME NEW j \in 2 .. Len(stack)
      PROVE  stack[j].kind \notin OfAttack \cup {"enter"}
  BY UnderText DEF OfAttack
<1>2. ASSUME NEW j \in 2 .. Len(stack), stack[j].kind = "leave"
      PROVE  FALSE
  <2>1. stack[j].how = "own"
    BY <1>2, UnderText
  <2>2. Local(stack[j])
    BY UnderText DEF IInv, AllLocal
  <2>. QED BY <1>2, <2>1, <2>2 DEF Local, Keys
<1>3. Len(stack) \in Nat /\ Top = stack[1] /\ Top.kind = "text"
  BY UnderText
<1>. QED BY <1>1, <1>2, <1>3 DEF OfAttack

\* An attack that a text makes.
LEMMA AttackStep == IInv /\ Attack => IInv'
<1>. SUFFICES ASSUME IInv, Attack PROVE IInv'
  OBVIOUS
<1>1. PICK how \in {"mandatory", "optional"} :
        stack' = <<Frame("attack", Len(windows'), how)>> \o stack
  BY DEF Attack
<1>. DEFINE s == <<Frame("attack", Len(windows'), how)>>
<1>2. /\ On("text") /\ Top.how = "own" /\ stack' = s \o stack
      /\ windows' = Append(windows, "none")
      /\ UNCHANGED <<owner, actor, saved, depth, victim, defender, primary, todo, nested, fought,
                     wishes, over>>
  BY <1>1 DEF Attack, OnText, contextVars
<1>3. /\ windows \in Seq(Answers) /\ windows' \in Seq(Answers) /\ Len(windows) \in Nat
      /\ Len(windows') = Len(windows) + 1 /\ windows'[Len(windows) + 1] = "none"
      /\ \A n \in 1 .. Len(windows) : windows'[n] = windows[n]
  <2>1. windows \in Seq(Answers) /\ "none" \in Answers
    BY DEF IInv, TypeOK, Answers
  <2>. QED BY ONLY <1>2, <2>1
<1>4. /\ s \in Seq(Frames) /\ Len(s) = 1 /\ s[1].kind = "attack" /\ s[1].n = Len(windows')
  <2>. DEFINE f == Frame("attack", Len(windows'), how)
  <2>1. Len(windows') \in Nat /\ "attack" \in Kinds /\ how \in Hows
    <3>1. Len(windows') \in Nat
      BY ONLY <1>3
    <3>2. "attack" \in Kinds /\ how \in Hows
      BY DEF Kinds, Loose, OfAttack, Hows
    <3>. QED BY <3>1, <3>2
  <2>2. f \in Frames /\ f.kind = "attack" /\ f.n = Len(windows')
    BY <2>1, FrameType
  <2>. HIDE DEF f
  <2>3. <<f>> \in Seq(Frames) /\ Len(<<f>>) = 1 /\ <<f>>[1] = f
    BY <2>2
  <2>4. s = <<f>>
    BY DEF f, s
  <2>. QED BY <2>2, <2>3, <2>4
<1>. HIDE DEF s
<1>5. /\ stack # <<>> /\ stack \in Seq(Frames) /\ Len(stack) \in Nat /\ Len(stack) >= 2
      /\ Top = stack[1] /\ Top.kind = "text" /\ owner # Nobody
      /\ \E j \in 1 .. Len(stack) : Boundary(stack[j])
      /\ \A j \in 1 .. Len(stack) : stack[j].kind \notin OfAttack \cup {"enter", "leave"}
  BY <1>2, UnderText, UnderOwn
<1>6. Fitting(s, stack, 1)
  <2>1. \A a, b \in 1 .. Len(s) : a < b => MayTop(s[a], s[b])
    BY <1>4
  <2>2. \A a \in 1 .. Len(s), i \in 1 .. Len(stack) : MayTop(s[a], stack[i])
    BY <1>4, <1>5 DEF MayTop, Base, OfAttack
  <2>3. \A a \in 1 .. Len(s) - 1 : Follows(s[a], s[a + 1])
    BY <1>4
  <2>4. Follows(s[Len(s)], stack[1])
    BY <1>4, <1>5 DEF Follows, OthersEnd
  <2>5. \A a \in 1 .. Len(s) : ~ NeedsLeave(s[a])
    BY <1>4 DEF NeedsLeave
  <2>. QED BY <1>5, <2>1, <2>2, <2>3, <2>4, <2>5 DEF Fitting
<1>7. Onto(stack', s, stack, 1) /\ 1 <= Len(stack) /\ Stacked(stack')
  BY <1>2, <1>4, <1>5, <1>6, Over
<1>8. \A j \in 1 .. Len(stack') :
        \/ stack'[j] = s[1]
        \/ \E m \in 1 .. Len(stack) : stack'[j] = stack[m]
  BY <1>4, <1>5, <1>7, EachStep
<1>9. stack'[1] = s[1] /\ 1 \in 1 .. Len(stack')
  BY <1>4, <1>5, <1>7 DEF Onto
<1>10. AllLocal'
  <2>. SUFFICES ASSUME NEW j \in 1 .. Len(stack')
                PROVE  Local(stack[j])'
    BY DEF AllLocal
  <2>1. CASE stack'[j] = s[1]
    BY <1>2, <1>3, <1>4, <1>5, <2>1 DEF Local, OfAttack
  <2>2. CASE \E m \in 1 .. Len(stack) : stack'[j] = stack[m]
    <3>1. PICK m \in 1 .. Len(stack) : stack'[j] = stack[m]
      BY <2>2
    <3>2. Local(stack[m])
      BY <1>5 DEF IInv, AllLocal
    <3>. QED BY <1>2, <1>5, <3>1, <3>2 DEF Local, OfAttack
  <2>. QED BY <1>8, <2>1, <2>2
<1>11. Aimed'
  <2>. SUFFICES ASSUME NEW j \in 1 .. Len(stack')
                PROVE  stack'[j].kind \notin {"window", "combat", "leave"}
    BY DEF Aimed
  <2>. QED BY <1>4, <1>5, <1>8 DEF OfAttack
<1>12. ActorFits'
  <2>1. actor = owner
    BY <1>5 DEF IInv, ActorFits
  <2>2. \A j \in 1 .. Len(stack') : stack'[j].kind # "leave"
    BY <1>4, <1>5, <1>8
  <2>. QED BY <1>2, <2>1, <2>2 DEF ActorFits
<1>13. TurnFits'
  BY <1>2, <1>5 DEF IInv, TurnFits
<1>14. PrimaryFought'
  <2>. SUFFICES ASSUME NEW n \in DOMAIN windows', windows'[n] = "primary"
                PROVE  \E h \in Heroes : <<n, h>> \in fought'
    BY DEF PrimaryFought
  <2>1. n \in 1 .. Len(windows) /\ windows[n] = "primary"
    BY <1>3
  <2>2. ~ \E i \in 1 .. Len(stack) : stack[i] = Frame("combat", n, "plain")
    <3>1. Frame("combat", n, "plain").kind = "combat"
      BY DEF Frame
    <3>. QED BY <1>5, <3>1 DEF OfAttack
  <2>3. n \in DOMAIN windows
    BY <1>3, <2>1
  <2>4. \E h \in Heroes : <<n, h>> \in fought
    BY <2>1, <2>2, <2>3 DEF IInv, PrimaryFought
  <2>. QED BY <1>2, <2>4
<1>15. Counted' /\ wishes' \in Nat /\ depth' \in Nat /\ Finished'
  <2>1. /\ Number(stack, 1, 1 - 1, "wish") = 0 /\ Number(stack, 1, 1 - 1, "restore") = 0
    BY <1>5, NumberTop
  <2>2. Number(s, 1, Len(s), "wish") = 0 /\ Number(s, 1, Len(s), "restore") = 0
    BY <1>4, NumberZero
  <2>3. depth \in Nat /\ wishes \in Nat
    BY DEF IInv, TypeOK
  <2>4. /\ wishes' = (wishes - Number(stack, 1, 1 - 1, "wish")) + Number(s, 1, Len(s), "wish")
        /\ depth' \in Nat
        /\ depth' + Number(stack, 1, 1 - 1, "restore") <= depth + Number(s, 1, Len(s), "restore")
    BY <1>2, <2>1, <2>2, <2>3
  <2>. QED BY <1>4, <1>7, <2>4, CountedKept
<1>16. TypeOK'
  BY <1>2, <1>3, <1>15 DEF IInv, TypeOK
<1>. QED BY <1>7, <1>10, <1>11, <1>12, <1>13, <1>14, <1>15, <1>16 DEF IInv, Stacked

\* The defender is moved as their own card says.
LEMMA ForceMoveStep == IInv /\ ForceMove => IInv'
<1>. SUFFICES ASSUME IInv, ForceMove PROVE IInv'
  OBVIOUS
<1>. DEFINE s == <<Frame("enter", 0, "forced"), Frame("text", 0, "forced"),
                   Frame("restore", 0, "other"), Frame("leave", 0, "forced")>>
<1>1. /\ On("text") /\ Top.how = "own" /\ stack' = s \o stack /\ nested' = nested + 1
      /\ depth' = depth + 1
      /\ UNCHANGED <<owner, actor, saved, victim, defender, primary, todo, windows, fought,
                     wishes, over>>
  BY DEF ForceMove, OnText, Nest
<1>2. /\ s \in Seq(Frames) /\ Len(s) = 4
      /\ s[1].kind = "enter" /\ s[1].how = "forced" /\ s[1].n = 0
      /\ s[2].kind = "text" /\ s[2].how = "forced" /\ s[2].n = 0
      /\ s[3].kind = "restore" /\ s[3].how = "other" /\ s[3].n = 0
      /\ s[4].kind = "leave" /\ s[4].how = "forced" /\ s[4].n = 0
  <2>. DEFINE e == Frame("enter", 0, "forced")
              f == Frame("text", 0, "forced")
              g == Frame("restore", 0, "other")
              h == Frame("leave", 0, "forced")
  <2>1. /\ "enter" \in Kinds /\ "text" \in Kinds /\ "restore" \in Kinds /\ "leave" \in Kinds
        /\ "forced" \in Hows /\ "other" \in Hows /\ 0 \in Nat
    BY DEF Kinds, Loose, Hows, Keys
  <2>2. e \in Frames /\ e.kind = "enter" /\ e.how = "forced" /\ e.n = 0
    BY <2>1, FrameType
  <2>3. f \in Frames /\ f.kind = "text" /\ f.how = "forced" /\ f.n = 0
    BY <2>1, FrameType
  <2>4. g \in Frames /\ g.kind = "restore" /\ g.how = "other" /\ g.n = 0
    BY <2>1, FrameType
  <2>5. h \in Frames /\ h.kind = "leave" /\ h.how = "forced" /\ h.n = 0
    BY <2>1, FrameType
  <2>. HIDE DEF e, f, g, h
  <2>6. /\ <<e, f, g, h>> \in Seq(Frames) /\ Len(<<e, f, g, h>>) = 4
        /\ <<e, f, g, h>>[1] = e /\ <<e, f, g, h>>[2] = f
        /\ <<e, f, g, h>>[3] = g /\ <<e, f, g, h>>[4] = h
    BY <2>2, <2>3, <2>4, <2>5
  <2>7. s = <<e, f, g, h>>
    BY DEF e, f, g, h, s
  <2>. QED BY <2>2, <2>3, <2>4, <2>5, <2>6, <2>7
<1>. HIDE DEF s
<1>3. /\ stack # <<>> /\ stack \in Seq(Frames) /\ Len(stack) \in Nat /\ Len(stack) >= 2
      /\ Top = stack[1] /\ Top.kind = "text" /\ owner # Nobody
      /\ \E j \in 1 .. Len(stack) : Boundary(stack[j])
      /\ \A j \in 1 .. Len(stack) : stack[j].kind \notin OfAttack \cup {"enter", "leave"}
  BY <1>1, UnderText, UnderOwn
<1>4. Fitting(s, stack, 1)
  <2>1. \A a, b \in 1 .. Len(s) : a < b => MayTop(s[a], s[b])
    <3>. SUFFICES ASSUME NEW a \in 1 .. 4, NEW b \in 1 .. 4, a < b
                  PROVE  MayTop(s[a], s[b])
      BY <1>2
    <3>1. \/ a = 1 /\ b \in {2, 3, 4}
          \/ a = 2 /\ b \in {3, 4}
          \/ a = 3 /\ b = 4
      OBVIOUS
    <3>. QED BY <1>2, <3>1 DEF MayTop, Base
  <2>2. \A a \in 1 .. Len(s), i \in 1 .. Len(stack) : MayTop(s[a], stack[i])
    <3>. SUFFICES ASSUME NEW a \in 1 .. 4, NEW i \in 1 .. Len(stack)
                  PROVE  MayTop(s[a], stack[i])
      BY <1>2
    <3>1. s[a].kind \notin Base
      BY <1>2 DEF Base
    <3>. QED BY <1>3, <3>1 DEF MayTop, OfAttack
  <2>3. \A a \in 1 .. Len(s) - 1 : Follows(s[a], s[a + 1])
    <3>1. Follows(s[1], s[2]) /\ Follows(s[2], s[3]) /\ Follows(s[3], s[4])
      BY <1>2 DEF Follows, OthersEnd
    <3>2. \A a \in 1 .. Len(s) - 1 : \/ a = 1 /\ a + 1 = 2
                                     \/ a = 2 /\ a + 1 = 3
                                     \/ a = 3 /\ a + 1 = 4
      BY <1>2
    <3>. QED BY <3>1, <3>2
  <2>4. Follows(s[Len(s)], stack[1])
    BY <1>2, <1>3 DEF Follows, OthersEnd
  <2>5. \A a \in 1 .. Len(s) : NeedsLeave(s[a]) =>
          \E b \in a + 1 .. Len(s) : s[b].kind = "leave"
    <3>. SUFFICES ASSUME NEW a \in 1 .. 4, NeedsLeave(s[a])
                  PROVE  \E b \in a + 1 .. 4 : s[b].kind = "leave"
      BY <1>2
    <3>1. a # 4
      BY <1>2 DEF NeedsLeave
    <3>2. 4 \in a + 1 .. 4
      BY <3>1
    <3>. QED BY <1>2, <3>2
  <2>. QED BY <1>3, <2>1, <2>2, <2>3, <2>4, <2>5 DEF Fitting
<1>5. Onto(stack', s, stack, 1) /\ 1 <= Len(stack) /\ Stacked(stack')
  BY <1>1, <1>2, <1>3, <1>4, Over
<1>6. AllLocal' /\ Aimed' /\ ActorFits' /\ TurnFits' /\ PrimaryFought'
  <2>1. \A a \in 1 .. Len(s) :
          /\ Local(s[a]) /\ s[a].kind # "combat"
          /\ s[a].kind = "leave" /\ s[a].how = "defense" => primary
    <3>. SUFFICES ASSUME NEW a \in {1, 2, 3, 4}
                  PROVE  /\ Local(s[a]) /\ s[a].kind # "combat"
                         /\ ~ (s[a].kind = "leave" /\ s[a].how = "defense")
      BY <1>2
    <3>. QED BY <1>2, <1>3 DEF Local, OfAttack, Keys
  <2>2. Top.kind \notin {"enter", "leave", "combat", "select"} /\ s[1].kind = "enter"
        /\ 1 \in {1, 2} /\ Len(s) > 0
        /\ \A m \in 1 .. Len(stack) : stack[m].kind # "leave"
    BY <1>2, <1>3
  <2>. QED BY <1>1, <1>2, <1>3, <1>5, <2>1, <2>2, Wrapped
<1>7. Counted' /\ wishes' \in Nat /\ depth' \in Nat /\ Finished'
  <2>1. /\ Number(stack, 1, 1 - 1, "wish") = 0 /\ Number(stack, 1, 1 - 1, "restore") = 0
    BY <1>3, NumberTop
  <2>2. Number(s, 1, Len(s), "wish") = 0
    <3>1. /\ 1 \in Int /\ Len(s) \in Int
          /\ \A i \in 1 .. Len(s) : s[i].kind # "wish"
      BY <1>2
    <3>. QED BY <3>1, NumberZero
  <2>3. Number(s, 1, Len(s), "restore") = 1
    <3>1. /\ 1 \in Int /\ Len(s) \in Int /\ 3 \in 1 .. Len(s)
          /\ \A i \in 1 .. Len(s) : s[i].kind = "restore" <=> i = 3
      BY <1>2
    <3>. QED BY <3>1, NumberOne
  <2>4. depth \in Nat /\ wishes \in Nat
    BY DEF IInv, TypeOK
  <2>5. /\ wishes' = (wishes - Number(stack, 1, 1 - 1, "wish")) + Number(s, 1, Len(s), "wish")
        /\ depth' \in Nat
        /\ depth' + Number(stack, 1, 1 - 1, "restore") <= depth + Number(s, 1, Len(s), "restore")
    BY <1>1, <2>1, <2>2, <2>3, <2>4
  <2>. QED BY <1>2, <1>5, <2>5, CountedKept
<1>8. TypeOK'
  BY <1>1, <1>7 DEF IInv, TypeOK
<1>. QED BY <1>5, <1>6, <1>7, <1>8 DEF IInv, Stacked

\* A Wish begins: a spell's text, its end, and the count of the Wishes.
LEMMA CastWishStep == IInv /\ CastWish => IInv'
<1>. SUFFICES ASSUME IInv, CastWish PROVE IInv'
  OBVIOUS
<1>. DEFINE s == <<Frame("text", 0, "own"), Frame("restore", 0, "own"), Step("wish")>>
<1>1. /\ On("text") /\ Top.how = "own" /\ stack' = s \o stack /\ nested' = nested + 1
      /\ depth' = depth + 1 /\ wishes' = wishes + 1
      /\ UNCHANGED <<owner, actor, saved, victim, defender, primary, todo, windows, fought, over>>
  BY DEF CastWish, OnText, Nest
<1>2. /\ s \in Seq(Frames) /\ Len(s) = 3
      /\ s[1].kind = "text" /\ s[1].how = "own"
      /\ s[2].kind = "restore" /\ s[2].how = "own"
      /\ s[3].kind = "wish" /\ s[3].how = "plain"
  <2>. DEFINE e == Frame("text", 0, "own")
              f == Frame("restore", 0, "own")
              g == Frame("wish", 0, "plain")
  <2>1. /\ "text" \in Kinds /\ "restore" \in Kinds /\ "wish" \in Kinds
        /\ "own" \in Hows /\ "plain" \in Hows /\ 0 \in Nat
    BY DEF Kinds, Loose, Hows
  <2>2. e \in Frames /\ e.kind = "text" /\ e.how = "own"
    BY <2>1, FrameType
  <2>3. f \in Frames /\ f.kind = "restore" /\ f.how = "own"
    BY <2>1, FrameType
  <2>4. g \in Frames /\ g.kind = "wish" /\ g.how = "plain"
    BY <2>1, FrameType
  <2>. HIDE DEF e, f, g
  <2>5. /\ <<e, f, g>> \in Seq(Frames) /\ Len(<<e, f, g>>) = 3
        /\ <<e, f, g>>[1] = e /\ <<e, f, g>>[2] = f /\ <<e, f, g>>[3] = g
    BY <2>2, <2>3, <2>4
  <2>6. s = <<e, f, g>>
    BY DEF e, f, g, s, Step
  <2>. QED BY <2>2, <2>3, <2>4, <2>5, <2>6
<1>. HIDE DEF s
<1>3. /\ stack # <<>> /\ stack \in Seq(Frames) /\ Len(stack) \in Nat /\ Len(stack) >= 2
      /\ Top = stack[1] /\ Top.kind = "text" /\ owner # Nobody
      /\ \E j \in 1 .. Len(stack) : Boundary(stack[j])
      /\ \A j \in 1 .. Len(stack) : stack[j].kind \notin OfAttack \cup {"enter", "leave"}
  BY <1>1, UnderText, UnderOwn
<1>4. Fitting(s, stack, 1)
  <2>1. \A a, b \in 1 .. Len(s) : a < b => MayTop(s[a], s[b])
    <3>. SUFFICES ASSUME NEW a \in 1 .. 3, NEW b \in 1 .. 3, a < b
                  PROVE  MayTop(s[a], s[b])
      BY <1>2
    <3>1. \/ a = 1 /\ b \in {2, 3}
          \/ a = 2 /\ b = 3
      OBVIOUS
    <3>. QED BY <1>2, <3>1 DEF MayTop, Base
  <2>2. \A a \in 1 .. Len(s), i \in 1 .. Len(stack) : MayTop(s[a], stack[i])
    <3>. SUFFICES ASSUME NEW a \in 1 .. 3, NEW i \in 1 .. Len(stack)
                  PROVE  MayTop(s[a], stack[i])
      BY <1>2
    <3>1. s[a].kind \notin Base
      BY <1>2 DEF Base
    <3>. QED BY <1>3, <3>1 DEF MayTop, OfAttack
  <2>3. \A a \in 1 .. Len(s) - 1 : Follows(s[a], s[a + 1])
    <3>1. Follows(s[1], s[2]) /\ Follows(s[2], s[3])
      BY <1>2 DEF Follows, OthersEnd
    <3>2. \A a \in 1 .. Len(s) - 1 : \/ a = 1 /\ a + 1 = 2
                                     \/ a = 2 /\ a + 1 = 3
      BY <1>2
    <3>. QED BY <3>1, <3>2
  <2>4. Follows(s[Len(s)], stack[1])
    BY <1>2, <1>3 DEF Follows, OthersEnd
  <2>5. \A a \in 1 .. Len(s) : ~ NeedsLeave(s[a])
    <3>. SUFFICES ASSUME NEW a \in {1, 2, 3} PROVE ~ NeedsLeave(s[a])
      BY <1>2
    <3>. QED BY <1>2 DEF NeedsLeave, Keys
  <2>. QED BY <1>3, <2>1, <2>2, <2>3, <2>4, <2>5 DEF Fitting
<1>5. Onto(stack', s, stack, 1) /\ 1 <= Len(stack) /\ Stacked(stack')
  BY <1>1, <1>2, <1>3, <1>4, Over
<1>6. AllLocal' /\ Aimed' /\ ActorFits' /\ TurnFits' /\ PrimaryFought'
  <2>1. \A a \in 1 .. Len(s) :
          /\ Local(s[a]) /\ s[a].kind \notin {"enter", "leave"}
          /\ s[a].kind = "combat" => windows[s[a].n] = "none"
    <3>. SUFFICES ASSUME NEW a \in {1, 2, 3}
                  PROVE  /\ Local(s[a]) /\ s[a].kind \notin {"enter", "leave", "combat"}
      BY <1>2
    <3>. QED BY <1>2, <1>3 DEF Local, OfAttack
  <2>2. Top.kind \notin {"enter", "leave", "combat", "select"} /\ s[1].kind # "window"
        /\ 1 \in {1, 2} /\ Len(s) > 0
    BY <1>2, <1>3
  <2>. QED BY <1>1, <1>2, <1>3, <1>5, <2>1, <2>2, Quiet
<1>7. Counted' /\ wishes' \in Nat /\ depth' \in Nat /\ Finished'
  <2>1. /\ Number(stack, 1, 1 - 1, "wish") = 0 /\ Number(stack, 1, 1 - 1, "restore") = 0
    BY <1>3, NumberTop
  <2>2. Number(s, 1, Len(s), "wish") = 1
    <3>1. /\ 1 \in Int /\ Len(s) \in Int /\ 3 \in 1 .. Len(s)
          /\ \A i \in 1 .. Len(s) : s[i].kind = "wish" <=> i = 3
      BY <1>2
    <3>. QED BY <3>1, NumberOne
  <2>3. Number(s, 1, Len(s), "restore") = 1
    <3>1. /\ 1 \in Int /\ Len(s) \in Int /\ 2 \in 1 .. Len(s)
          /\ \A i \in 1 .. Len(s) : s[i].kind = "restore" <=> i = 2
      BY <1>2
    <3>. QED BY <3>1, NumberOne
  <2>4. depth \in Nat /\ wishes \in Nat
    BY DEF IInv, TypeOK
  <2>5. /\ wishes' = (wishes - Number(stack, 1, 1 - 1, "wish")) + Number(s, 1, Len(s), "wish")
        /\ depth' \in Nat
        /\ depth' + Number(stack, 1, 1 - 1, "restore") <= depth + Number(s, 1, Len(s), "restore")
    BY <1>1, <2>1, <2>2, <2>3, <2>4
  <2>. QED BY <1>2, <1>5, <2>5, CountedKept
<1>8. TypeOK'
  BY <1>1, <1>7 DEF IInv, TypeOK
<1>. QED BY <1>5, <1>6, <1>7, <1>8 DEF IInv, Stacked

-----------------------------------------------------------------------------
(* The steps that end an action, a Wish, a turn's last choice or a payload. *)

\* An action context is restored.
LEMMA RestoreStep == IInv /\ Restore => IInv'
<1>. SUFFICES ASSUME IInv, Restore PROVE IInv'
  OBVIOUS
<1>1. /\ stack # <<>> /\ Top.kind = "restore" /\ stack' = Tail(stack)
      /\ depth' = IF depth = 0 THEN 0 ELSE depth - 1
      /\ UNCHANGED <<owner, actor, saved, victim, defender, primary, todo, nested, windows,
                     fought, wishes, over>>
  BY DEF Restore, On
<1>2. Stacked(stack') /\ AllLocal' /\ Aimed' /\ ActorFits' /\ TurnFits' /\ PrimaryFought'
  BY <1>1, QuietPop DEF Base
<1>3. depth \in Nat /\ wishes \in Nat
  BY DEF IInv, TypeOK
<1>4. Counted' /\ wishes' \in Nat /\ Finished' /\ depth' \in Nat
  <2>1. depth' \in Nat /\ (depth' = 0 \/ depth' + 1 <= depth)
    BY <1>1, <1>3
  <2>. QED BY <1>1, <1>3, <2>1, CountedPop DEF Base
<1>5. TypeOK'
  BY <1>1, <1>4 DEF IInv, TypeOK
<1>. QED BY <1>2, <1>4, <1>5 DEF IInv, Stacked

\* The Wishes are counted.
LEMMA WishCheckedStep == IInv /\ WishChecked => IInv'
<1>. SUFFICES ASSUME IInv, WishChecked PROVE IInv'
  OBVIOUS
<1>1. /\ stack # <<>> /\ Top.kind = "wish" /\ stack' = Tail(stack) /\ wishes' = wishes - 1
      /\ UNCHANGED <<owner, actor, saved, depth, victim, defender, primary, todo, nested, windows,
                     fought, over>>
  BY DEF WishChecked, On, contextVars
<1>2. Stacked(stack') /\ AllLocal' /\ Aimed' /\ ActorFits' /\ TurnFits' /\ PrimaryFought'
  BY <1>1, QuietPop DEF Base
<1>3. Counted' /\ wishes' \in Nat /\ Finished'
  BY <1>1, CountedPop DEF Base, IInv, TypeOK
<1>4. TypeOK'
  BY <1>1, <1>3 DEF IInv, TypeOK
<1>. QED BY <1>2, <1>3, <1>4 DEF IInv, Stacked

\* The turn is confirmed.
LEMMA ConfirmStep == IInv /\ Confirm => IInv'
<1>. SUFFICES ASSUME IInv, Confirm PROVE IInv'
  OBVIOUS
<1>1. /\ stack # <<>> /\ Top.kind = "confirm" /\ stack' = Tail(stack)
      /\ UNCHANGED <<owner, actor, saved, depth, victim, defender, primary, todo, nested, windows,
                     fought, wishes, over>>
  BY DEF Confirm, On, contextVars
<1>2. Stacked(stack') /\ AllLocal' /\ Aimed' /\ ActorFits' /\ TurnFits' /\ PrimaryFought'
  BY <1>1, QuietPop DEF Base
<1>3. Counted' /\ wishes' \in Nat /\ Finished'
  BY <1>1, CountedSame DEF Base
<1>4. TypeOK'
  BY <1>1 DEF IInv, TypeOK
<1>. QED BY <1>2, <1>3, <1>4 DEF IInv, Stacked

\* A payload begins with its source acting, out of any hero's turn, and ends.
LEMMA PayloadStepStep == IInv /\ PayloadStep => IInv'
<1>. SUFFICES ASSUME IInv, PayloadStep PROVE IInv'
  OBVIOUS
<1>1. /\ stack # <<>> /\ stack' = Tail(stack)
      /\ \/ Top.kind = "source" /\ actor' \in Heroes
         \/ Top.kind = "finished" /\ actor' = actor
      /\ UNCHANGED <<owner, saved, depth, victim, defender, primary, todo, nested, windows,
                     fought, wishes, over>>
  BY DEF PayloadStep, On, contextVars
<1>2. Onto(stack', <<>>, stack, 2) /\ 2 <= Len(stack) /\ Stacked(stack')
  BY <1>1, Pop DEF Base
<1>3. Counted' /\ wishes' \in Nat /\ Finished'
  BY <1>1, CountedSame DEF Base
<1>4. TypeOK'
  BY <1>1, <1>3 DEF IInv, TypeOK
<1>5. CASE Top.kind = "finished"
  <2>1. Stacked(stack') /\ AllLocal' /\ Aimed' /\ ActorFits' /\ TurnFits' /\ PrimaryFought'
    BY <1>1, <1>5, QuietPop DEF Base
  <2>. QED BY <1>3, <1>4, <2>1 DEF IInv, Stacked
<1>6. CASE Top.kind = "source"
  <2>1. owner = Nobody
    BY <1>1, <1>6, TopIs DEF Local
  <2>2. AllLocal'
    <3>1. <<>> \in Seq(Frames) /\ \A a \in 1 .. Len(<<>>) : Local(<<>>[a])
      OBVIOUS
    <3>. QED BY <1>1, <1>2, <3>1, LocalKept
  <2>3. TurnFits' /\ ActorFits'
    BY <1>1, <2>1 DEF IInv, TurnFits, ActorFits
  <2>4. Aimed'
    <3>1. /\ <<>> \in Seq(Frames)
          /\ \A a \in 1 .. Len(<<>>) :
               /\ <<>>[a].kind = "combat" => windows[<<>>[a].n] = "none"
               /\ <<>>[a].kind = "leave" /\ <<>>[a].how = "defense" => primary
      OBVIOUS
    <3>2. stack'[1] = stack[2]
      <4>1. 2 \in 2 .. Len(stack) /\ 0 + 1 + 2 - 2 = 1 /\ Len(<<>>) = 0
        BY <1>1, <1>2, TopIs
      <4>. QED BY <1>2, <4>1 DEF Onto
    <3>3. stack'[1].kind # "window"
      <4>1. MayTop(Top, stack[2])
        BY <1>1, <1>2, TopIs
      <4>. QED BY <1>6, <3>2, <4>1 DEF MayTop
    <3>. QED BY <1>1, <1>2, <3>1, <3>3, AimedKept
  <2>5. PrimaryFought'
    <3>1. <<>> \in Seq(Frames)
      OBVIOUS
    <3>2. \A m \in 1 .. Len(stack), n \in DOMAIN windows :
            windows[n] = "primary" /\ stack[m] = Frame("combat", n, "plain") => m >= 2
      <4>1. \A n : Frame("combat", n, "plain").kind = "combat"
        BY DEF Frame
      <4>2. \A m \in 1 .. Len(stack) : stack[m].kind = "combat" => m >= 2
        BY <1>1, <1>6, TopIs
      <4>. QED BY <4>1, <4>2
    <3>. QED BY <1>1, <1>2, <3>1, <3>2, FoughtKept
  <2>. QED BY <1>2, <1>3, <1>4, <2>2, <2>3, <2>4, <2>5 DEF IInv, Stacked
<1>. QED BY <1>1, <1>5, <1>6

-----------------------------------------------------------------------------
(* The steps of an attack. *)

\* A text of the defender, with the steps that make them the actor.
LEMMA AsDefenderIs ==
    ASSUME NEW how \in Keys
    PROVE  /\ AsDefender(how) \in Seq(Frames) /\ Len(AsDefender(how)) = 3
           /\ AsDefender(how)[1].kind = "enter" /\ AsDefender(how)[1].how = how
           /\ AsDefender(how)[2].kind = "text" /\ AsDefender(how)[2].how = how
           /\ AsDefender(how)[3].kind = "leave" /\ AsDefender(how)[3].how = how
           /\ AsDefender(how)[1].n = 0 /\ AsDefender(how)[2].n = 0 /\ AsDefender(how)[3].n = 0
<1>. DEFINE e == Frame("enter", 0, how)
            f == Frame("text", 0, how)
            g == Frame("leave", 0, how)
<1>1. /\ "enter" \in Kinds /\ "text" \in Kinds /\ "leave" \in Kinds /\ how \in Hows /\ 0 \in Nat
  BY DEF Kinds, Loose, Hows
<1>2. e \in Frames /\ e.kind = "enter" /\ e.how = how /\ e.n = 0
  BY <1>1, FrameType
<1>3. f \in Frames /\ f.kind = "text" /\ f.how = how /\ f.n = 0
  BY <1>1, FrameType
<1>4. g \in Frames /\ g.kind = "leave" /\ g.how = how /\ g.n = 0
  BY <1>1, FrameType
<1>5. AsDefender(how) = <<e, f, g>>
  BY DEF AsDefender
<1>. HIDE DEF e, f, g
<1>6. /\ <<e, f, g>> \in Seq(Frames) /\ Len(<<e, f, g>>) = 3
      /\ <<e, f, g>>[1] = e /\ <<e, f, g>>[2] = f /\ <<e, f, g>>[3] = g
  BY <1>2, <1>3, <1>4
<1>. QED BY <1>2, <1>3, <1>4, <1>5, <1>6

\* The defender's text is pushed: it comes before the rest of the attack, and
\* the attacker is the one who acts.
LEMMA DefenderActs ==
    ASSUME IInv, stack # <<>>, Top.kind \in {"deftext", "onblock"}, NEW how \in {"defense", "onblock"},
           stack' = Pushed(AsDefender(how)),
           how = "defense" => primary /\ stack[2].kind = "combat",
           how # "defense" => Top.kind = "onblock",
           UNCHANGED <<owner, actor, saved, depth, victim, defender, primary, todo, nested, windows,
                       fought, wishes, over>>
    PROVE  IInv'
<1>. DEFINE s == AsDefender(how)
<1>1. /\ s \in Seq(Frames) /\ Len(s) = 3
      /\ s[1].kind = "enter" /\ s[1].how = how /\ s[1].n = 0
      /\ s[2].kind = "text" /\ s[2].how = how /\ s[2].n = 0
      /\ s[3].kind = "leave" /\ s[3].how = how /\ s[3].n = 0
  BY AsDefenderIs DEF Keys
<1>2. stack' = Pushed(s)
  OBVIOUS
<1>. HIDE DEF s
<1>3. /\ stack \in Seq(Frames) /\ Len(stack) \in Nat /\ Len(stack) >= 2 /\ Top = stack[1]
      /\ Local(Top) /\ Backed(stack, 1) /\ \A j \in 2 .. Len(stack) : MayTop(Top, stack[j])
  BY TopIs DEF Base
<1>4. /\ owner # Nobody
      /\ \E j \in 2 .. Len(stack) : Boundary(stack[j])
  BY <1>3 DEF Local, Backed, OfAttack, Loose
<1>5. \A j \in 2 .. Len(stack) :
        /\ stack[j].kind \notin {"enter", "select", "attack", "window", "deftext", "leave"}
        /\ stack[j].kind \in {"combat", "onblock"} => Top.kind = "deftext"
  BY <1>3 DEF MayTop, Foreign, OwnEnd
<1>6. Fitting(s, stack, 2)
  <2>1. \A a, b \in 1 .. Len(s) : a < b => MayTop(s[a], s[b])
    <3>. SUFFICES ASSUME NEW a \in 1 .. 3, NEW b \in 1 .. 3, a < b
                  PROVE  MayTop(s[a], s[b])
      BY <1>1
    <3>1. \/ a = 1 /\ b \in {2, 3}
          \/ a = 2 /\ b = 3
      OBVIOUS
    <3>. QED BY <1>1, <3>1 DEF MayTop, Base
  <2>2. \A a \in 1 .. Len(s), i \in 2 .. Len(stack) : MayTop(s[a], stack[i])
    <3>. SUFFICES ASSUME NEW a \in {1, 2, 3}, NEW i \in 2 .. Len(stack)
                  PROVE  MayTop(s[a], stack[i])
      BY <1>1
    <3>1. s[a].kind \in {"enter", "text", "leave"} /\ s[a].how = how
      BY <1>1
    <3>2. stack[i].kind \in {"combat", "onblock"} => how = "defense"
      BY <1>5
    <3>. QED BY <1>5, <3>1, <3>2 DEF MayTop, Base, Foreign
  <2>3. \A a \in 1 .. Len(s) - 1 : Follows(s[a], s[a + 1])
    <3>1. Follows(s[1], s[2])
      BY <1>1 DEF Follows, OthersEnd
    <3>2. Follows(s[2], s[3])
      BY <1>1 DEF Follows, OthersEnd
    <3>3. \A a \in 1 .. Len(s) - 1 : \/ a = 1 /\ a + 1 = 2
                                     \/ a = 2 /\ a + 1 = 3
      BY <1>1
    <3>. QED BY <3>1, <3>2, <3>3
  <2>4. Follows(s[Len(s)], stack[2])
    <3>1. 2 \in 2 .. Len(stack)
      BY <1>3
    <3>. QED BY <1>1, <1>5, <3>1 DEF Follows, OthersEnd
  <2>5. \A a \in 1 .. Len(s) : NeedsLeave(s[a]) =>
          \E b \in a + 1 .. Len(s) : s[b].kind = "leave"
    <3>. SUFFICES ASSUME NEW a \in 1 .. 3, NeedsLeave(s[a])
                  PROVE  \E b \in a + 1 .. 3 : s[b].kind = "leave"
      BY <1>1
    <3>1. a # 3
      BY <1>1 DEF NeedsLeave
    <3>2. 3 \in a + 1 .. 3
      BY <3>1
    <3>. QED BY <1>1, <3>2
  <2>. QED BY <1>4, <2>1, <2>2, <2>3, <2>4, <2>5 DEF Fitting
<1>7. Onto(stack', s, stack, 2) /\ 2 <= Len(stack) /\ Stacked(stack')
  BY <1>1, <1>2, <1>6, Push DEF Base
<1>8. AllLocal' /\ Aimed' /\ ActorFits' /\ TurnFits' /\ PrimaryFought'
  <2>1. \A a \in 1 .. Len(s) :
          /\ Local(s[a]) /\ s[a].kind # "combat"
          /\ s[a].kind = "leave" /\ s[a].how = "defense" => primary
    <3>. SUFFICES ASSUME NEW a \in {1, 2, 3}
                  PROVE  /\ Local(s[a]) /\ s[a].kind # "combat"
                         /\ s[a].kind = "leave" /\ s[a].how = "defense" => primary
      BY <1>1
    <3>. QED BY <1>1, <1>4 DEF Local, OfAttack, Keys
  <2>2. Top.kind \notin {"enter", "leave", "combat", "select"} /\ s[1].kind = "enter"
        /\ 2 \in {1, 2} /\ Len(s) > 0
        /\ \A m \in 1 .. Len(stack) : stack[m].kind # "leave"
    BY <1>1, <1>3, <1>5
  <2>. QED BY <1>1, <1>7, <2>1, <2>2, Wrapped
<1>9. Counted' /\ wishes' \in Nat /\ depth' \in Nat /\ Finished'
  <2>1. /\ Number(stack, 1, 2 - 1, "wish") = 0 /\ Number(stack, 1, 2 - 1, "restore") = 0
    <3>1. 2 - 1 = 1
      OBVIOUS
    <3>. QED BY <3>1, NumberTop
  <2>2. Number(s, 1, Len(s), "wish") = 0 /\ Number(s, 1, Len(s), "restore") = 0
    <3>1. /\ 1 \in Int /\ Len(s) \in Int
          /\ \A i \in 1 .. Len(s) : s[i].kind # "wish" /\ s[i].kind # "restore"
      BY <1>1
    <3>. QED BY <3>1, NumberZero
  <2>3. depth \in Nat /\ wishes \in Nat
    BY DEF IInv, TypeOK
  <2>4. /\ wishes' = (wishes - Number(stack, 1, 2 - 1, "wish")) + Number(s, 1, Len(s), "wish")
        /\ depth' \in Nat
        /\ depth' + Number(stack, 1, 2 - 1, "restore") <= depth + Number(s, 1, Len(s), "restore")
    BY <2>1, <2>2, <2>3
  <2>. QED BY <1>1, <1>7, <2>4, CountedKept
<1>10. TypeOK'
  BY <1>9 DEF IInv, TypeOK
<1>. QED BY <1>7, <1>8, <1>9, <1>10 DEF IInv, Stacked

\* A primary defense card's text, or nothing.
LEMMA DefenseTextStep == IInv /\ DefenseText => IInv'
<1>. SUFFICES ASSUME IInv, DefenseText PROVE IInv'
  OBVIOUS
<1>1. /\ stack # <<>> /\ Top.kind = "deftext"
      /\ stack' = Pushed(IF primary THEN AsDefender("defense") ELSE <<>>)
      /\ UNCHANGED <<owner, actor, saved, depth, victim, defender, primary, todo, nested, windows,
                     fought, wishes, over>>
  BY DEF DefenseText, On, contextVars
<1>2. CASE primary
  <2>1. stack' = Pushed(AsDefender("defense"))
    BY <1>1, <1>2
  <2>2. stack[2].kind = "combat"
    <3>1. 1 \in 1 .. Len(stack) - 1 /\ Top = stack[1] /\ 1 + 1 = 2
      BY <1>1, TopIs DEF Base
    <3>2. Follows(stack[1], stack[2])
      BY <3>1 DEF IInv, Stacked
    <3>3. stack[2] = Frame("combat", Top.n, "plain")
      BY <1>1, <3>1, <3>2 DEF Follows
    <3>. QED BY <3>3 DEF Frame
  <2>. QED BY <1>1, <1>2, <2>1, <2>2, DefenderActs
<1>3. CASE ~ primary
  <2>1. stack' = Tail(stack)
    <3>1. Tail(stack) \in Seq(Frames)
      BY <1>1, TopIs
    <3>2. <<>> \o Tail(stack) = Tail(stack)
      BY <3>1
    <3>. QED BY <1>1, <1>3, <3>2 DEF Pushed
  <2>2. Stacked(stack') /\ AllLocal' /\ Aimed' /\ ActorFits' /\ TurnFits' /\ PrimaryFought'
    BY <1>1, <2>1, QuietPop DEF Base
  <2>3. Counted' /\ wishes' \in Nat /\ Finished'
    BY <1>1, <2>1, CountedSame DEF Base
  <2>4. TypeOK'
    BY <1>1 DEF IInv, TypeOK
  <2>. QED BY <2>2, <2>3, <2>4 DEF IInv, Stacked
<1>. QED BY <1>2, <1>3

\* The text of a card that blocked, or nothing.
LEMMA OnBlockStep == IInv /\ OnBlock => IInv'
<1>. SUFFICES ASSUME IInv, OnBlock PROVE IInv'
  OBVIOUS
<1>1. /\ stack # <<>> /\ Top.kind = "onblock"
      /\ UNCHANGED <<owner, actor, saved, depth, victim, defender, primary, todo, nested, windows,
                     fought, wishes, over>>
  BY DEF OnBlock, On, contextVars
<1>2. CASE stack' = Pushed(AsDefender("onblock"))
  BY <1>1, <1>2, DefenderActs
<1>3. CASE stack' = Tail(stack)
  <2>1. Stacked(stack') /\ AllLocal' /\ Aimed' /\ ActorFits' /\ TurnFits' /\ PrimaryFought'
    BY <1>1, <1>3, QuietPop DEF Base
  <2>2. Counted' /\ wishes' \in Nat /\ Finished'
    BY <1>1, <1>3, CountedSame DEF Base
  <2>3. TypeOK'
    BY <1>1 DEF IInv, TypeOK
  <2>. QED BY <2>1, <2>2, <2>3 DEF IInv, Stacked
<1>. QED BY <1>2, <1>3 DEF OnBlock

\* Steps of the same attack, or none, take the place of the step on top.
LEMMA Expands ==
    ASSUME IInv, On("attack"), NEW s \in Seq(Frames), stack' = Pushed(s),
           UNCHANGED <<owner, actor, saved, depth, victim, defender, primary, todo, nested, windows,
                       fought, wishes, over>>,
           \A a \in 1 .. Len(s) : s[a].kind \in OfAttack /\ s[a].n = Top.n,
           \A a, b \in 1 .. Len(s) : a < b => MayTop(s[a], s[b]),
           \A a \in 1 .. Len(s) - 1 : Follows(s[a], s[a + 1]),
           Len(s) > 0 => s[Len(s)].kind \in {"attack", "onblock"},
           Len(s) > 0 /\ s[1].kind = "window" => victim = Top.n
    PROVE  IInv'
<1>1. /\ stack # <<>> /\ Top.kind = "attack"
      /\ stack \in Seq(Frames) /\ Len(stack) \in Nat /\ Len(stack) >= 2 /\ Top = stack[1]
      /\ Local(Top) /\ Backed(stack, 1) /\ \A j \in 2 .. Len(stack) : MayTop(Top, stack[j])
  BY TopIs DEF Base, On
<1>2. /\ owner # Nobody /\ Top.n = Len(windows) /\ Len(windows) > 0 /\ windows[Top.n] = "none"
      /\ \E j \in 2 .. Len(stack) : Boundary(stack[j])
  BY <1>1 DEF Local, Backed, OfAttack, Loose
<1>3. \A j \in 2 .. Len(stack) : stack[j].kind \notin OfAttack \cup {"enter", "leave"}
  BY <1>1 DEF MayTop, OfAttack, Foreign, OwnEnd
<1>4. Fitting(s, stack, 2)
  <2>1. \A a \in 1 .. Len(s), i \in 2 .. Len(stack) : MayTop(s[a], stack[i])
    BY <1>3 DEF MayTop, OfAttack, Base
  <2>2. Len(s) > 0 => Follows(s[Len(s)], stack[2])
    <3>1. 2 \in 2 .. Len(stack)
      BY <1>1
    <3>2. stack[2].kind # "leave"
      BY <1>3, <3>1
    <3>. QED BY <3>2 DEF Follows, OthersEnd
  <2>3. \A a \in 1 .. Len(s) : ~ NeedsLeave(s[a])
    BY DEF NeedsLeave, OfAttack
  <2>. QED BY <1>2, <2>1, <2>2, <2>3 DEF Fitting
<1>5. Onto(stack', s, stack, 2) /\ 2 <= Len(stack) /\ Stacked(stack')
  BY <1>1, <1>4, Push DEF Base
<1>6. AllLocal' /\ Aimed' /\ ActorFits' /\ TurnFits' /\ PrimaryFought'
  <2>1. ASSUME NEW a \in 1 .. Len(s)
        PROVE  /\ Local(s[a]) /\ s[a].kind \notin {"enter", "leave"}
               /\ s[a].kind = "combat" => windows[s[a].n] = "none"
    <3>1. s[a].kind \in OfAttack /\ s[a].n = Top.n
      OBVIOUS
    <3>. QED BY <1>2, <3>1 DEF Local, OfAttack
  <2>2. Len(s) > 0 /\ s[1].kind = "window" => victim = s[1].n
    <3>1. Len(s) > 0 => 1 \in 1 .. Len(s)
      OBVIOUS
    <3>. QED BY <3>1
  <2>3. Top.kind \notin {"enter", "leave", "combat", "select"} /\ 2 \in {1, 2} /\ ~ (2 = 1)
    BY <1>1
  <2>. QED BY <1>1, <1>5, <2>1, <2>2, <2>3, Quiet
<1>7. Counted' /\ wishes' \in Nat /\ depth' \in Nat /\ Finished'
  <2>1. /\ Number(stack, 1, 2 - 1, "wish") = 0 /\ Number(stack, 1, 2 - 1, "restore") = 0
    <3>1. 2 - 1 = 1
      OBVIOUS
    <3>. QED BY <1>1, <3>1, NumberTop
  <2>2. Number(s, 1, Len(s), "wish") = 0 /\ Number(s, 1, Len(s), "restore") = 0
    <3>1. /\ 1 \in Int /\ Len(s) \in Int
          /\ \A i \in 1 .. Len(s) : s[i].kind # "wish" /\ s[i].kind # "restore"
      BY DEF OfAttack
    <3>. QED BY <3>1, NumberZero
  <2>3. depth \in Nat /\ wishes \in Nat
    BY DEF IInv, TypeOK
  <2>4. /\ wishes' = (wishes - Number(stack, 1, 2 - 1, "wish")) + Number(s, 1, Len(s), "wish")
        /\ depth' \in Nat
        /\ depth' + Number(stack, 1, 2 - 1, "restore") <= depth + Number(s, 1, Len(s), "restore")
    BY <2>1, <2>2, <2>3
  <2>. QED BY <1>5, <2>4, CountedKept
<1>8. TypeOK'
  BY <1>7 DEF IInv, TypeOK
<1>. QED BY <1>5, <1>6, <1>7, <1>8 DEF IInv, Stacked

\* A choice is put before the steps of an exchange.
LEMMA ChosenOn ==
    ASSUME NEW c \in Frames, NEW w \in Frames, NEW d \in Frames, NEW b \in Frames, NEW o \in Frames
    PROVE  /\ <<c>> \o <<w, d, b, o>> \in Seq(Frames) /\ Len(<<c>> \o <<w, d, b, o>>) = 5
           /\ (<<c>> \o <<w, d, b, o>>)[1] = c /\ (<<c>> \o <<w, d, b, o>>)[2] = w
           /\ (<<c>> \o <<w, d, b, o>>)[3] = d /\ (<<c>> \o <<w, d, b, o>>)[4] = b
           /\ (<<c>> \o <<w, d, b, o>>)[5] = o
<1>1. <<c>> \o <<w, d, b, o>> \in Seq(Frames)
  OBVIOUS
<1>2. Len(<<c>> \o <<w, d, b, o>>) = 5
  OBVIOUS
<1>3. (<<c>> \o <<w, d, b, o>>)[1] = c
  OBVIOUS
<1>4. (<<c>> \o <<w, d, b, o>>)[2] = w
  OBVIOUS
<1>5. (<<c>> \o <<w, d, b, o>>)[3] = d
  OBVIOUS
<1>6. (<<c>> \o <<w, d, b, o>>)[4] = b
  OBVIOUS
<1>7. (<<c>> \o <<w, d, b, o>>)[5] = o
  OBVIOUS
<1>. QED BY <1>1, <1>2, <1>3, <1>4, <1>5, <1>6, <1>7

\* An attack: its choice, its exchange, or nothing when nobody was chosen.
LEMMA ExpandStep == IInv /\ Expand => IInv'
<1>. SUFFICES ASSUME IInv, Expand PROVE IInv'
  OBVIOUS
<1>. DEFINE n == Top.n
            c == Frame("select", n, Top.how)
            w == Frame("window", n, "plain")
            d == Frame("deftext", n, "plain")
            b == Frame("combat", n, "plain")
            o == Frame("onblock", n, "plain")
            r == Frame("attack", n, "chosen")
<1>1. /\ On("attack")
      /\ stack' = Pushed(CASE Top.how = "mandatory" -> <<c>> \o Exchange(n)
                           [] Top.how = "optional"  -> <<c>> \o <<r>>
                           [] OTHER                 -> IF victim = n THEN Exchange(n) ELSE <<>>)
      /\ UNCHANGED <<owner, actor, saved, depth, victim, defender, primary, todo, nested, windows,
                     fought, wishes, over>>
  BY DEF Expand, contextVars
<1>2. stack # <<>> /\ Top \in Frames
  BY <1>1, TopIs DEF On
<1>3. n \in Nat /\ Top.how \in Hows
  BY <1>2 DEF Frames
<1>4. /\ "select" \in Kinds /\ "window" \in Kinds /\ "deftext" \in Kinds /\ "combat" \in Kinds
      /\ "onblock" \in Kinds /\ "attack" \in Kinds /\ "plain" \in Hows /\ "chosen" \in Hows
  BY DEF Kinds, Loose, OfAttack, Hows
<1>5. c \in Frames /\ c.kind = "select" /\ c.n = n /\ c.how = Top.how
  BY <1>3, <1>4, FrameType
<1>6. w \in Frames /\ w.kind = "window" /\ w.n = n
  BY <1>3, <1>4, FrameType
<1>7. d \in Frames /\ d.kind = "deftext" /\ d.n = n
  BY <1>3, <1>4, FrameType
<1>8. b \in Frames /\ b.kind = "combat" /\ b.n = n
  BY <1>3, <1>4, FrameType
<1>9. o \in Frames /\ o.kind = "onblock" /\ o.n = n
  BY <1>3, <1>4, FrameType
<1>10. r \in Frames /\ r.kind = "attack" /\ r.n = n
  BY <1>3, <1>4, FrameType
<1>11. Exchange(n) = <<w, d, b, o>>
  BY DEF Exchange
<1>12. /\ Follows(w, d) /\ Follows(d, b) /\ Follows(b, o)
       /\ Top.how # "optional" => Follows(c, w)
       /\ Follows(c, r)
  <2>1. d = Frame("deftext", w.n, "plain") /\ b = Frame("combat", d.n, "plain")
    BY <1>6, <1>7
  <2>. HIDE DEF c, w, d, b, o, r
  <2>. QED BY <1>5, <1>6, <1>7, <1>8, <1>9, <1>10, <2>1 DEF Follows, OthersEnd
<1>. HIDE DEF n, c, w, d, b, o, r
<1>13. CASE Top.how = "mandatory"
  <2>. DEFINE s == <<c>> \o <<w, d, b, o>>
  <2>1. stack' = Pushed(s)
    BY <1>1, <1>11, <1>13
  <2>2. /\ s \in Seq(Frames) /\ Len(s) = 5
        /\ s[1] = c /\ s[2] = w /\ s[3] = d /\ s[4] = b /\ s[5] = o
    BY <1>5, <1>6, <1>7, <1>8, <1>9, ChosenOn
  <2>. HIDE DEF s
  <2>3. \A i \in 1 .. Len(s) : s[i].kind \in OfAttack /\ s[i].n = Top.n
    <3>. SUFFICES ASSUME NEW i \in {1, 2, 3, 4, 5} PROVE s[i].kind \in OfAttack /\ s[i].n = Top.n
      BY <2>2
    <3>. QED BY <1>5, <1>6, <1>7, <1>8, <1>9, <2>2 DEF OfAttack, n
  <2>4. \A i, j \in 1 .. Len(s) : i < j => MayTop(s[i], s[j])
    <3>. SUFFICES ASSUME NEW i \in 1 .. 5, NEW j \in 1 .. 5, i < j
                  PROVE  MayTop(s[i], s[j])
      BY <2>2
    <3>1. \/ i = 1 /\ j \in {2, 3, 4, 5}
          \/ i = 2 /\ j \in {3, 4, 5}
          \/ i = 3 /\ j \in {4, 5}
          \/ i = 4 /\ j = 5
      OBVIOUS
    <3>. QED BY <1>5, <1>6, <1>7, <1>8, <1>9, <2>2, <3>1 DEF MayTop, Base
  <2>5. \A i \in 1 .. Len(s) - 1 : Follows(s[i], s[i + 1])
    <3>1. Follows(s[1], s[2]) /\ Follows(s[2], s[3]) /\ Follows(s[3], s[4]) /\ Follows(s[4], s[5])
      BY <1>12, <1>13, <2>2
    <3>2. \A i \in 1 .. Len(s) - 1 : \/ i = 1 /\ i + 1 = 2
                                     \/ i = 2 /\ i + 1 = 3
                                     \/ i = 3 /\ i + 1 = 4
                                     \/ i = 4 /\ i + 1 = 5
      BY <2>2
    <3>. QED BY <3>1, <3>2
  <2>6. s[Len(s)].kind \in {"attack", "onblock"} /\ s[1].kind # "window"
    BY <1>5, <1>9, <2>2
  <2>. QED BY <1>1, <2>1, <2>2, <2>3, <2>4, <2>5, <2>6, Expands
<1>14. CASE Top.how = "optional"
  <2>. DEFINE s == <<c>> \o <<r>>
  <2>1. stack' = Pushed(s)
    BY <1>1, <1>14
  <2>2. s \in Seq(Frames) /\ Len(s) = 2 /\ s[1] = c /\ s[2] = r
    BY <1>5, <1>10
  <2>. HIDE DEF s
  <2>3. \A i \in 1 .. Len(s) : s[i].kind \in OfAttack /\ s[i].n = Top.n
    <3>. SUFFICES ASSUME NEW i \in {1, 2} PROVE s[i].kind \in OfAttack /\ s[i].n = Top.n
      BY <2>2
    <3>. QED BY <1>5, <1>10, <2>2 DEF OfAttack, n
  <2>4. \A i, j \in 1 .. Len(s) : i < j => MayTop(s[i], s[j])
    <3>1. MayTop(s[1], s[2])
      BY <1>5, <1>10, <2>2 DEF MayTop, Base
    <3>2. \A i, j \in 1 .. Len(s) : i < j => i = 1 /\ j = 2
      BY <2>2
    <3>. QED BY <3>1, <3>2
  <2>5. \A i \in 1 .. Len(s) - 1 : Follows(s[i], s[i + 1])
    <3>1. Follows(s[1], s[2]) /\ 1 + 1 = 2
      BY <1>12, <2>2
    <3>2. \A i \in 1 .. Len(s) - 1 : i = 1
      BY <2>2
    <3>. QED BY <3>1, <3>2
  <2>6. s[Len(s)].kind \in {"attack", "onblock"} /\ s[1].kind # "window"
    BY <1>5, <1>10, <2>2
  <2>. QED BY <1>1, <2>1, <2>2, <2>3, <2>4, <2>5, <2>6, Expands
<1>15. CASE Top.how \notin {"mandatory", "optional"} /\ victim = n
  <2>. DEFINE s == <<w, d, b, o>>
  <2>1. stack' = Pushed(s)
    BY <1>1, <1>11, <1>15
  <2>2. /\ s \in Seq(Frames) /\ Len(s) = 4
        /\ s[1] = w /\ s[2] = d /\ s[3] = b /\ s[4] = o
    BY <1>6, <1>7, <1>8, <1>9
  <2>. HIDE DEF s
  <2>3. \A i \in 1 .. Len(s) : s[i].kind \in OfAttack /\ s[i].n = Top.n
    <3>. SUFFICES ASSUME NEW i \in {1, 2, 3, 4} PROVE s[i].kind \in OfAttack /\ s[i].n = Top.n
      BY <2>2
    <3>. QED BY <1>6, <1>7, <1>8, <1>9, <2>2 DEF OfAttack, n
  <2>4. \A i, j \in 1 .. Len(s) : i < j => MayTop(s[i], s[j])
    <3>. SUFFICES ASSUME NEW i \in 1 .. 4, NEW j \in 1 .. 4, i < j
                  PROVE  MayTop(s[i], s[j])
      BY <2>2
    <3>1. \/ i = 1 /\ j \in {2, 3, 4}
          \/ i = 2 /\ j \in {3, 4}
          \/ i = 3 /\ j = 4
      OBVIOUS
    <3>. QED BY <1>6, <1>7, <1>8, <1>9, <2>2, <3>1 DEF MayTop, Base
  <2>5. \A i \in 1 .. Len(s) - 1 : Follows(s[i], s[i + 1])
    <3>1. Follows(s[1], s[2]) /\ Follows(s[2], s[3]) /\ Follows(s[3], s[4])
      BY <1>12, <2>2
    <3>2. \A i \in 1 .. Len(s) - 1 : \/ i = 1 /\ i + 1 = 2
                                     \/ i = 2 /\ i + 1 = 3
                                     \/ i = 3 /\ i + 1 = 4
      BY <2>2
    <3>. QED BY <3>1, <3>2
  <2>6. s[Len(s)].kind \in {"attack", "onblock"} /\ victim = Top.n
    BY <1>9, <1>15, <2>2 DEF n
  <2>. QED BY <1>1, <2>1, <2>2, <2>3, <2>4, <2>5, <2>6, Expands
<1>16. CASE Top.how \notin {"mandatory", "optional"} /\ victim # n
  <2>1. stack' = Tail(stack)
    <3>1. Tail(stack) \in Seq(Frames)
      BY <1>2, TopIs
    <3>2. <<>> \o Tail(stack) = Tail(stack)
      BY <3>1
    <3>. QED BY <1>1, <1>16, <3>2 DEF Pushed
  <2>2. stack # <<>> /\ Top.kind = "attack"
    BY <1>1 DEF On
  <2>3. Stacked(stack') /\ AllLocal' /\ Aimed' /\ ActorFits' /\ TurnFits' /\ PrimaryFought'
    BY <1>1, <2>1, <2>2, QuietPop DEF Base
  <2>4. Counted' /\ wishes' \in Nat /\ Finished'
    BY <1>1, <2>1, <2>2, CountedSame DEF Base
  <2>5. TypeOK'
    BY <1>1 DEF IInv, TypeOK
  <2>. QED BY <2>3, <2>4, <2>5 DEF IInv, Stacked
<1>. QED BY <1>13, <1>14, <1>15, <1>16

\* What is left when the step on top is popped.
LEMMA PopLeaves ==
    ASSUME IInv, stack # <<>>, stack' = Tail(stack), Top.kind \notin Base
    PROVE  /\ stack \in Seq(Frames) /\ Len(stack) \in Nat /\ Len(stack) >= 2 /\ Top = stack[1]
           /\ Stacked(stack') /\ Len(stack') = Len(stack) - 1 /\ stack'[1] = stack[2]
           /\ \A j \in 1 .. Len(stack') : \E m \in 2 .. Len(stack) : stack'[j] = stack[m]
           /\ \A m \in 2 .. Len(stack) : \E j \in 1 .. Len(stack') : stack'[j] = stack[m]
           /\ \A m \in 2 .. Len(stack) : MayTop(Top, stack[m]) /\ Local(stack[m])
           /\ Local(Top) /\ Follows(Top, stack[2])
           /\ \A m \in 1 .. Len(stack) : m = 1 \/ m \in 2 .. Len(stack)
<1>1. /\ stack \in Seq(Frames) /\ Len(stack) \in Nat /\ Len(stack) >= 2 /\ Top = stack[1]
      /\ Local(Top) /\ \A m \in 2 .. Len(stack) : MayTop(Top, stack[m])
  BY TopIs
<1>2. Onto(stack', <<>>, stack, 2) /\ Stacked(stack') /\ <<>> \in Seq(Frames) /\ Len(<<>>) = 0
  BY Pop
<1>3. Len(stack') = Len(stack) - 1 /\ stack'[1] = stack[2]
  <2>1. 2 \in 2 .. Len(stack) /\ 0 + 1 + 2 - 2 = 1
    BY <1>1
  <2>2. stack'[1] = stack[2]
    BY <1>2, <2>1 DEF Onto
  <2>. QED BY <1>1, <2>2
<1>4. \A j \in 1 .. Len(stack') : \E m \in 2 .. Len(stack) : stack'[j] = stack[m]
  <2>1. \A j \in 1 .. Len(stack') :
          \/ \E a \in 1 .. Len(<<>>) : stack'[j] = <<>>[a]
          \/ \E m \in 2 .. Len(stack) : stack'[j] = stack[m]
    BY <1>1, <1>2, EachStep
  <2>. QED BY <2>1
<1>5. \A m \in 2 .. Len(stack) : \E j \in 1 .. Len(stack') : stack'[j] = stack[m]
  <2>. SUFFICES ASSUME NEW m \in 2 .. Len(stack)
                PROVE  \E j \in 1 .. Len(stack') : stack'[j] = stack[m]
    OBVIOUS
  <2>1. 0 + 1 + m - 2 = m - 1 /\ m - 1 \in 1 .. Len(stack')
    BY <1>1, <1>3
  <2>2. stack'[m - 1] = stack[m]
    BY <1>2, <2>1 DEF Onto
  <2>. QED BY <2>1, <2>2
<1>6. \A m \in 2 .. Len(stack) : Local(stack[m])
  BY <1>1 DEF IInv, AllLocal
<1>7. Follows(Top, stack[2])
  <2>1. 1 \in 1 .. Len(stack) - 1 /\ 1 + 1 = 2
    BY <1>1
  <2>. QED BY <1>1, <2>1 DEF IInv, Stacked
<1>8. \A m \in 1 .. Len(stack) : m = 1 \/ m \in 2 .. Len(stack)
  BY <1>1
<1>. QED BY <1>1, <1>2, <1>3, <1>4, <1>5, <1>6, <1>7, <1>8

\* The victim's answer: the window is closed, and its combat is still below.
LEMMA WindowStep == IInv /\ Window => IInv'
<1>. SUFFICES ASSUME IInv, Window PROVE IInv'
  OBVIOUS
<1>1. /\ stack # <<>> /\ Top.kind = "window" /\ stack' = Tail(stack)
      /\ UNCHANGED <<owner, actor, saved, depth, victim, todo, nested, fought, wishes, over>>
  BY DEF Window, On
<1>2. PICK answer \in {"passed", "secondary", "primary"}, h \in Heroes \ {owner} :
        /\ primary' = (answer = "primary") /\ defender' = h
        /\ windows' = [windows EXCEPT ![Top.n] = answer]
  BY DEF Window
<1>3. /\ stack \in Seq(Frames) /\ Len(stack) \in Nat /\ Len(stack) >= 2 /\ Top = stack[1]
      /\ Stacked(stack') /\ stack'[1] = stack[2]
      /\ \A j \in 1 .. Len(stack') : \E m \in 2 .. Len(stack) : stack'[j] = stack[m]
      /\ \A m \in 2 .. Len(stack) : \E j \in 1 .. Len(stack') : stack'[j] = stack[m]
      /\ \A m \in 2 .. Len(stack) : MayTop(Top, stack[m]) /\ Local(stack[m])
      /\ Local(Top) /\ Follows(Top, stack[2])
      /\ \A m \in 1 .. Len(stack) : m = 1 \/ m \in 2 .. Len(stack)
  BY <1>1, PopLeaves DEF Base
<1>4. /\ Top.n = Len(windows) /\ Len(windows) > 0 /\ owner # Nobody
      /\ windows[Top.n] = "none"
  BY <1>1, <1>3 DEF Local, OfAttack
<1>5. victim = Top.n
  <2>1. 1 \in 1 .. Len(stack)
    BY <1>3
  <2>. QED BY <1>1, <1>3, <2>1 DEF IInv, Aimed
<1>6. /\ windows \in Seq(Answers) /\ windows' \in Seq(Answers) /\ Len(windows') = Len(windows)
      /\ DOMAIN windows' = DOMAIN windows /\ Top.n \in DOMAIN windows
      /\ windows'[Top.n] = answer
      /\ \A n \in DOMAIN windows : n # Top.n => windows'[n] = windows[n]
  <2>1. windows \in Seq(Answers) /\ answer \in Answers
    BY DEF IInv, TypeOK, Answers
  <2>. QED BY ONLY <1>2, <1>4, <2>1
<1>7. \A m \in 2 .. Len(stack) : stack[m].kind \notin {"attack", "select", "window", "enter", "leave"}
  BY <1>1, <1>3 DEF MayTop
<1>8. AllLocal'
  <2>. SUFFICES ASSUME NEW j \in 1 .. Len(stack')
                PROVE  Local(stack[j])'
    BY DEF AllLocal
  <2>1. PICK m \in 2 .. Len(stack) : stack'[j] = stack[m]
    BY <1>3
  <2>2. Local(stack[m]) /\ stack[m].kind \notin {"attack", "select", "window", "enter", "leave"}
    BY <1>3, <1>7
  <2>. QED BY <1>1, <1>6, <2>1, <2>2 DEF Local
<1>9. stack[2] = Frame("deftext", Top.n, "plain")
  BY <1>1, <1>3 DEF Follows
<1>10. 3 \in 2 .. Len(stack) /\ stack[3] = Frame("combat", Top.n, "plain")
  <2>1. stack[2].kind = "deftext" /\ stack[2].n = Top.n
    BY <1>9 DEF Frame
  <2>2. Len(stack) # 2
    BY <1>3, <2>1 DEF IInv, Stacked, Base
  <2>3. 3 \in 2 .. Len(stack) /\ 2 \in 1 .. Len(stack) - 1 /\ 2 + 1 = 3
    <3>1. Len(stack) \in Nat /\ Len(stack) >= 2
      BY <1>3
    <3>2. \A n \in Nat : n >= 2 /\ n # 2 => 3 \in 2 .. n /\ 2 \in 1 .. n - 1
      OBVIOUS
    <3>3. 3 \in 2 .. Len(stack) /\ 2 \in 1 .. Len(stack) - 1
      BY ONLY <2>2, <3>1, <3>2, Zenon
    <3>. QED BY <3>3
  <2>4. Follows(stack[2], stack[3])
    BY <2>3 DEF IInv, Stacked
  <2>. QED BY <2>1, <2>3, <2>4 DEF Follows
<1>11. Aimed'
  <2>. SUFFICES ASSUME NEW j \in 1 .. Len(stack')
                PROVE  /\ stack'[j].kind \notin {"window", "leave"}
                       /\ stack'[j].kind = "combat" =>
                            /\ victim' = stack'[j].n
                            /\ primary' <=> windows'[stack'[j].n] = "primary"
    BY DEF Aimed
  <2>1. PICK m \in 2 .. Len(stack) : stack'[j] = stack[m]
    BY <1>3
  <2>2. stack[m].kind = "combat" => stack[m].n = Top.n
    BY <1>3, <1>4 DEF Local, OfAttack
  <2>. QED BY <1>1, <1>2, <1>5, <1>6, <1>7, <2>1, <2>2
<1>12. ActorFits'
  <2>1. \A m \in 1 .. Len(stack) : stack[m].kind # "leave"
    BY <1>1, <1>3, <1>7
  <2>2. actor = owner
    BY <1>4, <2>1 DEF IInv, ActorFits
  <2>3. \A j \in 1 .. Len(stack') : stack'[j].kind # "leave"
    BY <1>3, <1>7
  <2>. QED BY <1>1, <2>2, <2>3 DEF ActorFits
<1>13. TurnFits'
  BY <1>1, <1>4 DEF IInv, TurnFits
<1>14. PrimaryFought'
  <2>. SUFFICES ASSUME NEW n \in DOMAIN windows', windows'[n] = "primary"
                PROVE  \/ \E i \in 1 .. Len(stack') : stack'[i] = Frame("combat", n, "plain")
                       \/ \E g \in Heroes : <<n, g>> \in fought'
    BY DEF PrimaryFought, Frame
  <2>1. CASE n = Top.n
    BY <1>3, <1>10, <2>1
  <2>2. CASE n # Top.n
    <3>1. n \in DOMAIN windows /\ windows[n] = "primary"
      BY <1>6, <2>2
    <3>2. CASE \E i \in 1 .. Len(stack) : stack[i] = Frame("combat", n, "plain")
      <4>1. PICK i \in 1 .. Len(stack) : stack[i] = Frame("combat", n, "plain")
        BY <3>2
      <4>2. stack[i].kind = "combat"
        BY <4>1 DEF Frame
      <4>3. i \in 2 .. Len(stack)
        BY <1>1, <1>3, <4>2
      <4>. QED BY <1>3, <4>1, <4>3
    <3>3. CASE \E g \in Heroes : <<n, g>> \in fought
      BY <1>1, <3>3
    <3>. QED BY <3>1, <3>2, <3>3 DEF IInv, PrimaryFought
  <2>. QED BY <2>1, <2>2
<1>15. Counted' /\ wishes' \in Nat /\ Finished'
  BY <1>1, CountedSame DEF Base
<1>16. TypeOK'
  BY <1>1, <1>2, <1>6, <1>15 DEF IInv, TypeOK
<1>. QED BY <1>3, <1>8, <1>11, <1>12, <1>13, <1>14, <1>15, <1>16 DEF IInv, Stacked

\* A combat is resolved by the attacker.
LEMMA CombatStep == IInv /\ Combat => IInv'
<1>. SUFFICES ASSUME IInv, Combat PROVE IInv'
  OBVIOUS
<1>1. /\ stack # <<>> /\ Top.kind = "combat" /\ stack' = Tail(stack)
      /\ fought' = IF victim = 0 THEN fought ELSE fought \cup {<<Top.n, actor>>}
      /\ UNCHANGED <<owner, actor, saved, depth, victim, defender, primary, todo, nested, windows,
                     wishes, over>>
  BY DEF Combat, On, contextVars
<1>2. /\ stack \in Seq(Frames) /\ Len(stack) \in Nat /\ Len(stack) >= 2 /\ Top = stack[1]
      /\ Stacked(stack') /\ stack'[1] = stack[2]
      /\ \A j \in 1 .. Len(stack') : \E m \in 2 .. Len(stack) : stack'[j] = stack[m]
      /\ \A m \in 2 .. Len(stack) : \E j \in 1 .. Len(stack') : stack'[j] = stack[m]
      /\ \A m \in 2 .. Len(stack) : MayTop(Top, stack[m]) /\ Local(stack[m])
      /\ Local(Top) /\ Follows(Top, stack[2])
      /\ \A m \in 1 .. Len(stack) : m = 1 \/ m \in 2 .. Len(stack)
  BY <1>1, PopLeaves DEF Base
<1>3. /\ Top.n = Len(windows) /\ Len(windows) > 0 /\ owner # Nobody
  BY <1>1, <1>2 DEF Local, OfAttack
<1>4. \A m \in 2 .. Len(stack) : stack[m].kind \notin {"leave", "window"}
  BY <1>1, <1>2 DEF MayTop
<1>5. actor = owner /\ actor \in Heroes /\ Top.n \in Nat
  <2>1. \A m \in 1 .. Len(stack) : stack[m].kind # "leave"
    BY <1>1, <1>2, <1>4
  <2>2. actor = owner
    BY <1>3, <2>1 DEF IInv, ActorFits
  <2>3. Top.n \in Nat
    BY <1>1, TopIs DEF Frames
  <2>. QED BY <1>3, <2>2, <2>3 DEF IInv, TypeOK
<1>6. AllLocal'
  <2>. SUFFICES ASSUME NEW j \in 1 .. Len(stack')
                PROVE  Local(stack[j])'
    BY DEF AllLocal
  <2>1. PICK m \in 2 .. Len(stack) : stack'[j] = stack[m]
    BY <1>2
  <2>2. Local(stack[m])
    BY <1>2
  <2>. QED BY <1>1, <2>1, <2>2 DEF Local
<1>7. Aimed'
  <2>. SUFFICES ASSUME NEW j \in 1 .. Len(stack')
                PROVE  /\ stack'[j].kind \notin {"window", "leave"}
                       /\ stack'[j].kind = "combat" /\ windows'[stack'[j].n] # "none" =>
                            /\ victim' = stack'[j].n
                            /\ primary' <=> windows'[stack'[j].n] = "primary"
    BY DEF Aimed
  <2>1. PICK m \in 2 .. Len(stack) : stack'[j] = stack[m]
    BY <1>2
  <2>2. m \in 1 .. Len(stack)
    BY <1>2
  <2>. QED BY <1>1, <1>4, <2>1, <2>2 DEF IInv, Aimed
<1>8. ActorFits'
  <2>1. \A j \in 1 .. Len(stack') : stack'[j].kind # "leave"
    BY <1>2, <1>4
  <2>. QED BY <1>1, <1>5, <2>1 DEF ActorFits
<1>9. TurnFits'
  BY <1>1, <1>3, <1>5 DEF IInv, TurnFits
<1>10. PrimaryFought'
  <2>. SUFFICES ASSUME NEW n \in DOMAIN windows, windows[n] = "primary"
                PROVE  \/ \E i \in 1 .. Len(stack') : stack'[i] = Frame("combat", n, "plain")
                       \/ \E g \in Heroes : <<n, g>> \in fought'
    BY <1>1 DEF PrimaryFought, Frame
  <2>1. CASE \E i \in 1 .. Len(stack) : stack[i] = Frame("combat", n, "plain")
    <3>1. PICK i \in 1 .. Len(stack) : stack[i] = Frame("combat", n, "plain")
      BY <2>1
    <3>2. stack[i].kind = "combat" /\ stack[i].n = n
      BY <3>1 DEF Frame
    <3>3. CASE i = 1
      <4>1. victim = n
        BY <1>2, <3>2, <3>3 DEF IInv, Aimed
      <4>2. n # 0
        <5>1. windows \in Seq(Answers)
          BY DEF IInv, TypeOK
        <5>. QED BY <5>1
      <4>. QED BY <1>1, <1>2, <1>5, <3>2, <3>3, <4>1, <4>2
    <3>4. CASE i # 1
      <4>1. i \in 2 .. Len(stack)
        BY <1>2, <3>4
      <4>. QED BY <1>2, <3>1, <4>1
    <3>. QED BY <3>3, <3>4
  <2>2. CASE \E g \in Heroes : <<n, g>> \in fought
    BY <1>1, <2>2
  <2>. QED BY <2>1, <2>2 DEF IInv, PrimaryFought
<1>11. Counted' /\ wishes' \in Nat /\ Finished'
  BY <1>1, CountedSame DEF Base
<1>12. TypeOK'
  <2>1. fought' \subseteq Nat \X (Heroes \cup {Nobody})
    BY <1>1, <1>5 DEF IInv, TypeOK
  <2>. QED BY <1>1, <1>11, <2>1 DEF IInv, TypeOK
<1>. QED BY <1>2, <1>6, <1>7, <1>8, <1>9, <1>10, <1>11, <1>12 DEF IInv, Stacked

-----------------------------------------------------------------------------
(* The steps that change who acts, and the choice of a victim. *)

\* The defender acts, and whoever acted is remembered.
LEMMA EnterStep == IInv /\ Enter => IInv'
<1>. SUFFICES ASSUME IInv, Enter PROVE IInv'
  OBVIOUS
<1>1. /\ stack # <<>> /\ Top.kind = "enter" /\ stack' = Tail(stack)
      /\ saved' = [saved EXCEPT ![Top.how] = actor] /\ actor' = defender
      /\ UNCHANGED <<owner, depth, victim, defender, primary, todo, nested, windows, fought,
                     wishes, over>>
  BY DEF Enter, On
<1>2. /\ stack \in Seq(Frames) /\ Len(stack) \in Nat /\ Len(stack) >= 2 /\ Top = stack[1]
      /\ Stacked(stack') /\ stack'[1] = stack[2]
      /\ \A j \in 1 .. Len(stack') : \E m \in 2 .. Len(stack) : stack'[j] = stack[m]
      /\ \A m \in 2 .. Len(stack) : \E j \in 1 .. Len(stack') : stack'[j] = stack[m]
      /\ \A m \in 2 .. Len(stack) : MayTop(Top, stack[m]) /\ Local(stack[m])
      /\ Local(Top) /\ Follows(Top, stack[2])
      /\ \A m \in 1 .. Len(stack) : m = 1 \/ m \in 2 .. Len(stack)
  BY <1>1, PopLeaves DEF Base
<1>3. owner # Nobody /\ Top.how \in Keys
  BY <1>1, <1>2 DEF Local, OfAttack
<1>4. saved' \in [Keys -> Heroes \cup {Nobody}] /\ saved'[Top.how] = actor
  BY <1>1, <1>3 DEF IInv, TypeOK
<1>5. /\ \E m \in 2 .. Len(stack) : stack[m].kind = "leave"
      /\ \A m \in 2 .. Len(stack) : stack[m].kind = "leave" => stack[m].how = Top.how
      /\ \A m \in 2 .. Len(stack) : stack[m].kind \notin {"window", "enter"}
  <2>1. Backed(stack, 1) /\ stack[1].kind = "enter"
    BY <1>1, TopIs
  <2>2. \E m \in 2 .. Len(stack) : stack[m].kind = "leave"
    BY <2>1 DEF Backed, NeedsLeave
  <2>3. ASSUME NEW m \in 2 .. Len(stack)
        PROVE  /\ stack[m].kind = "leave" => stack[m].how = Top.how
               /\ stack[m].kind \notin {"window", "enter"}
    <3>1. MayTop(Top, stack[m])
      BY <1>2
    <3>. QED BY <1>1, <3>1 DEF MayTop
  <2>. QED BY <2>2, <2>3
<1>6. actor = owner
  <2>1. PICK m \in 2 .. Len(stack) : stack[m].kind = "leave"
    BY <1>5
  <2>2. m \in 1 .. Len(stack)
    BY <1>2
  <2>. QED BY <1>1, <1>2, <1>3, <2>1, <2>2 DEF IInv, ActorFits
<1>7. AllLocal'
  <2>. SUFFICES ASSUME NEW j \in 1 .. Len(stack')
                PROVE  Local(stack[j])'
    BY DEF AllLocal
  <2>1. PICK m \in 2 .. Len(stack) : stack'[j] = stack[m]
    BY <1>2
  <2>2. Local(stack[m])
    BY <1>2
  <2>. QED BY <1>1, <2>1, <2>2 DEF Local
<1>8. Aimed'
  <2>. SUFFICES ASSUME NEW j \in 1 .. Len(stack')
                PROVE  /\ stack'[j].kind # "window"
                       /\ stack'[j].kind = "combat" /\ windows'[stack'[j].n] # "none" =>
                            /\ victim' = stack'[j].n
                            /\ primary' <=> windows'[stack'[j].n] = "primary"
                       /\ stack'[j].kind = "leave" /\ stack'[j].how = "defense" => primary'
    BY DEF Aimed
  <2>1. PICK m \in 2 .. Len(stack) : stack'[j] = stack[m]
    BY <1>2
  <2>2. m \in 1 .. Len(stack)
    BY <1>2
  <2>. QED BY <1>1, <1>5, <2>1, <2>2 DEF IInv, Aimed
<1>9. ActorFits'
  <2>1. \E j \in 1 .. Len(stack') : stack'[j].kind = "leave"
    BY <1>2, <1>5
  <2>2. \A j \in 1 .. Len(stack') : stack'[j].kind = "leave" => saved'[stack'[j].how] = owner'
    BY <1>1, <1>2, <1>4, <1>5, <1>6
  <2>3. stack'[1].kind # "enter"
    <3>1. 2 \in 2 .. Len(stack)
      BY <1>2
    <3>. QED BY <1>2, <1>5, <3>1
  <2>. QED BY <2>1, <2>2, <2>3 DEF ActorFits
<1>10. TurnFits'
  BY <1>1 DEF IInv, TurnFits
<1>11. PrimaryFought'
  <2>. SUFFICES ASSUME NEW n \in DOMAIN windows, windows[n] = "primary"
                PROVE  \/ \E i \in 1 .. Len(stack') : stack'[i] = Frame("combat", n, "plain")
                       \/ \E g \in Heroes : <<n, g>> \in fought
    BY <1>1 DEF PrimaryFought, Frame
  <2>1. CASE \E i \in 1 .. Len(stack) : stack[i] = Frame("combat", n, "plain")
    <3>1. PICK i \in 1 .. Len(stack) : stack[i] = Frame("combat", n, "plain")
      BY <2>1
    <3>2. stack[i].kind = "combat"
      BY <3>1 DEF Frame
    <3>3. i \in 2 .. Len(stack)
      BY <1>1, <1>2, <3>2
    <3>. QED BY <1>2, <3>1, <3>3
  <2>2. CASE \E g \in Heroes : <<n, g>> \in fought
    BY <2>2
  <2>. QED BY <2>1, <2>2 DEF IInv, PrimaryFought
<1>12. Counted' /\ wishes' \in Nat /\ Finished'
  BY <1>1, CountedSame DEF Base
<1>13. TypeOK'
  BY <1>1, <1>4, <1>12 DEF IInv, TypeOK
<1>. QED BY <1>2, <1>7, <1>8, <1>9, <1>10, <1>11, <1>12, <1>13 DEF IInv, Stacked

\* Whoever acted before acts again.
LEMMA LeaveStep == IInv /\ Leave => IInv'
<1>. SUFFICES ASSUME IInv, Leave PROVE IInv'
  OBVIOUS
<1>1. /\ stack # <<>> /\ Top.kind = "leave" /\ stack' = Tail(stack)
      /\ actor' = IF saved[Top.how] = Nobody THEN actor ELSE saved[Top.how]
      /\ UNCHANGED <<owner, saved, depth, victim, defender, primary, todo, nested, windows, fought,
                     wishes, over>>
  BY DEF Leave, On, contextVars
<1>2. /\ stack \in Seq(Frames) /\ Len(stack) \in Nat /\ Len(stack) >= 2 /\ Top = stack[1]
      /\ Stacked(stack') /\ stack'[1] = stack[2]
      /\ \A j \in 1 .. Len(stack') : \E m \in 2 .. Len(stack) : stack'[j] = stack[m]
      /\ \A m \in 2 .. Len(stack) : \E j \in 1 .. Len(stack') : stack'[j] = stack[m]
      /\ \A m \in 2 .. Len(stack) : MayTop(Top, stack[m]) /\ Local(stack[m])
      /\ Local(Top) /\ Follows(Top, stack[2])
      /\ \A m \in 1 .. Len(stack) : m = 1 \/ m \in 2 .. Len(stack)
  BY <1>1, PopLeaves DEF Base
<1>3. owner # Nobody /\ Top.how \in Keys
  BY <1>1, <1>2 DEF Local, OfAttack
<1>4. actor' = owner
  <2>1. 1 \in 1 .. Len(stack)
    BY <1>2
  <2>2. saved[Top.how] = owner
    BY <1>1, <1>2, <1>3, <2>1 DEF IInv, ActorFits
  <2>. QED BY <1>1, <1>3, <2>2
<1>5. \A m \in 2 .. Len(stack) : stack[m].kind \notin {"window", "leave"}
  BY <1>1, <1>2 DEF MayTop
<1>6. AllLocal'
  <2>. SUFFICES ASSUME NEW j \in 1 .. Len(stack')
                PROVE  Local(stack[j])'
    BY DEF AllLocal
  <2>1. PICK m \in 2 .. Len(stack) : stack'[j] = stack[m]
    BY <1>2
  <2>2. Local(stack[m])
    BY <1>2
  <2>. QED BY <1>1, <2>1, <2>2 DEF Local
<1>7. Aimed'
  <2>. SUFFICES ASSUME NEW j \in 1 .. Len(stack')
                PROVE  /\ stack'[j].kind \notin {"window", "leave"}
                       /\ stack'[j].kind = "combat" /\ windows'[stack'[j].n] # "none" =>
                            /\ victim' = stack'[j].n
                            /\ primary' <=> windows'[stack'[j].n] = "primary"
    BY DEF Aimed
  <2>1. PICK m \in 2 .. Len(stack) : stack'[j] = stack[m]
    BY <1>2
  <2>2. m \in 1 .. Len(stack)
    BY <1>2
  <2>. QED BY <1>1, <1>5, <2>1, <2>2 DEF IInv, Aimed
<1>8. ActorFits'
  <2>1. \A j \in 1 .. Len(stack') : stack'[j].kind # "leave"
    BY <1>2, <1>5
  <2>. QED BY <1>1, <1>4, <2>1 DEF ActorFits
<1>9. TurnFits'
  BY <1>1 DEF IInv, TurnFits
<1>10. PrimaryFought'
  <2>. SUFFICES ASSUME NEW n \in DOMAIN windows, windows[n] = "primary"
                PROVE  \/ \E i \in 1 .. Len(stack') : stack'[i] = Frame("combat", n, "plain")
                       \/ \E g \in Heroes : <<n, g>> \in fought
    BY <1>1 DEF PrimaryFought, Frame
  <2>1. CASE \E i \in 1 .. Len(stack) : stack[i] = Frame("combat", n, "plain")
    <3>1. PICK i \in 1 .. Len(stack) : stack[i] = Frame("combat", n, "plain")
      BY <2>1
    <3>2. stack[i].kind = "combat"
      BY <3>1 DEF Frame
    <3>3. i \in 2 .. Len(stack)
      BY <1>1, <1>2, <3>2
    <3>. QED BY <1>2, <3>1, <3>3
  <2>2. CASE \E g \in Heroes : <<n, g>> \in fought
    BY <2>2
  <2>. QED BY <2>1, <2>2 DEF IInv, PrimaryFought
<1>11. Counted' /\ wishes' \in Nat /\ Finished'
  BY <1>1, CountedSame DEF Base
<1>12. TypeOK'
  <2>1. owner \in Heroes \cup {Nobody}
    BY DEF IInv, TypeOK
  <2>2. actor' \in Heroes \cup {Nobody}
    BY <1>4, <2>1
  <2>. QED BY <1>1, <1>11, <2>2 DEF IInv, TypeOK
<1>. QED BY <1>2, <1>6, <1>7, <1>8, <1>9, <1>10, <1>11, <1>12 DEF IInv, Stacked

\* A victim is chosen, or an optional choice is declined.
LEMMA SelectPopStep ==
    ASSUME IInv, stack # <<>>, Top.kind = "select", stack' = Tail(stack),
           victim' = Top.n \/ (Top.how = "optional" /\ victim' = 0),
           UNCHANGED <<owner, actor, saved, depth, defender, primary, todo, nested, windows, fought,
                       wishes, over>>
    PROVE  IInv'
<1>2. /\ stack \in Seq(Frames) /\ Len(stack) \in Nat /\ Len(stack) >= 2 /\ Top = stack[1]
      /\ Stacked(stack') /\ stack'[1] = stack[2]
      /\ \A j \in 1 .. Len(stack') : \E m \in 2 .. Len(stack) : stack'[j] = stack[m]
      /\ \A m \in 2 .. Len(stack) : \E j \in 1 .. Len(stack') : stack'[j] = stack[m]
      /\ \A m \in 2 .. Len(stack) : MayTop(Top, stack[m]) /\ Local(stack[m])
      /\ Local(Top) /\ Follows(Top, stack[2])
      /\ \A m \in 1 .. Len(stack) : m = 1 \/ m \in 2 .. Len(stack)
  BY PopLeaves DEF Base
<1>3. /\ Top.n = Len(windows) /\ Len(windows) > 0 /\ owner # Nobody
      /\ windows[Top.n] = "none"
  BY <1>2 DEF Local, OfAttack
<1>4. \A m \in 2 .. Len(stack) :
        /\ stack[m].kind \notin {"enter", "leave"}
        /\ stack[m].kind \in OfAttack => stack[m].n = Top.n
  BY <1>2, <1>3 DEF MayTop, Local
<1>5. actor = owner
  <2>1. \A m \in 1 .. Len(stack) : stack[m].kind # "leave"
    BY <1>2, <1>4
  <2>. QED BY <1>3, <2>1 DEF IInv, ActorFits
<1>6. AllLocal'
  <2>. SUFFICES ASSUME NEW j \in 1 .. Len(stack')
                PROVE  Local(stack[j])'
    BY DEF AllLocal
  <2>1. PICK m \in 2 .. Len(stack) : stack'[j] = stack[m]
    BY <1>2
  <2>2. Local(stack[m])
    BY <1>2
  <2>. QED BY <2>1, <2>2 DEF Local
<1>7. Aimed'
  <2>. SUFFICES ASSUME NEW j \in 1 .. Len(stack')
                PROVE  /\ j = 1 /\ stack'[j].kind = "window" => victim' = stack'[j].n
                       /\ stack'[j].kind = "combat" => windows'[stack'[j].n] = "none"
                       /\ stack'[j].kind # "leave"
    BY DEF Aimed
  <2>1. PICK m \in 2 .. Len(stack) : stack'[j] = stack[m]
    BY <1>2
  <2>2. stack'[j].kind = "combat" => windows'[stack'[j].n] = "none"
    BY <1>3, <1>4, <2>1 DEF OfAttack
  <2>3. stack'[j].kind # "leave"
    BY <1>4, <2>1
  <2>4. j = 1 /\ stack'[j].kind = "window" => victim' = stack'[j].n
    <3>. SUFFICES ASSUME stack[2].kind = "window"
                  PROVE  victim' = stack[2].n
      BY <1>2
    <3>1. Top.how # "optional"
      BY <1>2 DEF Follows
    <3>2. 2 \in 2 .. Len(stack)
      BY <1>2
    <3>. QED BY <1>4, <3>1, <3>2 DEF OfAttack
  <2>. QED BY <2>2, <2>3, <2>4
<1>8. ActorFits'
  <2>1. \A j \in 1 .. Len(stack') : stack'[j].kind # "leave"
    BY <1>2, <1>4
  <2>. QED BY <1>5, <2>1 DEF ActorFits
<1>9. TurnFits'
  BY DEF IInv, TurnFits
<1>10. PrimaryFought'
  <2>. SUFFICES ASSUME NEW n \in DOMAIN windows, windows[n] = "primary"
                PROVE  \/ \E i \in 1 .. Len(stack') : stack'[i] = Frame("combat", n, "plain")
                       \/ \E g \in Heroes : <<n, g>> \in fought
    BY DEF PrimaryFought, Frame
  <2>1. CASE \E i \in 1 .. Len(stack) : stack[i] = Frame("combat", n, "plain")
    <3>1. PICK i \in 1 .. Len(stack) : stack[i] = Frame("combat", n, "plain")
      BY <2>1
    <3>2. stack[i].kind = "combat"
      BY <3>1 DEF Frame
    <3>3. i \in 2 .. Len(stack)
      BY <1>2, <3>2
    <3>. QED BY <1>2, <3>1, <3>3
  <2>2. CASE \E g \in Heroes : <<n, g>> \in fought
    BY <2>2
  <2>. QED BY <2>1, <2>2 DEF IInv, PrimaryFought
<1>11. Counted' /\ wishes' \in Nat /\ Finished'
  BY CountedSame DEF Base
<1>12. TypeOK'
  <2>1. victim' \in Nat
    BY TopIs DEF Frames
  <2>. QED BY <1>11, <2>1 DEF IInv, TypeOK
<1>. QED BY <1>2, <1>6, <1>7, <1>8, <1>9, <1>10, <1>11, <1>12 DEF IInv, Stacked

-----------------------------------------------------------------------------
(* Between turns: the stack holds one step. *)

\* The step that ends a turn, or looks for the next one, is the only one.
LEMMA Alone ==
    ASSUME IInv, stack # <<>>, Top.kind \in Base
    PROVE  /\ stack \in Seq(Frames) /\ Len(stack) = 1 /\ Top = stack[1] /\ Tail(stack) = <<>>
           /\ Local(Top) /\ \A s \in Seq(Frames) : Pushed(s) = s
           /\ wishes = 0 /\ depth = 0
<1>1. /\ stack \in Seq(Frames) /\ Len(stack) \in Nat /\ Len(stack) >= 1 /\ Top = stack[1]
      /\ Len(stack) > 1 => Top.kind \notin Base
      /\ Local(Top)
  BY TopIs
<1>2. Len(stack) = 1
  <2>1. Len(stack) \in Nat /\ Len(stack) >= 1 /\ ~ (Len(stack) > 1)
    BY <1>1
  <2>2. \A n \in Nat : n >= 1 /\ ~ (n > 1) => n = 1
    OBVIOUS
  <2>. QED BY ONLY <2>1, <2>2
<1>3. Tail(stack) = <<>>
  <2>1. Tail(stack) \in Seq(Frames) /\ Len(Tail(stack)) = 0
    <3>1. stack \in Seq(Frames) /\ stack # <<>>
      BY <1>1
    <3>. QED BY ONLY <1>2, <3>1
  <2>2. 0 \notin Nat \ {0}
    OBVIOUS
  <2>. QED BY ONLY <2>1, <2>2, EmptySeq
<1>4. \A s \in Seq(Frames) : Pushed(s) = s
  <2>. SUFFICES ASSUME NEW s \in Seq(Frames) PROVE s \o <<>> = s
    BY <1>3 DEF Pushed
  <2>. QED BY ConcatEmptySeq
<1>5. Number(stack, 1, Len(stack), "wish") = 0 /\ Number(stack, 1, Len(stack), "restore") = 0
  <2>1. \A i \in 1 .. 1 : stack[i].kind # "wish" /\ stack[i].kind # "restore"
    BY <1>1 DEF Base
  <2>2. Number(stack, 1, 1, "wish") = 0 /\ Number(stack, 1, 1, "restore") = 0
    BY <2>1, NumberZero
  <2>. QED BY <1>2, <2>2
<1>6. wishes = 0 /\ depth = 0
  <2>1. wishes = 0 /\ depth <= 0 /\ depth \in Nat
    BY <1>5 DEF IInv, Counted, TypeOK
  <2>. QED BY <2>1
<1>. QED BY <1>1, <1>2, <1>3, <1>4, <1>6

\* A new stack: every part of the invariant, when nobody has pushed an attack, a
\* change of actor, a Wish or an action on it.
LEMMA Fresh ==
    ASSUME stack' \in Seq(Frames), Len(stack') > 0,
           \A i \in 1 .. Len(stack') :
             stack'[i].kind \in Base \cup {"text", "confirm", "source", "finished"},
           \A i \in 1 .. Len(stack') : (stack'[i].kind \in Base) <=> (i = Len(stack')),
           \A i \in 1 .. Len(stack') : stack'[i].kind = "text" =>
             /\ stack'[i].how \notin Keys
             /\ \E j \in i + 1 .. Len(stack') : Boundary(stack'[j]),
           wishes' = 0, depth' = 0, windows' = <<>>
    PROVE  Stacked(stack') /\ Aimed' /\ PrimaryFought' /\ Counted' /\ Finished'
<1>1. \A i, j \in 1 .. Len(stack') : i < j => MayTop(stack'[i], stack'[j])
  <2>. SUFFICES ASSUME NEW i \in 1 .. Len(stack'), NEW j \in 1 .. Len(stack'), i < j
                PROVE  MayTop(stack'[i], stack'[j])
    OBVIOUS
  <2>1. i # Len(stack')
    OBVIOUS
  <2>2. stack'[i].kind \notin Base
    BY <2>1
  <2>3. stack'[j].kind \in Base \cup {"text", "confirm", "source", "finished"}
    OBVIOUS
  <2>. QED BY <2>2, <2>3 DEF MayTop, Base
<1>2. \A i \in 1 .. Len(stack') - 1 : Follows(stack'[i], stack'[i + 1])
  <2>. SUFFICES ASSUME NEW i \in 1 .. Len(stack') - 1
                PROVE  Follows(stack'[i], stack'[i + 1])
    OBVIOUS
  <2>1. i \in 1 .. Len(stack') /\ i + 1 \in 1 .. Len(stack')
    OBVIOUS
  <2>2. /\ stack'[i].kind \in Base \cup {"text", "confirm", "source", "finished"}
        /\ stack'[i + 1].kind \in Base \cup {"text", "confirm", "source", "finished"}
    BY <2>1
  <2>. QED BY <2>2 DEF Follows, OthersEnd, Base
<1>3. stack'[Len(stack')].kind \in Base
  OBVIOUS
<1>4. \A i \in 1 .. Len(stack') : Backed(stack', i)
  <2>. SUFFICES ASSUME NEW i \in 1 .. Len(stack')
                PROVE  Backed(stack', i)
    OBVIOUS
  <2>1. stack'[i].kind \in Base \cup {"text", "confirm", "source", "finished"}
    OBVIOUS
  <2>2. stack'[i].kind \in Loose => stack'[i].kind = "text"
    BY <2>1 DEF Base, Loose, OfAttack
  <2>3. ~ NeedsLeave(stack'[i])
    BY <2>1 DEF NeedsLeave, Base
  <2>. QED BY <2>2, <2>3 DEF Backed
<1>5. Stacked(stack')
  BY <1>1, <1>2, <1>3, <1>4 DEF Stacked
<1>6. Aimed' /\ PrimaryFought' /\ Finished'
  <2>1. Aimed'
    BY DEF Aimed, Base
  <2>2. PrimaryFought'
    BY DEF PrimaryFought
  <2>3. Finished'
    BY DEF Finished
  <2>. QED BY <2>1, <2>2, <2>3
<1>7. Counted'
  <2>1. /\ 1 \in Int /\ Len(stack') \in Int
        /\ \A i \in 1 .. Len(stack') : stack'[i].kind # "wish" /\ stack'[i].kind # "restore"
    BY DEF Base
  <2>2. Number(stack', 1, Len(stack'), "wish") = 0 /\ Number(stack', 1, Len(stack'), "restore") = 0
    BY <2>1, NumberZero
  <2>. QED BY <2>2 DEF Counted, Number
<1>. QED BY <1>5, <1>6, <1>7

\* What a step is made of.
LEMMA StepType ==
    \A kind \in Kinds : /\ Step(kind) \in Frames
                        /\ Step(kind).kind = kind /\ Step(kind).n = 0
<1>1. "plain" \in Hows /\ 0 \in Nat
  BY DEF Hows
<1>. QED BY <1>1, FrameType DEF Step

\* A turn ends: its context is cleared.
LEMMA FinalizeStep == IInv /\ Finalize => IInv'
<1>. SUFFICES ASSUME IInv, Finalize PROVE IInv'
  OBVIOUS
<1>. DEFINE s == <<Step("next")>>
<1>1. /\ stack # <<>> /\ Top.kind = "finalize" /\ stack' = Pushed(s)
      /\ saved' = [key \in Keys |-> Nobody] /\ depth' = 0 /\ victim' = 0 /\ defender' = Nobody
      /\ primary' = FALSE /\ owner' = Nobody /\ actor' = Nobody /\ nested' = 0
      /\ windows' = <<>> /\ fought' = {} /\ UNCHANGED <<todo, wishes, over>>
  BY DEF Finalize, On, NoContext
<1>2. s \in Seq(Frames) /\ Len(s) = 1 /\ s[1].kind = "next"
  <2>1. Step("next") \in Frames /\ Step("next").kind = "next"
    BY StepType DEF Kinds, Base
  <2>. QED BY <2>1
<1>. HIDE DEF s
<1>3. stack' = s /\ wishes = 0
  BY <1>1, <1>2, Alone DEF Base
<1>4. Stacked(stack') /\ Aimed' /\ PrimaryFought' /\ Counted' /\ Finished'
  <2>1. \A i \in 1 .. Len(stack') : i = 1 /\ stack'[i].kind = "next"
    <3>1. Len(stack') = 1 /\ stack'[1].kind = "next"
      BY <1>2, <1>3
    <3>. QED BY <3>1
  <2>2. /\ stack' \in Seq(Frames) /\ Len(stack') = 1 /\ wishes' = 0 /\ depth' = 0 /\ windows' = <<>>
    BY <1>1, <1>2, <1>3
  <2>. QED BY <2>1, <2>2, Fresh DEF Base
<1>5. AllLocal'
  <2>. SUFFICES ASSUME NEW j \in 1 .. Len(stack')
                PROVE  Local(stack[j])'
    BY DEF AllLocal
  <2>1. stack'[j].kind = "next"
    <3>1. Len(stack') = 1 /\ stack'[1].kind = "next"
      BY <1>2, <1>3
    <3>. QED BY <3>1
  <2>. QED BY <1>1, <2>1 DEF Local, OfAttack
<1>6. ActorFits' /\ TurnFits'
  BY <1>1 DEF ActorFits, TurnFits
<1>7. TypeOK'
  <2>1. <<>> \in Seq(Answers) /\ [key \in Keys |-> Nobody] \in [Keys -> Heroes \cup {Nobody}]
    OBVIOUS
  <2>. QED BY <1>1, <2>1 DEF IInv, TypeOK
<1>. QED BY <1>4, <1>5, <1>6, <1>7 DEF IInv, Stacked

\* The turn advances.
LEMMA AdvanceStep == IInv /\ Advance => IInv'
<1>. SUFFICES ASSUME IInv, Advance PROVE IInv'
  OBVIOUS
<1>1. /\ stack # <<>> /\ Top.kind = "advance" /\ stack' = Tail(stack) /\ over' = TRUE
      /\ UNCHANGED <<owner, actor, saved, depth, victim, defender, primary, todo, nested, windows,
                     fought, wishes>>
  BY DEF Advance, On, contextVars
<1>2. /\ stack \in Seq(Frames) /\ Len(stack) = 1 /\ stack[1].kind = "advance"
      /\ stack' = <<>> /\ Local(Top) /\ wishes = 0 /\ depth = 0
  BY <1>1, Alone DEF Base
<1>3. todo = {}
  BY <1>1, <1>2 DEF Local
<1>4. Stacked(stack')
  BY <1>2 DEF Stacked
<1>5. AllLocal' /\ Aimed'
  BY <1>2 DEF AllLocal, Aimed
<1>6. ActorFits'
  <2>1. \A i \in 1 .. Len(stack) : stack[i].kind # "leave"
    BY <1>2
  <2>. QED BY <1>1, <1>2, <2>1 DEF IInv, ActorFits
<1>7. TurnFits'
  BY <1>1 DEF IInv, TurnFits
<1>8. PrimaryFought'
  <2>. SUFFICES ASSUME NEW n \in DOMAIN windows, windows[n] = "primary"
                PROVE  \E g \in Heroes : <<n, g>> \in fought
    BY <1>1 DEF PrimaryFought
  <2>1. \A i \in 1 .. Len(stack) : stack[i] # Frame("combat", n, "plain")
    <3>1. Frame("combat", n, "plain").kind = "combat"
      BY DEF Frame
    <3>. QED BY <1>2, <3>1
  <2>. QED BY <2>1 DEF IInv, PrimaryFought
<1>9. Counted'
  <2>1. \A kind : Number(<<>>, 1, Len(<<>>), kind) = 0
    <3>1. 1 \in Int /\ Len(<<>>) \in Int /\ \A kind : \A i \in 1 .. Len(<<>>) : <<>>[i].kind # kind
      OBVIOUS
    <3>. QED BY <3>1, NumberZero
  <2>2. Number(stack', 1, Len(stack'), "wish") = 0 /\ Number(stack', 1, Len(stack'), "restore") = 0
    BY <1>2, <2>1, Zenon
  <2>3. wishes' = 0 /\ depth' = 0
    BY <1>1, <1>2
  <2>. QED BY <2>2, <2>3 DEF Counted, Number
<1>10. Finished'
  BY <1>1, <1>3 DEF Finished
<1>11. TypeOK'
  BY <1>1 DEF IInv, TypeOK
<1>. QED BY <1>4, <1>5, <1>6, <1>7, <1>8, <1>9, <1>10, <1>11 DEF IInv, Stacked

\* Payloads: each is a source, a text and its end.
LEMMA PayloadsAre ==
    ASSUME NEW n \in Nat
    PROVE  /\ Payloads(n) \in Seq(Frames) /\ Len(Payloads(n)) = 3 * n
           /\ \A i \in 1 .. 3 * n :
                /\ Payloads(n)[i].kind \in {"source", "text", "finished"}
                /\ Payloads(n)[i].kind = "text" =>
                     /\ Payloads(n)[i].how = "payload"
                     /\ i + 1 \in 1 .. 3 * n /\ Payloads(n)[i + 1].kind = "finished"
<1>1. /\ Payload[1] \in Frames /\ Payload[1].kind = "source"
      /\ Payload[2] \in Frames /\ Payload[2].kind = "text" /\ Payload[2].how = "payload"
      /\ Payload[3] \in Frames /\ Payload[3].kind = "finished"
  <2>. DEFINE e == Step("source")
              f == Frame("text", 0, "payload")
              g == Step("finished")
  <2>1. /\ "source" \in Kinds /\ "text" \in Kinds /\ "finished" \in Kinds /\ "payload" \in Hows
        /\ 0 \in Nat
    BY DEF Kinds, Loose, Hows
  <2>2. e \in Frames /\ e.kind = "source"
    BY <2>1, StepType
  <2>3. f \in Frames /\ f.kind = "text" /\ f.how = "payload"
    BY <2>1, FrameType
  <2>4. g \in Frames /\ g.kind = "finished"
    BY <2>1, StepType
  <2>5. Payload = <<e, f, g>>
    BY DEF Payload
  <2>. HIDE DEF e, f, g
  <2>6. <<e, f, g>>[1] = e /\ <<e, f, g>>[2] = f /\ <<e, f, g>>[3] = g
    OBVIOUS
  <2>. QED BY <2>2, <2>3, <2>4, <2>5, <2>6
<1>. DEFINE P == Payloads(n)
<1>2. \A i \in 1 .. 3 * n : P[i] = Payload[1 + ((i - 1) % 3)]
  BY DEF Payloads
<1>3. \A i \in 1 .. 3 * n : (i - 1) % 3 \in {0, 1, 2}
  OBVIOUS
<1>4. \A i \in 1 .. 3 * n : (i - 1) % 3 = 1 => i + 1 \in 1 .. 3 * n /\ ((i + 1) - 1) % 3 = 2
  OBVIOUS
<1>5. \A i \in 1 .. 3 * n : P[i] \in Frames /\ P[i].kind \in {"source", "text", "finished"}
  <2>. SUFFICES ASSUME NEW i \in 1 .. 3 * n
                PROVE  P[i] \in Frames /\ P[i].kind \in {"source", "text", "finished"}
    OBVIOUS
  <2>. DEFINE m == (i - 1) % 3
  <2>1. m \in {0, 1, 2} /\ P[i] = Payload[1 + m]
    BY <1>2, <1>3
  <2>. HIDE DEF m, P
  <2>2. 1 + m \in {1, 2, 3}
    BY <2>1
  <2>. QED BY <1>1, <2>1, <2>2
<1>6. ASSUME NEW i \in 1 .. 3 * n, P[i].kind = "text"
      PROVE  /\ P[i].how = "payload"
             /\ i + 1 \in 1 .. 3 * n /\ P[i + 1].kind = "finished"
  <2>. DEFINE m == (i - 1) % 3
  <2>1. m \in {0, 1, 2} /\ P[i] = Payload[1 + m]
    BY <1>2, <1>3
  <2>2. m = 1
    <3>. HIDE DEF m, P
    <3>1. m = 0 \/ m = 1 \/ m = 2
      BY <2>1
    <3>2. m # 0 /\ m # 2
      BY <1>1, <1>6, <2>1
    <3>. QED BY <3>1, <3>2
  <2>3. P[i] = Payload[2]
    <3>. HIDE DEF m, P
    <3>. QED BY <2>1, <2>2
  <2>4. i + 1 \in 1 .. 3 * n /\ ((i + 1) - 1) % 3 = 2
    BY <1>4, <2>2
  <2>5. P[i + 1] = Payload[1 + (((i + 1) - 1) % 3)]
    BY <1>2, <2>4, Zenon
  <2>6. P[i + 1] = Payload[3]
    <3>. HIDE DEF P
    <3>. QED BY <2>4, <2>5
  <2>. QED BY <1>1, <2>3, <2>4, <2>6
<1>7. P \in Seq(Frames) /\ Len(P) = 3 * n
  <2>1. 3 * n \in Nat /\ P = [i \in 1 .. 3 * n |-> P[i]]
    BY DEF Payloads
  <2>2. P \in [1 .. 3 * n -> Frames]
    BY <1>5 DEF Payloads
  <2>. HIDE DEF P
  <2>. QED BY <2>1, <2>2
<1>. QED BY <1>5, <1>6, <1>7

\* One frame after some others.
LEMMA ThenOne ==
    ASSUME NEW p \in Seq(Frames), NEW f \in Frames
    PROVE  /\ p \o <<f>> \in Seq(Frames) /\ Len(p \o <<f>>) = Len(p) + 1
           /\ \A i \in 1 .. Len(p) : (p \o <<f>>)[i] = p[i]
           /\ (p \o <<f>>)[Len(p) + 1] = f
<1>1. <<f>> \in Seq(Frames) /\ Len(<<f>>) = 1 /\ <<f>>[1] = f
  OBVIOUS
<1>. DEFINE e == <<f>>
<1>. HIDE DEF e
<1>2. e \in Seq(Frames) /\ Len(e) = 1 /\ e[1] = f /\ 1 \in 1 .. Len(e)
  BY <1>1 DEF e
<1>3. p \o e \in Seq(Frames) /\ Onto(p \o e, p, e, 1)
  BY <1>2, OverOnto, Zenon
<1>4. Len(p \o e) = Len(p) + 1 /\ \A i \in 1 .. Len(p) : (p \o e)[i] = p[i]
  <2>1. Len(p) \in Nat
    OBVIOUS
  <2>. QED BY ONLY <1>2, <1>3, <2>1 DEF Onto
<1>5. (p \o e)[Len(p) + 1] = f
  <2>1. Len(p) \in Nat /\ Len(p) + 1 + 1 - 1 = Len(p) + 1
    OBVIOUS
  <2>2. (p \o e)[Len(p) + 1 + 1 - 1] = e[1]
    BY <1>2, <1>3, Zenon DEF Onto
  <2>. QED BY <1>2, <2>1, <2>2
<1>6. p \o e \in Seq(Frames) /\ Len(p \o e) = Len(p) + 1
      /\ (\A i \in 1 .. Len(p) : (p \o e)[i] = p[i]) /\ (p \o e)[Len(p) + 1] = f
  BY <1>3, <1>4, <1>5
<1>. QED BY <1>6, Zenon DEF e

\* The next hero's turn, or the end of the turn.
LEMMA NextActorStep == IInv /\ NextActor => IInv'
<1>. SUFFICES ASSUME IInv, NextActor PROVE IInv'
  OBVIOUS
<1>1. /\ stack # <<>> /\ Top.kind = "next"
      /\ UNCHANGED <<saved, depth, victim, defender, primary, nested, windows, fought, wishes, over>>
  BY DEF NextActor, On, contextVars
<1>2. /\ Local(Top) /\ (\A s \in Seq(Frames) : Pushed(s) = s) /\ wishes = 0 /\ depth = 0
  BY <1>1, Alone DEF Base
<1>3. owner = Nobody
  BY <1>1, <1>2 DEF Local
<1>4. windows = <<>> /\ fought = {}
  BY <1>3 DEF IInv, TurnFits
<1>5. CASE todo = {}
  <2>1. PICK n \in 0 .. MaxPayloads :
          /\ stack' = Pushed(Payloads(n) \o <<Step("advance")>>)
          /\ UNCHANGED <<owner, actor, todo>>
    BY <1>5 DEF NextActor
  <2>. DEFINE P == Payloads(n)
              a == Step("advance")
              s == P \o <<a>>
  <2>2. /\ n \in Nat /\ P \in Seq(Frames) /\ Len(P) = 3 * n
        /\ \A i \in 1 .. 3 * n :
             /\ P[i].kind \in {"source", "text", "finished"}
             /\ P[i].kind = "text" => /\ P[i].how = "payload"
                                      /\ i + 1 \in 1 .. 3 * n /\ P[i + 1].kind = "finished"
    <3>1. n \in Nat
      BY <2>1
    <3>. QED BY <3>1, PayloadsAre
  <2>3. a \in Frames /\ a.kind = "advance"
    BY StepType DEF Kinds, Base
  <2>. HIDE DEF P, a
  <2>4. P \in Seq(Frames) /\ a \in Frames
    BY <2>2, <2>3
  <2>5. /\ s \in Seq(Frames) /\ Len(s) = 3 * n + 1
        /\ \A i \in 1 .. 3 * n : s[i] = P[i]
        /\ s[3 * n + 1] = a
    <3>1. /\ s \in Seq(Frames) /\ Len(s) = Len(P) + 1
          /\ (\A i \in 1 .. Len(P) : s[i] = P[i]) /\ s[Len(P) + 1] = a
      BY <2>4, ThenOne, Zenon
    <3>. HIDE DEF s
    <3>2. Len(P) = 3 * n
      BY <2>2
    <3>. QED BY ONLY <3>1, <3>2
  <2>. HIDE DEF s
  <2>6. stack' = s
    BY <1>2, <2>1, <2>5 DEF s, P, a
  <2>7. /\ Len(s) = 3 * n + 1 /\ 3 * n \in Nat
        /\ \A i \in 1 .. Len(s) : i \in 1 .. 3 * n \/ i = 3 * n + 1
        /\ \A i \in 1 .. 3 * n : i \in 1 .. Len(s) /\ i # Len(s)
    <3>1. n \in Nat /\ Len(s) = 3 * n + 1
      BY <2>2, <2>5
    <3>. QED BY ONLY <3>1
  <2>8. ASSUME NEW i \in 1 .. Len(s)
        PROVE  /\ s[i].kind \in {"source", "text", "finished", "advance"}
               /\ (s[i].kind = "advance") <=> (i = Len(s))
               /\ s[i].kind = "text" => /\ s[i].how = "payload"
                                        /\ \E j \in i + 1 .. Len(s) : Boundary(s[j])
    <3>1. CASE i \in 1 .. 3 * n
      <4>1. s[i] = P[i] /\ i # Len(s)
        BY <2>5, <2>7, <3>1
      <4>2. s[i].kind \in {"source", "text", "finished"}
        BY <2>2, <3>1, <4>1
      <4>3. ASSUME s[i].kind = "text"
            PROVE  s[i].how = "payload" /\ \E j \in i + 1 .. Len(s) : Boundary(s[j])
        <5>1. P[i].how = "payload" /\ i + 1 \in 1 .. 3 * n /\ P[i + 1].kind = "finished"
          BY <2>2, <3>1, <4>1, <4>3
        <5>2. s[i + 1].kind = "finished"
          BY <2>5, <5>1
        <5>3. i + 1 \in i + 1 .. Len(s)
          BY <2>7, <5>1
        <5>. QED BY <4>1, <5>1, <5>2, <5>3 DEF Boundary
      <4>. QED BY <4>1, <4>2, <4>3
    <3>2. CASE i = 3 * n + 1
      BY <2>3, <2>5, <2>7, <3>2
    <3>. QED BY <2>7, <3>1, <3>2
  <2>9. Stacked(stack') /\ Aimed' /\ PrimaryFought' /\ Counted' /\ Finished'
    <3>1. /\ stack' \in Seq(Frames) /\ Len(stack') > 0
          /\ wishes' = 0 /\ depth' = 0 /\ windows' = <<>>
      BY <1>1, <1>2, <1>4, <2>5, <2>6, <2>7
    <3>2. ASSUME NEW i \in 1 .. Len(stack')
          PROVE  /\ stack'[i].kind \in Base \cup {"text", "confirm", "source", "finished"}
                 /\ (stack'[i].kind \in Base) <=> (i = Len(stack'))
                 /\ stack'[i].kind = "text" =>
                      /\ stack'[i].how \notin Keys
                      /\ \E j \in i + 1 .. Len(stack') : Boundary(stack'[j])
      BY <2>6, <2>8 DEF Base, Keys
    <3>. QED BY <3>1, <3>2, Fresh
  <2>10. AllLocal'
    <3>. SUFFICES ASSUME NEW j \in 1 .. Len(stack')
                  PROVE  Local(stack[j])'
      BY DEF AllLocal
    <3>1. /\ stack'[j].kind \in {"source", "text", "finished", "advance"}
          /\ stack'[j].kind = "text" => stack'[j].how = "payload"
      BY <2>6, <2>8
    <3>2. owner' = Nobody /\ todo' = {}
      BY <1>3, <1>5, <2>1
    <3>. QED BY <3>1, <3>2 DEF Local, OfAttack
  <2>11. ActorFits' /\ TurnFits'
    BY <1>1, <1>3, <1>4, <2>1 DEF ActorFits, TurnFits
  <2>12. TypeOK'
    BY <1>1, <2>1 DEF IInv, TypeOK
  <2>. QED BY <2>9, <2>10, <2>11, <2>12 DEF IInv, Stacked
<1>6. CASE todo # {}
  <2>1. PICK h \in todo :
          /\ todo' = todo \ {h} /\ owner' = h /\ actor' = h
          /\ stack' = Pushed(<<Frame("text", 0, "own"), Step("confirm"), Step("finalize")>>)
    BY <1>6 DEF NextActor
  <2>2. h \in Heroes /\ h # Nobody
    BY StackAssumption DEF IInv, TypeOK
  <2>. DEFINE e == Frame("text", 0, "own")
              f == Step("confirm")
              g == Step("finalize")
              s == <<e, f, g>>
  <2>3. e \in Frames /\ e.kind = "text" /\ e.how = "own"
    <3>1. "text" \in Kinds /\ "own" \in Hows /\ 0 \in Nat
      BY DEF Kinds, Loose, Hows
    <3>. QED BY <3>1, FrameType
  <2>4. f \in Frames /\ f.kind = "confirm" /\ g \in Frames /\ g.kind = "finalize"
    BY StepType DEF Kinds, Base
  <2>. HIDE DEF e, f, g
  <2>5. s \in Seq(Frames) /\ Len(s) = 3 /\ s[1] = e /\ s[2] = f /\ s[3] = g
    BY <2>3, <2>4
  <2>. HIDE DEF s
  <2>6. stack' = s
    BY <1>2, <2>1, <2>5 DEF s, e, f, g
  <2>7. ASSUME NEW i \in 1 .. Len(stack')
        PROVE  /\ stack'[i].kind \in {"text", "confirm", "finalize"}
               /\ (stack'[i].kind = "finalize") <=> (i = Len(stack'))
               /\ stack'[i].kind = "text" => /\ stack'[i].how = "own"
                                             /\ \E j \in i + 1 .. Len(stack') : Boundary(stack'[j])
    <3>1. i \in {1, 2, 3}
      <4>1. Len(stack') = 3 /\ i \in 1 .. Len(stack')
        BY ONLY <2>5, <2>6, <2>7
      <4>. QED BY ONLY <4>1
    <3>5. Len(stack') = 3 /\ stack'[1] = e /\ stack'[2] = f /\ stack'[3] = g
      BY ONLY <2>5, <2>6
    <3>2. CASE i = 1
      <4>1. 3 \in i + 1 .. Len(stack')
        BY ONLY <3>2, <3>5
      <4>2. Boundary(stack'[3])
        BY ONLY <2>4, <3>5 DEF Boundary
      <4>3. i # Len(stack') /\ stack'[i] = e
        BY ONLY <3>2, <3>5
      <4>. QED BY ONLY <2>3, <4>1, <4>2, <4>3
    <3>3. CASE i = 2
      BY ONLY <2>4, <3>3, <3>5
    <3>4. CASE i = 3
      BY ONLY <2>4, <3>4, <3>5
    <3>. QED BY <3>1, <3>2, <3>3, <3>4
  <2>8. Stacked(stack') /\ Aimed' /\ PrimaryFought' /\ Counted' /\ Finished'
    <3>1. /\ stack' \in Seq(Frames) /\ Len(stack') > 0
          /\ wishes' = 0 /\ depth' = 0 /\ windows' = <<>>
      BY ONLY <1>1, <1>2, <1>4, <2>5, <2>6
    <3>2. ASSUME NEW i \in 1 .. Len(stack')
          PROVE  /\ stack'[i].kind \in Base \cup {"text", "confirm", "source", "finished"}
                 /\ (stack'[i].kind \in Base) <=> (i = Len(stack'))
                 /\ stack'[i].kind = "text" =>
                      /\ stack'[i].how \notin Keys
                      /\ \E j \in i + 1 .. Len(stack') : Boundary(stack'[j])
      BY <2>7 DEF Base, Keys
    <3>. QED BY <3>1, <3>2, Fresh
  <2>9. AllLocal'
    <3>. SUFFICES ASSUME NEW j \in 1 .. Len(stack')
                  PROVE  Local(stack[j])'
      BY DEF AllLocal
    <3>1. /\ stack'[j].kind \in {"text", "confirm", "finalize"}
          /\ stack'[j].kind = "text" => stack'[j].how = "own"
      BY <2>7
    <3>2. owner' # Nobody
      BY <2>1, <2>2
    <3>. QED BY <3>1, <3>2 DEF Local, OfAttack
  <2>10. ActorFits' /\ TurnFits'
    <3>1. \A i \in 1 .. Len(stack') : stack'[i].kind # "leave"
      BY <2>7
    <3>. QED BY <1>1, <1>4, <2>1, <2>2, <3>1 DEF ActorFits, TurnFits
  <2>11. TypeOK'
    BY <1>1, <2>1, <2>2 DEF IInv, TypeOK
  <2>. QED BY <2>8, <2>9, <2>10, <2>11 DEF IInv, Stacked
<1>. QED BY <1>5, <1>6

-----------------------------------------------------------------------------
(* Aborts. *)

\* The first of some positions is one of them, and none comes before it.
LEMMA FirstIs ==
    ASSUME NEW s, Len(s) \in Nat, NEW hits \in SUBSET (1 .. Len(s)), hits # {}
    PROVE  FirstOf(s, hits) \in hits /\ \A j \in hits : FirstOf(s, hits) <= j
<1>1. \E d \in hits : \A y \in hits : d <= y
  <2>. DEFINE R == OpToRel(<, Nat)
  <2>1. \A x, y \in Nat : x < y => <<x, y>> \in R
    BY Zenon DEF OpToRel
  <2>2. IsWellFoundedOn(R, Nat)
    BY NatLessThanWellFounded, Zenon
  <2>. HIDE DEF R
  <2>3. hits \subseteq Nat
    OBVIOUS
  <2>4. PICK d \in hits : \A y \in hits : ~ (<<y, d>> \in R)
    BY <2>2, <2>3, WFMin, Zenon
  <2>5. \A y \in hits : ~ (y < d)
    BY <2>1, <2>3, <2>4, Zenon
  <2>6. \A y \in hits : d <= y
    BY <2>3, <2>5
  <2>. QED BY <2>6
<1>. QED BY <1>1 DEF FirstOf

\* Frames below the top are counted one position further up once it is gone.
LEMMA NumberUnder ==
    ASSUME NEW q \in Seq(Frames), q # <<>>, NEW i \in 1 .. Len(q), NEW kind
    PROVE  Number(Tail(q), 1, i - 1, kind) = Number(q, 2, i, kind)
<1>. DEFINE r == Tail(q)
            S == {j \in 2 .. i : q[j].kind = kind}
            T == {j \in 1 .. i - 1 : r[j].kind = kind}
            f == [j \in S |-> j - 1]
<1>1. i \in Int /\ i >= 1 /\ i <= Len(q) /\ Len(q) \in Nat
  OBVIOUS
<1>2. \A j \in 2 .. Len(q) : r[j - 1] = q[j]
  <2>1. \A j \in 2 .. Len(q) : r[0 + 1 + j - 2] = q[j]
    BY TailOnto DEF Onto
  <2>2. \A j \in 2 .. Len(q) : 0 + 1 + j - 2 = j - 1
    OBVIOUS
  <2>. QED BY <2>1, <2>2
<1>. HIDE DEF r
<1>3. \A j \in 2 .. i : j \in 2 .. Len(q) /\ j - 1 \in 1 .. i - 1
  BY ONLY <1>1
<1>4. f \in [S -> T]
  BY ONLY <1>2, <1>3
<1>5. \A j, m \in S : f[j] = f[m] => j = m
  BY ONLY <1>1
<1>6. ASSUME NEW y \in T
      PROVE  \E j \in S : f[j] = y
  <2>. DEFINE j == y + 1
  <2>1. j \in 2 .. i /\ j \in 2 .. Len(q) /\ j - 1 = y
    BY ONLY <1>1, y \in T
  <2>2. q[j].kind = kind
    BY ONLY <1>2, <2>1, y \in T
  <2>. HIDE DEF j
  <2>. QED BY ONLY <2>1, <2>2
<1>7. f \in Bijection(S, T)
  BY <1>4, <1>5, <1>6 DEF Bijection, Injection, Surjection, IsInjective
<1>8. ExistsBijection(S, T)
  BY <1>7 DEF ExistsBijection
<1>9. IsFiniteSet(S)
  <2>1. S \in SUBSET (2 .. i)
    OBVIOUS
  <2>2. IsFiniteSet(2 .. i)
    BY <1>1, FS_Interval
  <2>. HIDE DEF S
  <2>. QED BY ONLY <2>1, <2>2, FS_Subset
<1>. HIDE DEF S, T, f
<1>10. Cardinality(T) = Cardinality(S)
  BY <1>8, <1>9, FS_Bijection
<1>. QED BY <1>10 DEF Number, S, T, r

\* The contexts of the actions that an abort cancels are forgotten.
LEMMA AbortDepth ==
    ASSUME IInv, stack # <<>>, Top.kind # "restore", NEW i \in 1 .. Len(stack),
           depth' = 0 \/ depth' = Unwound(Tail(stack), i - 1)
    PROVE  /\ depth' \in Nat
           /\ depth' = 0 \/ depth' + Number(stack, 1, i, "restore") <= depth
<1>1. stack \in Seq(Frames) /\ Len(stack) \in Nat /\ Top = stack[1]
  BY TopIs
<1>. DEFINE d == Number(Tail(stack), 1, i - 1, "restore")
<1>2. d = Number(stack, 2, i, "restore")
  BY <1>1, NumberUnder
<1>3. Number(stack, 1, i, "restore") = d
  <2>1. 1 <= 1 + 1 /\ 1 <= i /\ 1 \in Int /\ i \in Int /\ 1 + 1 = 2
    OBVIOUS
  <2>2. Number(stack, 1, i, "restore")
          = Number(stack, 1, 1, "restore") + Number(stack, 1 + 1, i, "restore")
    BY ONLY <2>1, NumberSplit
  <2>3. Number(stack, 1, 1, "restore") = 0
    BY NumberTop
  <2>4. d \in Nat
    <3>1. 2 \in Int /\ i \in Int /\ {} \in SUBSET (2 .. i)
      OBVIOUS
    <3>2. Number(stack, 2, i, "restore") \in Nat
      BY ONLY <3>1, NumberType
    <3>. QED BY <1>2, <3>2
  <2>. HIDE DEF d
  <2>5. Number(stack, 1, i, "restore") = 0 + d
    BY ONLY <1>2, <2>1, <2>2, <2>3
  <2>. QED BY ONLY <2>4, <2>5
<1>4. d \in Nat
  <2>1. 1 \in Int /\ i - 1 \in Int /\ {} \in SUBSET (1 .. i - 1)
    OBVIOUS
  <2>. QED BY ONLY <2>1, NumberType
<1>5. Unwound(Tail(stack), i - 1) = IF d > depth THEN 0 ELSE depth - d
  BY DEF Unwound, Number
<1>6. depth \in Nat
  BY DEF IInv, TypeOK
<1>. HIDE DEF d
<1>7. depth' = 0 \/ depth' = IF d > depth THEN 0 ELSE depth - d
  BY <1>5
<1>8. depth' \in Nat /\ (depth' = 0 \/ depth' + d <= depth)
  BY ONLY <1>4, <1>6, <1>7
<1>. QED BY ONLY <1>3, <1>8

\* Where an abort of a text or of a choice cuts: at the first combat that is
\* pending, or at the step that restores its attacker; else at the first step
\* that no abort removes or that ends another hero's action.
CutAt(k, p) ==
    /\ Boundary(stack[p]) \/ stack[p].kind = "combat"
    /\ \A j \in 2 .. p - 1 : ~ Boundary(stack[j]) /\ stack[j].kind # "combat"
    /\ IF primary /\ ~ Boundary(stack[p])
       THEN \/ k = p /\ ~ (p > 2 /\ stack[p - 1] = Frame("leave", 0, "defense"))
            \/ k = p - 1 /\ p > 2 /\ stack[p - 1] = Frame("leave", 0, "defense")
       ELSE /\ Boundary(stack[k]) \/ OthersEnd(stack[k])
            /\ \A j \in 2 .. k - 1 : ~ Boundary(stack[j]) /\ ~ OthersEnd(stack[j])

LEMMA AbortAt ==
    ASSUME IInv, stack # <<>>, Top.kind \in {"text", "select"}, Abort
    PROVE  \E k, p \in 2 .. Len(stack) :
             /\ Onto(stack', <<>>, stack, k) /\ stack' \in Seq(Frames)
             /\ depth' \in Nat
             /\ depth' = 0 \/ depth' + Number(stack, 1, k - 1, "restore") <= depth
             /\ CutAt(k, p)
<1>1. /\ stack \in Seq(Frames) /\ Len(stack) \in Nat /\ Top = stack[1] /\ Top.kind # "restore"
      /\ Len(stack) >= 2
  BY TopIs DEF Base
<1>2. PICK b \in 2 .. Len(stack) : Boundary(stack[b])
  <2>1. Backed(stack, 1)
    BY TopIs
  <2>2. stack[1].kind \in Loose
    BY <1>1 DEF Loose, OfAttack
  <2>3. \E j \in 1 + 1 .. Len(stack) : Boundary(stack[j])
    BY ONLY <2>1, <2>2 DEF Backed
  <2>4. 1 + 1 = 2
    OBVIOUS
  <2>. QED BY <2>3, <2>4
<1>. DEFINE r == Tail(stack)
            n == Len(stack) - 1
            C == Combats(r)
            T == Stops(r)
            f == FirstOf(r, C)
            g == FirstOf(r, T)
            c == PendingCombat(r)
            i == IF c # 0 THEN c ELSE g
<1>3. r \in Seq(Frames) /\ Len(r) = n /\ n \in Nat /\ n >= 1
  BY <1>1
<1>4. \A j \in 1 .. n : r[j] = stack[j + 1]
  <2>1. \A j \in 2 .. Len(stack) : r[0 + 1 + j - 2] = stack[j]
    BY <1>1, TailOnto DEF Onto
  <2>2. \A j \in 1 .. n : j + 1 \in 2 .. Len(stack) /\ 0 + 1 + (j + 1) - 2 = j
    BY <1>1
  <2>. QED BY <2>1, <2>2
<1>5. DOMAIN r = 1 .. n
  BY <1>3
<1>6. /\ C \in SUBSET (1 .. n) /\ T \in SUBSET (1 .. n) /\ b - 1 \in C /\ b - 1 \in T
      /\ \A j \in 1 .. n : /\ j \in C <=> (Boundary(r[j]) \/ r[j].kind = "combat")
                           /\ j \in T <=> (Boundary(r[j]) \/ OthersEnd(r[j]))
  <2>1. b - 1 \in 1 .. n /\ (b - 1) + 1 = b
    BY <1>1
  <2>2. Boundary(r[b - 1])
    BY <1>2, <1>4, <2>1
  <2>. HIDE DEF r, n
  <2>. QED BY <1>5, <2>1, <2>2 DEF Combats, Stops
<1>7. f \in C /\ (\A j \in C : f <= j) /\ g \in T /\ (\A j \in T : g <= j)
  <2>1. Len(r) \in Nat /\ C \in SUBSET (1 .. Len(r)) /\ T \in SUBSET (1 .. Len(r))
        /\ C # {} /\ T # {}
    BY <1>3, <1>6
  <2>. HIDE DEF r, n, C, T
  <2>. QED BY ONLY <2>1, FirstIs DEF f, g
<1>8. c = IF ~ primary \/ Boundary(r[f]) THEN 0
          ELSE IF f > 1 /\ r[f - 1] = Frame("leave", 0, "defense") THEN f - 1 ELSE f
  <2>1. ~ (f > Len(r))
    <3>1. f \in 1 .. n
      BY <1>6, <1>7
    <3>. HIDE DEF f, r
    <3>. QED BY <1>3, <3>1
  <2>. HIDE DEF r
  <2>. QED BY <2>1 DEF PendingCombat
<1>9. /\ stack' = SubSeq(r, i, Len(r))
      /\ depth' = 0 \/ depth' = Unwound(r, i - 1)
  BY DEF Abort
<1>. HIDE DEF r, C, T, f, g, c
<1>10. f \in 1 .. n /\ g \in 1 .. n /\ i \in 1 .. n
       /\ (c = 0 \/ c = f \/ (c = f - 1 /\ f > 1))
  <2>1. f \in 1 .. n /\ g \in 1 .. n
    BY <1>6, <1>7
  <2>2. c = 0 \/ c = f \/ (c = f - 1 /\ f > 1)
    BY <1>8
  <2>. HIDE DEF n
  <2>3. i = g \/ i = f \/ (i = f - 1 /\ f > 1)
    BY <2>2
  <2>. HIDE DEF i
  <2>. QED BY ONLY <1>3, <2>1, <2>2, <2>3
<1>. HIDE DEF i
<1>11. n = Len(stack) - 1
  OBVIOUS
<1>. HIDE DEF n
<1>12. /\ i \in 1 .. Len(stack) /\ i + 1 \in 2 .. Len(stack) /\ f + 1 \in 2 .. Len(stack)
       /\ (i + 1) - 1 = i
  BY ONLY <1>1, <1>10, <1>11
<1>13. stack' \in Seq(Frames) /\ Onto(stack', <<>>, stack, i + 1)
  BY <1>1, <1>9, <1>12, CutOnto DEF r
<1>14. /\ depth' \in Nat
       /\ depth' = 0 \/ depth' + Number(stack, 1, i, "restore") <= depth
  BY <1>1, <1>9, <1>12, AbortDepth DEF r
<1>15. /\ r[f] = stack[f + 1] /\ r[i] = stack[i + 1]
       /\ f > 1 => r[f - 1] = stack[(f + 1) - 1] /\ f + 1 > 2
       /\ ~ (f > 1) => ~ (f + 1 > 2)
  <2>1. f > 1 => f - 1 \in 1 .. n /\ (f - 1) + 1 = (f + 1) - 1 /\ f + 1 > 2
    BY ONLY <1>3, <1>10
  <2>2. ~ (f > 1) => ~ (f + 1 > 2)
    BY ONLY <1>3, <1>10
  <2>. QED BY <1>4, <1>10, <2>1, <2>2
<1>16. Boundary(stack[f + 1]) \/ stack[f + 1].kind = "combat"
  BY <1>6, <1>7, <1>10, <1>15
<1>17. ASSUME NEW j \in 2 .. (f + 1) - 1
       PROVE  ~ Boundary(stack[j]) /\ stack[j].kind # "combat"
  <2>1. j - 1 \in 1 .. n /\ ~ (f <= j - 1) /\ (j - 1) + 1 = j
    BY ONLY <1>3, <1>10, j \in 2 .. (f + 1) - 1
  <2>2. j - 1 \notin C
    BY <1>7, <2>1
  <2>3. r[j - 1] = stack[j]
    BY <1>4, <2>1
  <2>. QED BY <1>6, <2>1, <2>2, <2>3
<1>18. IF primary /\ ~ Boundary(stack[f + 1])
       THEN \/ i = f /\ ~ (f > 1 /\ r[f - 1] = Frame("leave", 0, "defense"))
            \/ i = f - 1 /\ f > 1 /\ r[f - 1] = Frame("leave", 0, "defense")
       ELSE i = g
  <2>1. i = IF c # 0 THEN c ELSE g
    BY DEF i
  <2>2. f # 0 /\ (f > 1 => f - 1 # 0)
    BY ONLY <1>3, <1>10
  <2>. QED BY ONLY <1>8, <1>15, <2>1, <2>2
<1>19. CutAt(i + 1, f + 1)
  <2>1. CASE primary /\ ~ Boundary(stack[f + 1])
    <3>1. i = f => i + 1 = f + 1
      OBVIOUS
    <3>2. i = f - 1 => i + 1 = (f + 1) - 1
      BY ONLY <1>3, <1>10
    <3>. QED BY ONLY <1>15, <1>16, <1>17, <1>18, <2>1, <3>1, <3>2 DEF CutAt
  <2>2. CASE ~ (primary /\ ~ Boundary(stack[f + 1]))
    <3>1. i = g
      BY <1>18, <2>2
    <3>2. Boundary(stack[i + 1]) \/ OthersEnd(stack[i + 1])
      BY <1>6, <1>7, <1>10, <1>15, <3>1
    <3>3. ASSUME NEW j \in 2 .. (i + 1) - 1
          PROVE  ~ Boundary(stack[j]) /\ ~ OthersEnd(stack[j])
      <4>1. j - 1 \in 1 .. n /\ ~ (g <= j - 1) /\ (j - 1) + 1 = j
        BY ONLY <1>3, <1>10, <3>1, j \in 2 .. (i + 1) - 1
      <4>2. j - 1 \notin T
        BY <1>7, <4>1
      <4>3. r[j - 1] = stack[j]
        BY <1>4, <4>1
      <4>. QED BY <1>6, <4>1, <4>2, <4>3
    <3>. QED BY ONLY <1>16, <1>17, <2>2, <3>2, <3>3 DEF CutAt
  <2>. QED BY <2>1, <2>2
<1>. QED BY <1>12, <1>13, <1>14, <1>19

\* An abort keeps every step that no abort removes, every return of the actor,
\* and the combat of every attack that was answered with a primary defense.
Spared(k) ==
    \A m \in 1 .. Len(stack) :
        \/ Boundary(stack[m]) \/ stack[m].kind = "leave"
        \/ stack[m].kind = "combat" /\ windows[stack[m].n] = "primary"
        => m >= k

\* Nothing of the kind is below a choice, a hero's own text or a payload.
LEMMA NothingToSpare ==
    ASSUME IInv, stack # <<>>,
           \/ Top.kind = "select"
           \/ Top.kind = "text" /\ Top.how \in {"own", "payload"}
    PROVE  \A m \in 1 .. Len(stack) :
             /\ stack[m].kind # "leave"
             /\ ~ (stack[m].kind = "combat" /\ windows[stack[m].n] = "primary")
<1>1. /\ stack \in Seq(Frames) /\ Len(stack) \in Nat /\ Top = stack[1] /\ Len(stack) >= 1
      /\ \A m \in 2 .. Len(stack) : MayTop(Top, stack[m])
      /\ Local(Top)
  BY TopIs
<1>2. \A m \in 1 .. Len(stack) : Local(stack[m]) /\ (m = 1 \/ m \in 2 .. Len(stack))
  BY <1>1 DEF IInv, AllLocal
<1>3. CASE Top.kind = "select"
  <2>1. /\ \A m \in 2 .. Len(stack) : stack[m].kind # "leave"
        /\ windows[Top.n] = "none" /\ Top.n = Len(windows)
    BY <1>1, <1>3 DEF MayTop, Local, OfAttack
  <2>2. \A m \in 1 .. Len(stack) : stack[m].kind = "combat" => stack[m].n = Len(windows)
    BY <1>2 DEF Local, OfAttack
  <2>. QED BY <1>1, <1>2, <1>3, <2>1, <2>2
<1>4. CASE Top.kind = "text" /\ Top.how = "own"
  <2>1. \A m \in 1 .. Len(stack) : stack[m].kind \notin OfAttack \cup {"enter", "leave"}
    BY <1>4, UnderOwn DEF On
  <2>. QED BY <2>1 DEF OfAttack
<1>5. CASE Top.kind = "text" /\ Top.how = "payload"
  <2>1. \A m \in 2 .. Len(stack) : /\ stack[m].kind # "combat"
                                   /\ stack[m].kind = "leave" => stack[m].how = "payload"
    BY <1>5, UnderText DEF On
  <2>2. \A m \in 1 .. Len(stack) : stack[m].kind = "leave" => stack[m].how \in Keys
    BY <1>2 DEF Local
  <2>3. "payload" \notin Keys
    BY DEF Keys
  <2>. QED BY <1>1, <1>2, <1>5, <2>1, <2>2, <2>3
<1>. QED BY <1>3, <1>4, <1>5

LEMMA BoundaryKept ==
    ASSUME IInv, stack # <<>>, Top.kind \in {"text", "select"},
           NEW k \in 2 .. Len(stack), NEW p \in 2 .. Len(stack), CutAt(k, p)
    PROVE  /\ \A m \in 1 .. Len(stack) : Boundary(stack[m]) => m >= k
           /\ stack[k].kind \notin {"window", "enter"}
<1>1. Len(stack) \in Nat /\ Top = stack[1]
  BY TopIs
<1>2. ~ Boundary(stack[1])
  BY <1>1 DEF Boundary
<1>3. \A m \in 2 .. k - 1 : ~ Boundary(stack[m])
  <2>1. CASE primary /\ ~ Boundary(stack[p])
    <3>1. k = p \/ k = p - 1
      BY <2>1 DEF CutAt
    <3>2. \A m \in 2 .. k - 1 : m \in 2 .. p - 1
      BY <3>1
    <3>. QED BY <3>2 DEF CutAt
  <2>2. CASE ~ (primary /\ ~ Boundary(stack[p]))
    BY <2>2 DEF CutAt
  <2>. QED BY <2>1, <2>2
<1>4. \A m \in 1 .. Len(stack) : m >= k \/ m = 1 \/ m \in 2 .. k - 1
  BY <1>1
<1>5. stack[k].kind \notin {"window", "enter"}
  <2>1. CASE primary /\ ~ Boundary(stack[p])
    <3>1. stack[k].kind = "combat" \/ stack[k] = Frame("leave", 0, "defense")
      BY <2>1 DEF CutAt
    <3>. QED BY <3>1 DEF Frame
  <2>2. CASE ~ (primary /\ ~ Boundary(stack[p]))
    <3>1. Boundary(stack[k]) \/ OthersEnd(stack[k])
      BY <2>2 DEF CutAt
    <3>. QED BY <3>1 DEF Boundary, OthersEnd
  <2>. QED BY <2>1, <2>2
<1>. QED BY <1>2, <1>3, <1>4, <1>5

\* Under a text of the defender: right below, the step that ends their action,
\* or the pending combat.
LEMMA AbortSpares ==
    ASSUME IInv, stack # <<>>,
           Top.kind = "select" \/ (Top.kind = "text" /\ Top.how # "onblock"),
           NEW k \in 2 .. Len(stack), NEW p \in 2 .. Len(stack), CutAt(k, p)
    PROVE  Spared(k) /\ stack[k].kind \notin {"window", "enter"}
<1>1. /\ \A m \in 1 .. Len(stack) : Boundary(stack[m]) => m >= k
      /\ stack[k].kind \notin {"window", "enter"}
  BY BoundaryKept
<1>2. /\ stack \in Seq(Frames) /\ Len(stack) \in Nat /\ Top = stack[1] /\ Len(stack) >= 2
      /\ Local(Top)
  BY TopIs DEF Base
<1>3. CASE Top.kind = "select" \/ (Top.kind = "text" /\ Top.how \in {"own", "payload"})
  BY <1>1, <1>3, NothingToSpare DEF Spared
<1>4. CASE Top.kind = "text" /\ Top.how \in {"forced", "defense"}
  <2>1. \A j \in 2 .. Len(stack) :
          /\ stack[j].kind = "combat" => Top.how = "defense"
          /\ stack[j].kind = "leave" => Top.how = stack[j].how
    BY <1>4, UnderText DEF On
  <2>2. \A m \in 1 .. Len(stack) : stack[m].kind \in {"leave", "combat"} => m \in 2 .. Len(stack)
    BY <1>2, <1>4
  <2>3. /\ stack[Len(stack)].kind \in Base
        /\ \A j \in 1 .. Len(stack) - 1 : Follows(stack[j], stack[j + 1])
        /\ \A i, j \in 1 .. Len(stack) : i < j => MayTop(stack[i], stack[j])
    BY <1>2 DEF IInv, Stacked
  <2>4. CASE Top.how = "forced"
    <3>1. ASSUME NEW m \in 2 .. Len(stack), stack[m].kind = "leave"
          PROVE  m >= k
      <4>1. m - 1 \in 1 .. Len(stack) - 1 /\ (m - 1) + 1 = m
        BY <1>2
      <4>2. OthersEnd(stack[m - 1])
        BY <2>1, <2>3, <2>4, <3>1, <4>1 DEF Follows
      <4>3. m - 1 \in 2 .. Len(stack)
        <5>1. m - 1 # 1
          BY <1>2, <1>4, <4>2 DEF OthersEnd
        <5>. QED BY <4>1, <5>1
      <4>4. ~ (primary /\ ~ Boundary(stack[p]))
        BY <2>1, <2>4 DEF CutAt
      <4>5. m - 1 \notin 2 .. k - 1
        BY <4>2, <4>4 DEF CutAt
      <4>. QED BY <4>3, <4>5
    <3>2. \A m \in 1 .. Len(stack) : stack[m].kind # "combat"
      BY <2>1, <2>2, <2>4
    <3>. QED BY <1>1, <2>2, <3>1, <3>2 DEF Spared
  <2>5. CASE Top.how = "defense"
    <3>1. PICK l \in 2 .. Len(stack) : stack[l].kind = "leave"
      BY <1>4, <2>5, UnderText DEF On, Keys
    <3>2. stack[l].how = "defense" /\ stack[l] = Frame("leave", 0, "defense")
      <4>1. stack[l].how = "defense"
        BY <2>1, <2>5, <3>1
      <4>2. stack[l].n = 0 /\ stack[l] \in Frames
        BY <1>2, <3>1 DEF IInv, AllLocal, Local
      <4>. QED BY <3>1, <4>1, <4>2 DEF Frame, Frames
    <3>3. primary
      BY <1>2, <3>1, <3>2 DEF IInv, Aimed
    <3>4. l + 1 \in 2 .. Len(stack) /\ stack[l + 1].kind = "combat"
      <4>1. l # Len(stack)
        BY <2>3, <3>1 DEF Base
      <4>2. l \in 1 .. Len(stack) - 1 /\ l + 1 \in 2 .. Len(stack)
        BY <1>2, <4>1
      <4>. QED BY <2>3, <3>1, <3>2, <4>2 DEF Follows
    <3>5. ASSUME NEW m \in 2 .. l
          PROVE  ~ Boundary(stack[m]) /\ stack[m].kind # "combat"
      <4>1. CASE m = l
        BY <3>1, <4>1 DEF Boundary
      <4>2. CASE m < l
        <5>1. MayTop(stack[m], stack[l])
          <6>1. m \in 1 .. Len(stack) /\ l \in 1 .. Len(stack)
            BY <1>2
          <6>. QED BY ONLY <2>3, <4>2, <6>1
        <5>2. stack[m].kind \in {"enter", "text", "restore"}
          BY <3>1, <5>1 DEF MayTop
        <5>. QED BY <5>2 DEF Boundary
      <4>. QED BY <4>1, <4>2
    <3>6. p = l + 1
      <4>1. Boundary(stack[p]) \/ stack[p].kind = "combat"
        BY DEF CutAt
      <4>2. p \notin 2 .. l
        BY <3>5, <4>1
      <4>3. l + 1 \notin 2 .. p - 1
        BY <3>4 DEF CutAt
      <4>. QED BY ONLY <3>4, <4>2, <4>3, p \in 2 .. Len(stack), l \in 2 .. Len(stack), <1>2
    <3>7. k = l
      <4>1. ~ Boundary(stack[p])
        BY <3>4, <3>6 DEF Boundary
      <4>2. p - 1 = l /\ p > 2
        BY <3>6
      <4>. QED BY <3>2, <3>3, <4>1, <4>2 DEF CutAt
    <3>8. ASSUME NEW m \in 2 .. Len(stack), stack[m].kind \in {"leave", "combat"}
          PROVE  m >= k
      <4>1. CASE stack[m].kind = "combat"
        <5>1. m \notin 2 .. l
          BY <3>5, <4>1
        <5>. QED BY <3>7, <5>1
      <4>2. CASE stack[m].kind = "leave"
        <5>. SUFFICES ASSUME m < l PROVE FALSE
          BY <3>7
        <5>1. MayTop(stack[m], stack[l])
          BY <1>2, <2>3
        <5>. QED BY <3>1, <4>2, <5>1 DEF MayTop
      <4>. QED BY <3>8, <4>1, <4>2
    <3>. QED BY <1>1, <2>2, <3>8 DEF Spared
  <2>. QED BY <1>1, <1>4, <2>4, <2>5
<1>5. Top.kind = "text" => Top.how \in {"forced", "defense", "onblock", "own", "payload"}
  BY <1>2 DEF Local, Keys
<1>. QED BY <1>3, <1>4, <1>5

\* An abort keeps the invariant.
LEMMA AbortKeeps ==
    ASSUME IInv, stack # <<>>,
           Top.kind = "select" \/ (Top.kind = "text" /\ Top.how # "onblock"), Abort,
           UNCHANGED <<owner, actor, saved, victim, defender, primary, todo, nested, windows, fought,
                       wishes, over>>
    PROVE  IInv'
<1>1. PICK k \in 2 .. Len(stack), p \in 2 .. Len(stack) :
             /\ Onto(stack', <<>>, stack, k) /\ stack' \in Seq(Frames)
             /\ depth' \in Nat
             /\ depth' = 0 \/ depth' + Number(stack, 1, k - 1, "restore") <= depth
             /\ CutAt(k, p)
  BY AbortAt
<1>2. Spared(k) /\ stack[k].kind \notin {"window", "enter"}
  BY <1>1, AbortSpares
<1>3. /\ stack \in Seq(Frames) /\ Len(stack) \in Nat /\ Top = stack[1]
      /\ <<>> \in Seq(Frames) /\ Len(<<>>) = 0 /\ k <= Len(stack) /\ k \in Nat
  BY TopIs
<1>4. Stacked(stack')
  <2>1. Fitting(<<>>, stack, k)
    BY <1>3 DEF Fitting
  <2>2. Stacked(stack)
    BY DEF IInv
  <2>. QED BY <1>1, <1>3, <2>1, <2>2, OrderKept
<1>5. stack'[1] = stack[k]
  <2>1. k \in k .. Len(stack) /\ 0 + 1 + k - k = 1
    BY <1>3
  <2>. QED BY <1>1, <1>3, <2>1 DEF Onto
<1>6. AllLocal'
  <2>1. \A a \in 1 .. Len(<<>>) : Local(<<>>[a])
    BY <1>3
  <2>. QED BY <1>1, <1>3, <2>1, LocalKept
<1>7. Aimed'
  <2>1. /\ stack'[1].kind = "window" => victim = stack'[1].n
        /\ \A a \in 1 .. Len(<<>>) :
             /\ <<>>[a].kind = "combat" => windows[<<>>[a].n] = "none"
             /\ <<>>[a].kind = "leave" /\ <<>>[a].how = "defense" => primary
    BY <1>2, <1>3, <1>5
  <2>. QED BY <1>1, <1>3, <2>1, AimedKept
<1>8. ActorFits'
  <2>1. stack[1].kind # "enter" /\ stack'[1].kind # "enter"
    BY <1>2, <1>3, <1>5
  <2>2. /\ \A a \in 1 .. Len(<<>>) : <<>>[a].kind # "leave"
        /\ \A m \in 1 .. Len(stack) : stack[m].kind = "leave" => m >= k
    BY <1>2, <1>3 DEF Spared
  <2>. QED BY <1>1, <1>3, <2>1, <2>2, ActorKept
<1>9. TurnFits'
  BY DEF IInv, TurnFits
<1>10. PrimaryFought'
  <2>1. \A m \in 1 .. Len(stack), n \in DOMAIN windows :
          windows[n] = "primary" /\ stack[m] = Frame("combat", n, "plain") => m >= k
    BY <1>2 DEF Spared, Frame
  <2>. QED BY <1>1, <1>3, <2>1, FoughtKept
<1>11. Counted' /\ wishes' \in Nat /\ Finished'
  <2>1. wishes \in Nat /\ depth \in Nat
    BY DEF IInv, TypeOK
  <2>2. \A kind : Number(<<>>, 1, Len(<<>>), kind) = 0
    BY <1>3, NumberTop
  <2>3. Number(stack, 1, k - 1, "wish") = 0
    <3>1. \A m \in 1 .. k - 1 : stack[m].kind # "wish"
      <4>1. \A m \in 1 .. k - 1 : m \in 1 .. Len(stack) /\ ~ (m >= k)
        BY <1>3
      <4>. QED BY <1>2, <4>1 DEF Spared, Boundary
    <3>2. 1 \in Int /\ k - 1 \in Int
      BY <1>3
    <3>. QED BY ONLY <3>1, <3>2, NumberZero
  <2>4. wishes' = (wishes - Number(stack, 1, k - 1, "wish")) + Number(<<>>, 1, Len(<<>>), "wish")
    <3>1. wishes' = wishes
      OBVIOUS
    <3>2. wishes = (wishes - 0) + 0
      BY ONLY <2>1
    <3>. QED BY ONLY <2>2, <2>3, <3>1, <3>2
  <2>5. \/ depth' = 0
        \/ depth' \in Nat /\ depth' + Number(stack, 1, k - 1, "restore")
                               <= depth + Number(<<>>, 1, Len(<<>>), "restore")
    <3>1. depth + 0 = depth
      BY ONLY <2>1
    <3>. QED BY ONLY <1>1, <2>2, <3>1
  <2>. QED BY <1>1, <1>3, <2>4, <2>5, CountedKept
<1>12. TypeOK'
  BY <1>1, <1>11 DEF IInv, TypeOK
<1>. QED BY <1>4, <1>6, <1>7, <1>8, <1>9, <1>10, <1>11, <1>12 DEF IInv, Stacked

\* A text is aborted.
LEMMA TextAbortsStep == IInv /\ TextAborts => IInv'
BY AbortKeeps DEF TextAborts, On

\* A target is chosen, declined or not to be found.
LEMMA SelectStep == IInv /\ Select => IInv'
<1>. SUFFICES ASSUME IInv, Select PROVE IInv'
  OBVIOUS
<1>1. stack # <<>> /\ Top.kind = "select"
  BY DEF Select, On
<1>2. CASE Abort /\ UNCHANGED victim
  BY <1>1, <1>2, AbortKeeps DEF Select
<1>3. CASE /\ stack' = Tail(stack) /\ UNCHANGED depth
           /\ victim' = Top.n \/ (Top.how = "optional" /\ victim' = 0)
  BY <1>1, <1>3, SelectPopStep DEF Select
<1>. QED BY <1>2, <1>3 DEF Select

-----------------------------------------------------------------------------
(* The theorems. *)

\* The match looks for its first hero: nothing is pending.
LEMMA InitKeeps == Init => IInv
<1>. SUFFICES ASSUME Init PROVE IInv
  OBVIOUS
<1>. DEFINE f == Step("next")
<1>1. f \in Frames /\ f.kind = "next" /\ stack = <<f>>
  BY StepType DEF Kinds, Base, Init
<1>. HIDE DEF f
<1>2. stack \in Seq(Frames) /\ Len(stack) = 1 /\ stack[1] = f /\ stack # <<>>
  BY ONLY <1>1
<1>3. \A i \in 1 .. Len(stack) : i = 1 /\ stack[i].kind = "next"
  BY ONLY <1>1, <1>2
<1>4. owner = Nobody /\ windows = <<>> /\ Len(windows) = 0 /\ fought = {} /\ depth = 0 /\ wishes = 0
  BY DEF Init
<1>5. TypeOK
  <2>1. Nobody \notin Heroes
    BY StackAssumption
  <2>2. windows \in Seq(Answers)
    BY <1>4
  <2>3. saved \in [Keys -> Heroes \cup {Nobody}]
    BY DEF Init
  <2>. QED BY <2>2, <2>3 DEF Init, TypeOK
<1>6. Stacked(stack)
  <2>1. \A i, j \in 1 .. Len(stack) : ~ (i < j)
    BY <1>2
  <2>2. \A i \in 1 .. Len(stack) - 1 : FALSE
    BY <1>2
  <2>3. \A i \in 1 .. Len(stack) : Backed(stack, i)
    BY <1>3 DEF Backed, Loose, OfAttack, NeedsLeave
  <2>. QED BY <1>1, <1>2, <2>1, <2>2, <2>3 DEF Stacked, Base
<1>7. AllLocal
  <2>. SUFFICES ASSUME NEW i \in 1 .. Len(stack) PROVE Local(stack[i])
    BY DEF AllLocal
  <2>1. stack[i].kind = "next"
    BY <1>3
  <2>. QED BY <1>4, <2>1 DEF Local, OfAttack
<1>8. Aimed /\ ActorFits /\ TurnFits /\ Finished
  <2>1. Aimed
    BY <1>3 DEF Aimed
  <2>2. ActorFits /\ TurnFits /\ Finished
    BY <1>2, <1>4 DEF ActorFits, TurnFits, Finished
  <2>. QED BY <2>1, <2>2
<1>9. PrimaryFought
  BY <1>4 DEF PrimaryFought
<1>10. Counted
  <2>1. 1 \in Int /\ \A i \in 1 .. 1 : stack[i].kind # "wish" /\ stack[i].kind # "restore"
    BY <1>2, <1>3
  <2>2. Number(stack, 1, 1, "wish") = 0 /\ Number(stack, 1, 1, "restore") = 0
    BY ONLY <2>1, NumberZero
  <2>. QED BY <1>2, <1>4, <2>2 DEF Counted
<1>. QED BY <1>5, <1>6, <1>7, <1>8, <1>9, <1>10 DEF IInv

\* Every step of the engine keeps the invariant.
LEMMA StepKeeps == IInv /\ [Next]_vars => IInv'
<1>. SUFFICES ASSUME IInv, [Next]_vars PROVE IInv'
  OBVIOUS
<1>1. CASE Texts
  BY <1>1, TextEndsStep, TextAbortsStep, AttackStep, PerformStep, ForceMoveStep, CastWishStep
     DEF Texts
<1>2. CASE Exchanges
  BY <1>2, ExpandStep, SelectStep, WindowStep, DefenseTextStep, CombatStep, OnBlockStep, EnterStep,
     LeaveStep DEF Exchanges
<1>3. CASE Ends
  BY <1>3, RestoreStep, WishCheckedStep, ConfirmStep, FinalizeStep, NextActorStep, PayloadStepStep,
     AdvanceStep DEF Ends
<1>4. CASE UNCHANGED vars
  <2>1. /\ UNCHANGED <<stack, owner, actor, saved, depth, victim, defender, primary, todo>>
        /\ UNCHANGED <<nested, windows, fought, wishes, over>>
    BY <1>4 DEF vars, contextVars
  <2>2. TypeOK' /\ AllLocal' /\ Aimed' /\ ActorFits'
    BY <2>1 DEF IInv, TypeOK, AllLocal, Local, Aimed, ActorFits
  <2>3. TurnFits' /\ PrimaryFought' /\ Counted' /\ Finished'
    BY <2>1 DEF IInv, TurnFits, PrimaryFought, Counted, Finished
  <2>4. Stacked(stack')
    BY <2>1 DEF IInv
  <2>. QED BY <2>2, <2>3, <2>4 DEF IInv, Stacked
<1>. QED BY <1>1, <1>2, <1>3, <1>4 DEF Next

\* The invariant holds throughout: the frames of the stack are in the order in
\* which the steps push them, and fit the context and the turn.
THEOREM Invariance == Spec => []IInv
<1>1. Init => IInv
  BY InitKeeps
<1>2. IInv /\ [Next]_vars => IInv'
  BY StepKeeps
<1>. QED BY <1>1, <1>2, PTL DEF Spec

\* The stack is a sequence of steps, and the context holds heroes, attacks and
\* counters (GameState, execution_context).
THEOREM TypeCorrect == Spec => [](TypeOK /\ stack \in Seq(Frames))
<1>1. IInv => TypeOK /\ stack \in Seq(Frames)
  BY DEF IInv, Stacked
<1>. QED BY <1>1, Invariance, PTL

\* The engine runs dry only when every hero acted, every Wish was checked and the
\* turn advanced (process_stack, _clear_after_abort).
THEOREM EngineRunsToTheEnd == Spec => []RunsToTheEnd
<1>1. ASSUME IInv PROVE RunsToTheEnd
  <2>. SUFFICES ASSUME stack = <<>> PROVE todo = {} /\ over /\ wishes = 0
    BY DEF RunsToTheEnd
  <2>1. todo = {} /\ over
    BY <1>1 DEF IInv, Finished
  <2>2. Len(stack) = 0
    OBVIOUS
  <2>3. Number(stack, 1, 0, "wish") = 0
    <3>1. 1 \in Int /\ 0 \in Int /\ \A i \in 1 .. 0 : stack[i].kind # "wish"
      OBVIOUS
    <3>. QED BY ONLY <3>1, NumberZero
  <2>4. wishes = 0
    BY <1>1, <2>2, <2>3 DEF IInv, Counted
  <2>. QED BY <2>1, <2>4
<1>. QED BY <1>1, Invariance, PTL

\* Every saved action context has the step that restores it on the stack
\* (PerformPrimaryActionStep, _discard_aborted_step).
THEOREM NoContextOutlivesItsAction == Spec => []ContextsUnwound
<1>1. ASSUME IInv PROVE ContextsUnwound
  <2>1. stack \in Seq(Frames)
    BY <1>1 DEF IInv, Stacked
  <2>2. DOMAIN stack = 1 .. Len(stack)
    BY <2>1
  <2>. QED BY <1>1, <2>2 DEF IInv, Counted, Number, ContextsUnwound
<1>. QED BY <1>1, Invariance, PTL

\* An attack answered with a primary defense is fought, by the hero whose turn it
\* is, whatever aborts in the defender's text (_clear_to_pending_combat).
THEOREM AnsweredAttackIsFought == Spec => []DefendedAttackIsFought
<1>1. ASSUME IInv PROVE DefendedAttackIsFought
  <2>1. stack \in Seq(Frames)
    BY <1>1 DEF IInv, Stacked
  <2>2. DOMAIN stack = 1 .. Len(stack)
    BY <2>1
  <2>. QED BY <1>1, <2>2 DEF IInv, PrimaryFought, TurnFits, DefendedAttackIsFought
<1>. QED BY <1>1, Invariance, PTL

=============================================================================
