---------------------------- MODULE RollbackProofs ----------------------------
(***************************************************************************)
(* The two ways back.  For any heroes and any number of prompts, reveals,  *)
(* payloads and turns: a rollback undoes nothing but the owner's own       *)
(* choices and what the table voted, and a prompt offers one exactly when  *)
(* asking for it would succeed.  Whatever is decided, rewound or stopped,  *)
(* the replay log leads to the game at every position, through rewinds of  *)
(* rewinds, and a viewer sees what was.                                    *)
(***************************************************************************)
EXTENDS Rollback, ReplayLog, SequenceTheorems, NaturalsInduction, WellFoundedInduction, TLAPS

Prompt == [to : Heroes \cup {Nobody, Team}, for : Heroes \cup {Nobody}, can : BOOLEAN]
Snap   == [table : Table, prompt : Prompt]
Undone == {"reveal", "foreign", "ended", "override"}

TypeOK ==
    /\ table \in Table /\ running \in BOOLEAN /\ prompt \in Prompt
    /\ snap \in Snap \cup {NoSnap} /\ snapOwner \in Heroes \cup {Nobody}
    /\ since \subseteq Undone

\* Where the engine asks for a choice.
Asking == {"tie", "text", "confirm", "payload"}

\* Only planning may come after the last turn.
TurnFits == table.at # "planning" => table.turn <= MaxTurns

\* A snapshot is of a prompt of its owner, in the middle of a resolution, that
\* no boundary has been crossed before.
SnapFits ==
    snap # NoSnap =>
      /\ snap.table.at \in Asking \ {"tie"} /\ snap.table.turn <= MaxTurns
      /\ snap.table.actor # Nobody /\ ~ snap.table.pending /\ ~ snap.table.frozen
      /\ snapOwner = Owner(snap.table) /\ Native(snap.table, snap.prompt)

\* While the engine waits, a snapshot is there to be restored, by the player the
\* prompt is for, and only then is it offered.
WaitFits ==
    Waits => /\ table.at \in Asking
             /\ prompt.can <=> snap # NoSnap
             /\ snap # NoSnap => /\ table.actor # Nobody /\ ~ table.frozen /\ Restorable
                                 /\ Native(table, prompt)

\* A tie is a team's to break; there is nothing to go back to, nor while nobody acts.
TieFits ==
    table.at = "tie" => snap = NoSnap /\ (Waits => prompt.to = Team /\ prompt.for = Nobody)

StopFits ==
    ~ running /\ table.at # "planning" /\ table.actor = Nobody => snap = NoSnap

\* What happened since the snapshot was the owner's or voted, or bars the way back.
SinceFits ==
    snap # NoSnap =>
      /\ "ended" \in since \/ since \subseteq {"override"} \/ table.pending
      /\ table.at \in {"planning", "next", "between"} => "ended" \in since

IInv == TypeOK /\ TurnFits /\ SnapFits /\ WaitFits /\ TieFits /\ StopFits /\ SinceFits

-----------------------------------------------------------------------------
(* Tables and requests. *)

\* A table with other values in its fields, field by field.
LEMMA TableFields ==
    ASSUME NEW t
    PROVE  /\ t \in Table => /\ t.at # "none" /\ t.turn \in Nat /\ t.events \in Nat /\ t.payloads \in Nat
                             /\ t.pending \in BOOLEAN /\ t.frozen \in BOOLEAN
                             /\ t.owner \in Heroes \cup {Nobody} /\ t.actor \in Heroes \cup {Nobody}
                             /\ Owner(t) \in Heroes \cup {Nobody} /\ t.todo \subseteq Heroes
BY RollbackAssumption DEF Table, Owner

\* A request is addressed to someone, and nothing is offered with it yet.
LEMMA RequestTyped ==
    ASSUME NEW to \in Heroes \cup {Nobody, Team}, NEW for \in Heroes \cup {Nobody}
    PROVE  /\ Request(to, for) \in Prompt /\ ~ Request(to, for).can
           /\ NoPrompt \in Prompt /\ ~ NoPrompt.can
BY DEF Request, Prompt, NoPrompt

LEMMA Initially == Init => IInv
<1>. SUFFICES ASSUME Init PROVE IInv
  OBVIOUS
<1>1. table \in Table
  BY RollbackAssumption DEF Init, Table
<1>2. TypeOK
  BY <1>1, RequestTyped DEF Init, TypeOK
<1>. QED BY <1>2 DEF Init, IInv, TurnFits, SnapFits, WaitFits, Waits, TieFits, StopFits, SinceFits

-----------------------------------------------------------------------------
(* The engine stops, or goes on. *)

\* The team that breaks a tie is not the resolution owner.
LEMMA TeamIsForeign ==
    ASSUME NEW t \in Table, t.actor # Nobody, NEW p \in Prompt, p.to = Team, p.for = Nobody
    PROVE  ~ Native(t, p)
<1>1. Owner(t) \in Heroes
  BY TableFields DEF Owner
<1>. QED BY <1>1, RollbackAssumption DEF Native

\* Asking: the snapshot is taken, kept or dropped as its boundaries demand.
LEMMA AskKeeps ==
    ASSUME IInv, NEW t \in Table, NEW p \in Prompt, ~ p.can,
           NEW what \in SUBSET {"override"}, Ask(t, p, what),
           t.at \in Asking, t.turn <= MaxTurns, t.pending = table.pending,
           t.at = "tie" => p.to = Team /\ p.for = Nobody
    PROVE  IInv'
<1>. USE DEF IInv, Asking
<1>1. running' = FALSE
  BY DEF Ask
<1>. DEFINE offered == [p EXCEPT !.can = TRUE]
<1>2. /\ offered \in Prompt /\ offered.can /\ offered.to = p.to /\ offered.for = p.for
      /\ \A q : Native(q, offered) <=> Native(q, p)
  BY DEF Prompt, Native
<1>. HIDE DEF offered
<1>3. CASE /\ snap' = NoSnap /\ snapOwner' = Nobody /\ prompt' = p /\ since' = since
           /\ table' = t \/ table' = [t EXCEPT !.pending = TRUE]
  <2>1. table' \in Table /\ table'.turn = t.turn /\ table'.at = t.at
    BY <1>3 DEF Table
  <2>2. TypeOK'
    BY <1>1, <1>3, <2>1 DEF TypeOK
  <2>. QED BY <1>3, <2>1, <2>2 DEF TurnFits, SnapFits, WaitFits, TieFits, StopFits, SinceFits
<1>4. t.actor # Nobody /\ Native(t, p) => t.at # "tie"
  BY TeamIsForeign
<1>5. CASE /\ t.actor # Nobody /\ ~ t.frozen /\ Native(t, p) /\ Kept(t)
           /\ prompt' = offered /\ table' = t /\ since' = since \cup what
           /\ UNCHANGED <<snap, snapOwner>>
  <2>1. TypeOK'
    BY <1>1, <1>2, <1>5 DEF TypeOK, Undone
  <2>2. TurnFits' /\ SnapFits'
    BY <1>5 DEF TurnFits, SnapFits
  <2>3. WaitFits' /\ TieFits' /\ StopFits'
    BY <1>2, <1>4, <1>5 DEF WaitFits, TieFits, StopFits, Kept, Restorable
  <2>4. SinceFits'
    BY <1>5 DEF SinceFits, Kept
  <2>. QED BY <2>1, <2>2, <2>3, <2>4
<1>6. CASE /\ t.actor # Nobody /\ ~ t.frozen /\ Native(t, p)
           /\ table' = [t EXCEPT !.pending = FALSE]
           /\ snap' = [table |-> table', prompt |-> p] /\ snapOwner' = Owner(t)
           /\ since' = {} /\ prompt' = offered
  <2>1. /\ table' \in Table /\ table'.turn = t.turn /\ table'.at = t.at /\ ~ table'.pending
        /\ table'.actor = t.actor /\ table'.owner = t.owner /\ table'.frozen = t.frozen
    BY <1>6 DEF Table
  <2>2. Owner(table') = Owner(t) /\ Native(table', p) /\ Native(table', prompt')
    BY <1>2, <1>6, <2>1 DEF Owner, Native
  <2>3. snap' \in Snap /\ snap'.table = table' /\ snap'.prompt = p /\ snap' # NoSnap
    BY <1>6, <2>1, TableFields DEF Snap, NoSnap
  <2>4. TypeOK'
    BY <1>1, <1>2, <1>6, <2>1, <2>3, TableFields DEF TypeOK
  <2>5. TurnFits' /\ SnapFits'
    BY <1>4, <1>6, <2>1, <2>2, <2>3 DEF TurnFits, SnapFits
  <2>6. WaitFits' /\ SinceFits'
    BY <1>2, <1>6, <2>1, <2>2, <2>3 DEF WaitFits, SinceFits, Restorable
  <2>7. TieFits' /\ StopFits'
    BY <1>4, <1>6, <2>1 DEF TieFits, StopFits
  <2>. QED BY <2>4, <2>5, <2>6, <2>7
<1>. QED BY <1>3, <1>5, <1>6 DEF Ask, Forget, offered

\* Going on: nothing is asked, and what cannot be undone is remembered.
LEMMA RunKeeps ==
    ASSUME IInv, NEW t \in Table, NEW what \in SUBSET Undone, Run(t, what),
           t.at # "planning", t.turn <= MaxTurns,
           snap # NoSnap /\ "ended" \notin since \cup what
             => /\ since \cup what \subseteq {"override"} \/ t.pending
                /\ t.at \notin {"next", "between"},
           t.at = "tie" => snap = NoSnap
    PROVE  IInv'
<1>. USE DEF IInv
<1>1. /\ running' = TRUE /\ table' = t /\ prompt' = NoPrompt /\ UNCHANGED <<snap, snapOwner>>
      /\ since' = IF snap = NoSnap THEN {} ELSE since \cup what
  BY DEF Run
<1>2. TypeOK'
  BY <1>1, RequestTyped DEF TypeOK
<1>3. TurnFits' /\ SnapFits' /\ WaitFits' /\ TieFits' /\ StopFits'
  BY <1>1 DEF TurnFits, SnapFits, WaitFits, Waits, TieFits, StopFits
<1>4. SinceFits'
  BY <1>1 DEF SinceFits
<1>. QED BY <1>2, <1>3, <1>4

\* Running dry, at the end of a turn.
LEMMA IdleKeeps ==
    ASSUME IInv, Idle(Planning(table)), table.at \in {"next", "between"}
    PROVE  IInv'
<1>. USE DEF IInv
<1>. DEFINE t == Planning(table)
<1>1. /\ t \in Table /\ t.at = "planning" /\ t.actor = table.actor
  <2>1. table.turn \in 1 .. MaxTurns
    BY RollbackAssumption DEF TypeOK, TurnFits, Table
  <2>2. table.turn + 1 \in 1 .. MaxTurns + 1
    BY <2>1, RollbackAssumption
  <2>. QED BY <2>2 DEF Planning, TypeOK, Table
<1>2. /\ running' = FALSE /\ table' = t /\ prompt' = NoPrompt /\ since' = since
      /\ \/ snap' = NoSnap /\ snapOwner' = Nobody
         \/ UNCHANGED <<snap, snapOwner>>
  BY DEF Idle, Forget
<1>. HIDE DEF t
<1>3. TypeOK'
  BY <1>1, <1>2, RequestTyped DEF TypeOK
<1>4. TurnFits' /\ SnapFits' /\ WaitFits' /\ TieFits' /\ StopFits'
  BY <1>1, <1>2 DEF TurnFits, SnapFits, WaitFits, Waits, TieFits, StopFits
<1>5. SinceFits'
  BY <1>2 DEF SinceFits
<1>. QED BY <1>3, <1>4, <1>5

-----------------------------------------------------------------------------
(* The steps of the engine. *)

LEMMA AskOwnerKeeps ==
    ASSUME IInv, NEW t \in Table, AskOwner(t),
           t.at \in Asking \ {"tie"}, t.turn <= MaxTurns,
           t.pending = table.pending
    PROVE  IInv'
<1>1. \A to \in Heroes \cup {Nobody}, for \in Heroes \cup {Nobody} :
        Request(to, for) \in Prompt /\ ~ Request(to, for).can
  BY RequestTyped
<1>2. t.owner \in Heroes \cup {Nobody}
  BY TableFields
<1>. QED BY <1>1, <1>2, AskKeeps DEF AskOwner

\* The table a step leaves has the type of the one it found.
LEMMA TableTyped ==
    ASSUME TypeOK, TurnFits
    PROVE  /\ table.at # "planning" => table.turn <= MaxTurns
           /\ \A at \in {"planning", "next", "tie", "act", "text", "confirm", "confirmed",
                         "between", "payload"} : [table EXCEPT !.at = at] \in Table
           /\ table.events < MaxEvents => OneMore(table) \in Table
           /\ \A h \in table.todo : Starting(h) \in Table
           /\ Answered(table) \in Table
<1>1. table.events < MaxEvents => table.events + 1 \in 0 .. MaxEvents
  BY RollbackAssumption DEF TypeOK, Table
<1>2. 0 \in 0 .. MaxEvents
  BY RollbackAssumption
<1>3. table.events < MaxEvents => OneMore(table) \in Table
  BY <1>1 DEF TypeOK, OneMore, Table
<1>4. ASSUME NEW h \in table.todo PROVE Starting(h) \in Table
  BY <1>2 DEF TypeOK, Starting, Table
<1>. QED BY <1>3, <1>4 DEF TypeOK, TurnFits, Answered, Table

LEMMA ActKeeps == IInv /\ Act => IInv'
<1>. SUFFICES ASSUME IInv, Act PROVE IInv'
  OBVIOUS
<1>. DEFINE t == [table EXCEPT !.at = "text"]
<1>1. /\ t \in Table /\ t.at \in Asking \ {"tie"} /\ t.turn <= MaxTurns
      /\ t.pending = table.pending /\ AskOwner(t)
  BY TableTyped DEF IInv, Asking, Act, At, TypeOK, Table
<1>. HIDE DEF t
<1>. QED BY <1>1, AskOwnerKeeps

LEMMA ChoiceKeeps == IInv /\ Choice => IInv'
<1>. SUFFICES ASSUME IInv, Choice PROVE IInv'
  OBVIOUS
<1>. DEFINE t == OneMore(table)
<1>1. /\ t \in Table /\ t.at \in Asking \ {"tie"} /\ t.turn <= MaxTurns
      /\ t.pending = table.pending
  BY TableTyped DEF IInv, Asking, Choice, Another, InText, TypeOK, Table, OneMore
<1>2. PICK to \in Heroes \cup {Team}, for \in {Nobody, table.owner} : Ask(t, Request(to, for), {})
  BY DEF Choice
<1>3. for \in Heroes \cup {Nobody}
  BY <1>2, TableFields DEF IInv, TypeOK
<1>4. Request(to, for) \in Prompt /\ ~ Request(to, for).can
  BY <1>3, RequestTyped
<1>. HIDE DEF t
<1>. QED BY <1>1, <1>2, <1>4, AskKeeps

LEMMA RevealKeeps == IInv /\ Reveal => IInv'
<1>. SUFFICES ASSUME IInv, Reveal PROVE IInv'
  OBVIOUS
<1>. DEFINE t == [OneMore(table) EXCEPT !.pending = TRUE]
<1>1. t \in Table /\ t.at \in {"text", "payload"} /\ t.turn <= MaxTurns /\ t.pending
  <2>1. OneMore(table) \in Table /\ OneMore(table).at = table.at /\ OneMore(table).turn = table.turn
    BY TableTyped DEF IInv, Reveal, Another, InText, TypeOK, Table, OneMore
  <2>2. table.at \in {"text", "payload"} /\ table.turn <= MaxTurns
    BY TableTyped DEF IInv, Reveal, Another, InText
  <2>. QED BY <2>1, <2>2 DEF Table
<1>2. Run(t, {"reveal"}) /\ {"reveal"} \in SUBSET Undone
  BY DEF Reveal, Undone
<1>. HIDE DEF t
<1>. QED BY <1>1, <1>2, RunKeeps

\* A step that only moves the engine on.
LEMMA MoveKeeps ==
    ASSUME IInv, NEW at \in {"confirm", "confirmed"}, table.at \notin {"planning", "next", "between"},
           Run([table EXCEPT !.at = at], {})
    PROVE  IInv'
<1>. DEFINE t == [table EXCEPT !.at = at]
<1>1. t \in Table /\ t.at = at /\ t.turn <= MaxTurns /\ t.pending = table.pending
  BY TableTyped DEF IInv, TypeOK, Table
<1>2. Run(t, {}) /\ {} \in SUBSET Undone /\ since \cup {} = since
  OBVIOUS
<1>3. snap # NoSnap /\ "ended" \notin since => since \subseteq {"override"} \/ t.pending
  BY <1>1 DEF IInv, SinceFits
<1>. HIDE DEF t
<1>. QED BY <1>1, <1>2, <1>3, RunKeeps

LEMMA ConfirmKeeps == IInv /\ (TextEnds \/ Confirm) => IInv'
<1>. SUFFICES ASSUME IInv, TextEnds \/ Confirm PROVE IInv'
  OBVIOUS
<1>1. table \in Table /\ (table.at # "planning" => table.turn <= MaxTurns)
  BY TableTyped DEF IInv, TypeOK
<1>. QED BY <1>1, MoveKeeps, AskOwnerKeeps DEF TextEnds, Confirm, At, Asking

LEMMA FinalizeKeeps == IInv /\ Finalize => IInv'
<1>. SUFFICES ASSUME IInv, Finalize PROVE IInv'
  OBVIOUS
<1>. DEFINE t == [table EXCEPT !.at = "next", !.owner = Nobody, !.actor = Nobody,
                               !.pending = FALSE, !.frozen = FALSE]
<1>1. t \in Table /\ t.at = "next" /\ t.turn <= MaxTurns
  <2>1. table \in Table /\ table.turn <= MaxTurns
    BY DEF IInv, Finalize, At, TypeOK, TurnFits
  <2>2. t \in Table
    BY <2>1 DEF Table
  <2>. QED BY <2>1, <2>2 DEF Table
<1>2. Run(t, {"ended"}) /\ {"ended"} \in SUBSET Undone
  BY DEF Finalize, Undone
<1>. HIDE DEF t
<1>. QED BY <1>1, <1>2, RunKeeps

\* A hero's turn begins; a snapshot that outlived its action stays behind.
LEMMA StartKeeps ==
    ASSUME IInv, NEW h \in table.todo, Run(Starting(h), {}), table.at \in {"next", "tie"}
    PROVE  IInv'
<1>1. /\ Starting(h) \in Table /\ Starting(h).at = "act" /\ Starting(h).turn <= MaxTurns
      /\ Starting(h).pending = table.pending
  <2>1. table \in Table /\ table.turn <= MaxTurns /\ Starting(h) \in Table
    BY TableTyped DEF IInv, TypeOK, TurnFits
  <2>. QED BY <2>1 DEF Starting, Table
<1>2. snap # NoSnap /\ "ended" \notin since => since \subseteq {"override"} \/ table.pending
  BY DEF IInv, SinceFits
<1>. QED BY <1>1, <1>2, RunKeeps

LEMMA NextActorKeeps == IInv /\ (NextActor \/ Winner) => IInv'
<1>. SUFFICES ASSUME IInv, NextActor \/ Winner PROVE IInv'
  OBVIOUS
<1>1. ASSUME Ask([table EXCEPT !.at = "tie"], Request(Team, Nobody), {}), table.at = "next"
      PROVE  IInv'
  <2>. DEFINE t == [table EXCEPT !.at = "tie"]
  <2>1. t \in Table /\ t.at \in Asking /\ t.turn <= MaxTurns /\ t.pending = table.pending
    BY <1>1, TableTyped DEF IInv, Asking, TypeOK, Table
  <2>2. /\ Request(Team, Nobody) \in Prompt /\ ~ Request(Team, Nobody).can
        /\ Request(Team, Nobody).to = Team /\ Request(Team, Nobody).for = Nobody
    BY RequestTyped DEF Request
  <2>3. Ask(t, Request(Team, Nobody), {})
    BY <1>1
  <2>. HIDE DEF t
  <2>. QED BY <2>1, <2>2, <2>3, AskKeeps
<1>. QED BY <1>1, StartKeeps DEF NextActor, Winner, At

LEMMA EndTurnKeeps == IInv /\ EndTurn => IInv'
<1>. SUFFICES ASSUME IInv, EndTurn PROVE IInv'
  OBVIOUS
<1>1. ASSUME NEW n \in 1 .. MaxPayloads, Run([table EXCEPT !.at = "between", !.payloads = n], {}),
             table.at = "next"
      PROVE  IInv'
  <2>. DEFINE t == [table EXCEPT !.at = "between", !.payloads = n]
  <2>1. t \in Table /\ t.at = "between" /\ t.turn <= MaxTurns
    <3>1. n \in 0 .. MaxPayloads
      BY RollbackAssumption
    <3>2. table \in Table /\ table.turn <= MaxTurns
      BY <1>1 DEF IInv, TypeOK, TurnFits
    <3>3. t \in Table
      BY <3>1, <3>2 DEF Table
    <3>. QED BY <3>2, <3>3 DEF Table
  <2>2. snap # NoSnap => "ended" \in since
    BY <1>1 DEF IInv, SinceFits
  <2>3. Run(t, {}) /\ {} \in SUBSET Undone
    BY <1>1
  <2>. HIDE DEF t
  <2>. QED BY <2>1, <2>2, <2>3, RunKeeps
<1>. QED BY <1>1, IdleKeeps DEF EndTurn, At

LEMMA PayloadKeeps == IInv /\ (Payload \/ PayloadEnds \/ AdvanceTurn) => IInv'
<1>. SUFFICES ASSUME IInv, Payload \/ PayloadEnds \/ AdvanceTurn PROVE IInv'
  OBVIOUS
<1>1. ASSUME NEW h \in Heroes, table.at = "between", table.payloads > 0,
             Run([table EXCEPT !.at = "payload", !.actor = h, !.events = 0, !.payloads = @ - 1], {})
      PROVE  IInv'
  <2>. DEFINE t == [table EXCEPT !.at = "payload", !.actor = h, !.events = 0, !.payloads = @ - 1]
  <2>1. t \in Table /\ t.at = "payload" /\ t.turn <= MaxTurns
    <3>1. table.payloads - 1 \in 0 .. MaxPayloads /\ 0 \in 0 .. MaxEvents
      BY <1>1, RollbackAssumption DEF IInv, TypeOK, Table
    <3>2. table \in Table /\ table.turn <= MaxTurns
      BY <1>1 DEF IInv, TypeOK, TurnFits
    <3>3. t \in Table
      BY <3>1, <3>2 DEF Table
    <3>. QED BY <3>2, <3>3 DEF Table
  <2>2. snap # NoSnap => "ended" \in since
    BY <1>1 DEF IInv, SinceFits
  <2>3. Run(t, {}) /\ {} \in SUBSET Undone
    BY <1>1
  <2>. HIDE DEF t
  <2>. QED BY <2>1, <2>2, <2>3, RunKeeps
<1>2. ASSUME table.at = "payload", Run([table EXCEPT !.at = "between"], {"ended"}) PROVE IInv'
  <2>. DEFINE t == [table EXCEPT !.at = "between"]
  <2>1. t \in Table /\ t.at = "between" /\ t.turn <= MaxTurns
    BY <1>2, TableTyped DEF IInv, TypeOK, Table
  <2>2. Run(t, {"ended"}) /\ {"ended"} \in SUBSET Undone
    BY <1>2 DEF Undone
  <2>. HIDE DEF t
  <2>. QED BY <2>1, <2>2, RunKeeps
<1>. QED BY <1>1, <1>2, IdleKeeps DEF Payload, PayloadEnds, AdvanceTurn, At

-----------------------------------------------------------------------------
(* The steps of players, clocks and bots. *)

\* An answer to a prompt with a snapshot behind it is the owner's own.
LEMMA AnswerKeeps ==
    ASSUME IInv, NEW h \in Heroes, Answer(h)
    PROVE  IInv'
<1>. DEFINE what == IF Native(table, prompt) THEN {} ELSE {"foreign"}
            t    == Answered(table)
<1>1. Run(t, what) /\ what \in SUBSET Undone
  BY DEF Answer, Undone
<1>2. table.at \in Asking /\ (snap # NoSnap => what = {} /\ since \cup what = since)
  BY DEF IInv, Answer, WaitFits
<1>3. table \in Table /\ t \in Table /\ table.turn <= MaxTurns
  BY <1>2, TableTyped DEF IInv, TypeOK, TurnFits, Asking
<1>4. /\ t.turn = table.turn /\ t.pending = table.pending
      /\ t.at \notin {"planning", "next", "between"}
  BY <1>2, <1>3 DEF Answered, Table, Asking
<1>5. /\ snap # NoSnap /\ "ended" \notin since => since \subseteq {"override"} \/ table.pending
      /\ t.at = "tie" => snap = NoSnap
  BY <1>3 DEF IInv, SinceFits, TieFits, Answered, Table
<1>. HIDE DEF t, what
<1>. QED BY <1>1, <1>2, <1>3, <1>4, <1>5, RunKeeps

LEMMA AutomaticKeeps == IInv /\ Automatic => IInv'
<1>. SUFFICES ASSUME IInv, Automatic PROVE IInv'
  OBVIOUS
<1>1. table \in Table /\ Answered(table) \in Table /\ table.at \in Asking /\ table.turn <= MaxTurns
  BY TableTyped DEF IInv, TypeOK, TurnFits, Automatic, WaitFits, Asking
<1>2. Answered(table).turn = table.turn
  BY <1>1 DEF Answered, Table
<1>3. /\ table' \in Table /\ table'.turn = table.turn
      /\ running' = TRUE /\ prompt' = NoPrompt /\ since' = {}
      /\ snap' = NoSnap /\ snapOwner' = Nobody
  BY <1>1, <1>2 DEF Automatic, Forget, Table
<1>. QED BY <1>1, <1>3, RequestTyped DEF IInv, TypeOK, TurnFits, SnapFits, WaitFits, Waits,
                                        TieFits, StopFits, SinceFits

\* The card of another hero is committed when the action of the snapshot, if
\* any, has ended.
LEMMA CommitKeeps ==
    ASSUME IInv, NEW h \in Heroes, Commit(h)
    PROVE  IInv'
<1>. DEFINE t    == [table EXCEPT !.todo = @ \cup {h}]
            what == IF snapOwner \in {h, Nobody} THEN {} ELSE {"foreign"}
            n    == [t EXCEPT !.at = "next"]
<1>1. /\ table \in Table /\ table.turn <= MaxTurns /\ table.at = "planning"
      /\ ~ running /\ ~ Waits
      /\ snap # NoSnap => "ended" \in since
  BY DEF IInv, Commit, TypeOK, WaitFits, SinceFits, Asking
<1>2. t \in Table /\ t.at = "planning" /\ t.turn = table.turn /\ t.pending = table.pending
  BY <1>1 DEF Table
<1>3. n \in Table /\ n.at = "next" /\ n.turn = table.turn
  BY <1>2 DEF Table
<1>4. what \in SUBSET Undone
  BY DEF Undone
<1>5. \/ Run(n, what)
      \/ /\ table' = t /\ since' = since \cup what
         /\ UNCHANGED <<running, prompt, snap, snapOwner>>
  BY DEF Commit
<1>. HIDE DEF t, what, n
<1>6. CASE Run(n, what)
  BY <1>1, <1>3, <1>4, <1>6, RunKeeps
<1>7. CASE /\ table' = t /\ since' = since \cup what
           /\ UNCHANGED <<running, prompt, snap, snapOwner>>
  <2>1. TypeOK'
    BY <1>2, <1>4, <1>7 DEF IInv, TypeOK
  <2>. QED BY <1>1, <1>2, <1>7, <2>1 DEF IInv, TurnFits, SnapFits, WaitFits, Waits,
                                         TieFits, StopFits, SinceFits
<1>. QED BY <1>5, <1>6, <1>7

\* The table of the snapshot is back, or the snapshot is scrubbed.
LEMMA RollbackKeeps ==
    ASSUME IInv, NEW h \in Heroes, Rollback(h)
    PROVE  IInv'
<1>1. snap # NoSnap /\ ~ running /\ snap \in Snap
  BY DEF IInv, TypeOK, Rollback, Allowed
<1>2. CASE Restorable
  <2>. DEFINE p == [snap.prompt EXCEPT !.can = TRUE]
  <2>1. /\ table' = snap.table /\ prompt' = p /\ since' = {}
        /\ UNCHANGED <<running, snap, snapOwner>>
    BY <1>2 DEF Rollback
  <2>2. snap.table \in Table /\ snap.prompt \in Prompt
    BY <1>1 DEF Snap
  <2>3. p \in Prompt /\ p.can /\ p.to = snap.prompt.to /\ p.for = snap.prompt.for
    BY <2>2 DEF Prompt
  <2>. HIDE DEF p
  <2>4. Native(snap.table, p)
    BY <1>1, <2>3 DEF IInv, SnapFits, Native
  <2>5. TypeOK'
    BY <2>1, <2>2, <2>3 DEF IInv, TypeOK
  <2>6. TurnFits' /\ SnapFits' /\ SinceFits'
    BY <1>1, <2>1 DEF IInv, TurnFits, SnapFits, SinceFits, Asking
  <2>7. WaitFits' /\ TieFits' /\ StopFits'
    BY <1>1, <2>1, <2>3, <2>4 DEF IInv, SnapFits, WaitFits, Restorable, TieFits, StopFits, Asking
  <2>. QED BY <2>5, <2>6, <2>7 DEF IInv
<1>3. CASE ~ Restorable
  <2>1. /\ snap' = NoSnap /\ snapOwner' = Nobody /\ since' = {}
        /\ UNCHANGED <<table, running, prompt>>
    BY <1>3 DEF Rollback, Forget
  <2>2. ~ Waits
    BY <1>1, <1>3 DEF IInv, WaitFits
  <2>3. TypeOK'
    BY <2>1 DEF IInv, TypeOK
  <2>. QED BY <2>1, <2>2, <2>3 DEF IInv, TurnFits, SnapFits, WaitFits, Waits,
                                   TieFits, StopFits, SinceFits
<1>. QED BY <1>2, <1>3

\* A restart asks the same request again, with the same offer.
LEMMA RestartKeeps == IInv /\ Restart => IInv'
<1>. SUFFICES ASSUME IInv, Restart PROVE IInv'
  OBVIOUS
<1>1. /\ Waits /\ UNCHANGED <<table, running, since>> /\ prompt \in Prompt
      /\ prompt' = [prompt EXCEPT !.can = ~ table.frozen /\ Restorable /\ Native(table, prompt)]
  BY DEF IInv, TypeOK, Restart
<1>2. UNCHANGED <<snap, snapOwner>> \/ (table.pending /\ snap' = NoSnap /\ snapOwner' = Nobody)
  BY DEF Restart, Forget
<1>3. table.pending => snap = NoSnap
  BY <1>1 DEF IInv, WaitFits, Restorable
<1>4. snapOwner \in Heroes \cup {Nobody}
  BY DEF IInv, TypeOK
<1>5. /\ prompt' \in Prompt /\ prompt'.to = prompt.to /\ prompt'.for = prompt.for
      /\ prompt'.can <=> ~ table.frozen /\ Restorable /\ Native(table, prompt)
  BY <1>1 DEF Prompt
<1>6. prompt'.can <=> snap # NoSnap
  BY <1>1, <1>5 DEF IInv, WaitFits, Restorable
<1>7. Native(table, prompt') <=> Native(table, prompt)
  BY <1>5 DEF Native
<1>8. TypeOK'
  BY <1>1, <1>2, <1>4, <1>5 DEF IInv, TypeOK
<1>9. SnapFits' /\ SinceFits' /\ TurnFits'
  BY <1>1, <1>2 DEF IInv, TurnFits, SnapFits, SinceFits
<1>10. WaitFits'
  BY <1>1, <1>2, <1>3, <1>6, <1>7 DEF IInv, WaitFits, Restorable
<1>11. TieFits' /\ StopFits'
  BY <1>1, <1>2, <1>5 DEF IInv, TieFits, StopFits
<1>. QED BY <1>8, <1>9, <1>10, <1>11 DEF IInv

-----------------------------------------------------------------------------
(* What the table approved. *)

\* A patch asks again, of the same player or of the hero who was controlled, and
\* possibly for another actor.
LEMMA PatchKeeps == IInv /\ Patch => IInv'
<1>. SUFFICES ASSUME IInv, Patch PROVE IInv'
  OBVIOUS
<1>. DEFINE again == [prompt EXCEPT !.can = FALSE]
            asked == Request(IF prompt.for # Nobody THEN prompt.for ELSE prompt.to, Nobody)
            acts(h) == [table EXCEPT !.owner = h, !.actor = h]
<1>1. /\ table \in Table /\ table.at \in Asking /\ table.turn <= MaxTurns /\ prompt \in Prompt
      /\ {"override"} \in SUBSET {"override"}
  BY DEF IInv, TypeOK, TurnFits, WaitFits, Patch, Asking
<1>2. again \in Prompt /\ ~ again.can
  BY <1>1 DEF Prompt
<1>3. asked \in Prompt /\ ~ asked.can
  BY <1>1, RequestTyped DEF Prompt
<1>4. table.at = "tie" => again.to = Team /\ again.for = Nobody /\ asked.to = Team /\ asked.for = Nobody
  BY <1>1 DEF IInv, TieFits, Patch, Request, Prompt
<1>5. ASSUME NEW h \in Heroes
      PROVE  /\ acts(h) \in Table /\ acts(h).at = table.at /\ acts(h).turn = table.turn
             /\ acts(h).pending = table.pending
  BY <1>1 DEF Table
<1>6. \/ Ask(table, again, {"override"})
      \/ Ask(table, asked, {"override"})
      \/ \E h \in Heroes : Ask(acts(h), asked, {"override"})
  BY Zenon DEF Patch
<1>. HIDE DEF again, asked, acts
<1>. QED BY <1>1, <1>2, <1>3, <1>4, <1>5, <1>6, AskKeeps

\* The request is gone: the engine goes on, or a tie is left to itself.
LEMMA UnstickKeeps == IInv /\ Unstick => IInv'
<1>. SUFFICES ASSUME IInv, Unstick PROVE IInv'
  OBVIOUS
<1>. DEFINE t == Answered(table)
<1>1. /\ table \in Table /\ t \in Table /\ table.at \in Asking /\ table.turn <= MaxTurns
  BY TableTyped DEF IInv, TypeOK, TurnFits, WaitFits, Unstick, Asking
<1>2. /\ t.turn = table.turn /\ t.pending = table.pending
      /\ t.at \notin {"planning", "next", "between"} /\ (t.at = "tie" => table.at = "tie")
  BY <1>1 DEF Answered, Table, Asking
<1>3. /\ snap # NoSnap /\ "ended" \notin since => since \subseteq {"override"} \/ table.pending
      /\ table.at = "tie" => snap = NoSnap
  BY DEF IInv, SinceFits, TieFits
<1>4. CASE Run(t, {"override"})
  <2>1. {"override"} \in SUBSET Undone
    BY DEF Undone
  <2>. HIDE DEF t
  <2>. QED BY <1>1, <1>2, <1>3, <1>4, <2>1, RunKeeps
<1>5. CASE table.at = "tie" /\ Idle(table)
  <2>1. /\ snap = NoSnap /\ running' = FALSE /\ table' = table /\ prompt' = NoPrompt
        /\ since' = since /\ snap' = NoSnap /\ snapOwner' \in {snapOwner, Nobody}
    BY <1>3, <1>5 DEF Idle, Forget
  <2>2. TypeOK'
    BY <2>1, RequestTyped DEF IInv, TypeOK
  <2>. QED BY <2>1, <2>2 DEF IInv, TurnFits, SnapFits, WaitFits, Waits, TieFits, StopFits, SinceFits
<1>. QED BY <1>4, <1>5 DEF Unstick

\* The turn of the actor is ended, or the next actor is looked for.
LEMMA ForceEndKeeps == IInv /\ ForceEnd => IInv'
<1>. SUFFICES ASSUME IInv, ForceEnd PROVE IInv'
  OBVIOUS
<1>. DEFINE t == [table EXCEPT !.payloads = 0]
            c == [t EXCEPT !.at = "confirmed"]
            n == [t EXCEPT !.at = "next", !.pending = FALSE, !.frozen = FALSE]
<1>1. table \in Table /\ table.turn <= MaxTurns /\ {"override"} \in SUBSET Undone
  BY DEF IInv, TypeOK, TurnFits, ForceEnd, Undone
<1>2. t \in Table /\ t.turn = table.turn /\ t.pending = table.pending
  BY <1>1, RollbackAssumption DEF Table
<1>3. c \in Table /\ c.turn = table.turn /\ c.pending = table.pending /\ c.at = "confirmed"
  BY <1>2 DEF Table
<1>4. n \in Table /\ n.turn = table.turn /\ n.at = "next"
  BY <1>2 DEF Table
<1>5. \/ Run(c, {"override"})
      \/ Run(n, {"override"}) /\ snap = NoSnap
  BY DEF IInv, StopFits, ForceEnd
<1>6. snap # NoSnap /\ "ended" \notin since => since \subseteq {"override"} \/ table.pending
  BY DEF IInv, SinceFits
<1>. HIDE DEF t, c, n
<1>. QED BY <1>1, <1>3, <1>4, <1>5, <1>6, RunKeeps

-----------------------------------------------------------------------------
(* Theorems. *)

\* The strengthened invariant: a snapshot is of the middle of a resolution, its
\* owner is the one who is asked, and what happened since bars the way back, was
\* the owner's own, or was voted by the table.
THEOREM Invariance == Spec => []IInv
<1>1. IInv /\ [Next]_vars => IInv'
  <2>. SUFFICES ASSUME IInv, [Next]_vars PROVE IInv'
    OBVIOUS
  <2>1. CASE Engine
    BY <2>1, ActKeeps, ChoiceKeeps, RevealKeeps, ConfirmKeeps, FinalizeKeeps, NextActorKeeps,
       EndTurnKeeps, PayloadKeeps DEF Engine
  <2>2. CASE Players
    BY <2>2, AnswerKeeps, CommitKeeps, RollbackKeeps DEF Players
  <2>3. CASE UNCHANGED vars
    BY <2>3 DEF vars, IInv, TypeOK, TurnFits, SnapFits, WaitFits, Waits, TieFits, StopFits,
                SinceFits, Restorable
  <2>4. CASE Overrides
    BY <2>4, PatchKeeps, UnstickKeeps, ForceEndKeeps DEF Overrides
  <2>. QED BY <2>1, <2>2, <2>3, <2>4, AutomaticKeeps, RestartKeeps DEF Next
<1>. QED BY Initially, <1>1, PTL DEF Spec

\* Table, prompt and snapshot keep their types; in particular the saved table is
\* a table and the saved prompt a prompt.
THEOREM TypeCorrect == Spec => []TypeOK
BY Invariance, PTL DEF IInv

\* A rollback that would be granted while the action of its snapshot is open
\* undoes nothing but the owner's own choices and what the table voted meanwhile.
THEOREM OwnChoicesCorrect == Spec => []OwnChoicesOnly
<1>1. IInv => OwnChoicesOnly
  BY DEF IInv, OwnChoicesOnly, Restorable, SinceFits
<1>. QED BY Invariance, <1>1, PTL

\* A prompt, one that a restart asks again too, offers a rollback exactly when
\* asking for it would succeed.
THEOREM OfferCorrect == Spec => []OfferIsHonoured
<1>1. IInv => OfferIsHonoured
  BY DEF IInv, OfferIsHonoured, WaitFits, Restorable
<1>. QED BY Invariance, <1>1, PTL

-----------------------------------------------------------------------------
(* Recursion over the positions of a log. *)

\* A set of natural numbers has a least one.
LEMMA Least ==
    ASSUME NEW N \in SUBSET Nat, N # {}
    PROVE  \E n \in N : \A m \in N : n <= m
<1>. DEFINE R == OpToRel(<, Nat)
<1>1. \A x, y \in Nat : x < y => <<x, y>> \in R
  BY Zenon DEF OpToRel
<1>2. IsWellFoundedOn(R, Nat)
  BY NatLessThanWellFounded, Zenon
<1>. HIDE DEF R
<1>3. N \subseteq Nat
  OBVIOUS
<1>4. PICK n \in N : \A m \in N : ~ (<<m, n>> \in R)
  BY <1>2, <1>3, WFMin, Zenon
<1>5. \A m \in N : ~ (m < n)
  BY <1>1, <1>3, <1>4, Zenon
<1>6. \A m \in N : n <= m
  BY <1>3, <1>5
<1>. QED BY <1>6

\* What each number inherits from all those before it, all numbers have.
LEMMA UpTo ==
    ASSUME NEW n \in Nat, NEW G, \A i \in 0 .. n : (\A k \in 0 .. i - 1 : k \in G) => i \in G
    PROVE  0 .. n \subseteq G
<1>. DEFINE N == {i \in 0 .. n : i \notin G}
<1>1. N \in SUBSET Nat
  OBVIOUS
<1>2. ASSUME N # {} PROVE FALSE
  <2>1. PICK i \in N : \A m \in N : i <= m
    <3>. HIDE DEF N
    <3>. QED BY <1>1, <1>2, Least
  <2>2. i \in 0 .. n /\ i \notin G /\ \A k \in 0 .. i - 1 : k \in 0 .. n /\ k \notin N
    BY <2>1
  <2>. QED BY <2>2
<1>. QED BY <1>2

\* A function each value of which is made of the values before it.
Grows(f, V, base, step, n) ==
    /\ f \in [0 .. n -> V] /\ f[0] = base
    /\ \A i \in 1 .. n : f[i] = step[i][[k \in 0 .. i - 1 |-> f[k]]]

LEMMA Recursion ==
    ASSUME NEW V, NEW base \in V, NEW n \in Nat, NEW step,
           \A i \in 1 .. n : step[i] \in [[0 .. i - 1 -> V] -> V]
    PROVE  \E f : Grows(f, V, base, step, n)
<1>. DEFINE G == {k \in 0 .. n : \E f : Grows(f, V, base, step, k)}
<1>1. 0 \in G
  <2>. DEFINE f == [i \in 0 .. 0 |-> base]
  <2>1. f \in [0 .. 0 -> V] /\ f[0] = base /\ 1 .. 0 = {} /\ 0 \in 0 .. n
    OBVIOUS
  <2>. HIDE DEF f
  <2>. QED BY <2>1 DEF Grows
<1>2. ASSUME NEW k \in 1 .. n, k - 1 \in G PROVE k \in G
  <2>1. PICK f : Grows(f, V, base, step, k - 1)
    BY <1>2
  <2>2. /\ f \in [0 .. k - 1 -> V] /\ f[0] = base
        /\ \A i \in 1 .. k - 1 : f[i] = step[i][[j \in 0 .. i - 1 |-> f[j]]]
    BY <2>1 DEF Grows
  <2>3. PICK v : v = step[k][[j \in 0 .. k - 1 |-> f[j]]]
    OBVIOUS
  <2>4. v \in V
    <3>1. [j \in 0 .. k - 1 |-> f[j]] \in [0 .. k - 1 -> V]
      BY <2>2
    <3>2. step[k] \in [[0 .. k - 1 -> V] -> V]
      OBVIOUS
    <3>. QED BY <2>3, <3>1, <3>2, Zenon
  <2>. DEFINE g == [i \in 0 .. k |-> IF i = k THEN v ELSE f[i]]
  <2>5. g[k] = v /\ \A i \in 0 .. k - 1 : g[i] = f[i]
    OBVIOUS
  <2>6. g \in [0 .. k -> V] /\ g[0] = base
    BY <2>2, <2>4
  <2>7. ASSUME NEW i \in 1 .. k PROVE [j \in 0 .. i - 1 |-> g[j]] = [j \in 0 .. i - 1 |-> f[j]]
    <3>1. \A j \in 0 .. i - 1 : g[j] = f[j]
      BY <2>5
    <3>. HIDE DEF g
    <3>. QED BY <3>1, Zenon
  <2>. HIDE DEF g
  <2>8. ASSUME NEW i \in 1 .. k PROVE g[i] = step[i][[j \in 0 .. i - 1 |-> g[j]]]
    <3>1. CASE i = k
      BY <2>3, <2>5, <2>7, <3>1, Zenon
    <3>2. CASE i # k
      <4>1. i \in 1 .. k - 1 /\ g[i] = f[i]
        BY <2>5, <3>2
      <4>2. f[i] = step[i][[j \in 0 .. i - 1 |-> f[j]]]
        BY <2>2, <4>1
      <4>. QED BY <2>7, <4>1, <4>2, Zenon
    <3>. QED BY <3>1, <3>2
  <2>9. Grows(g, V, base, step, k)
    BY <2>6, <2>8, Zenon DEF Grows
  <2>. QED BY <2>9
<1>3. ASSUME NEW i \in 0 .. n, \A k \in 0 .. i - 1 : k \in G PROVE i \in G
  <2>1. i = 0 \/ (i \in 1 .. n /\ i - 1 \in 0 .. i - 1)
    OBVIOUS
  <2>. HIDE DEF G
  <2>. QED BY <1>1, <1>2, <1>3, <2>1
<1>4. 0 .. n \subseteq G
  <2>. HIDE DEF G
  <2>. QED BY <1>3, UpTo
<1>. QED BY <1>4

-----------------------------------------------------------------------------
(* The decisions of a log. *)

Rec == [type : {"setup", "clock", "decision", "ov_rewind"}, in : Nat, to : Nat, out : Nat]

\* How the decisions of a log are collected, one record after the other.
Collected(log) ==
    LET upto[n \in 0 .. Len(log)] ==
          IF n = 0 THEN <<>>
          ELSE IF IsReplayDecision(log[n]) THEN Append(upto[n - 1], log[n]) ELSE upto[n - 1]
    IN  upto

LEMMA Collecting ==
    ASSUME NEW log \in Seq(Rec)
    PROVE  LET u == Collected(log)
           IN  /\ u \in [0 .. Len(log) -> Seq(Rec)] /\ u[0] = <<>> /\ Decisions(log) = u[Len(log)]
               /\ \A n \in 1 .. Len(log) :
                    u[n] = IF IsReplayDecision(log[n]) THEN Append(u[n - 1], log[n]) ELSE u[n - 1]
<1>1. PICK N \in Nat : N = Len(log)
  OBVIOUS
<1>. DEFINE V == Seq(Rec)
            Value(n, v) == IF IsReplayDecision(log[n]) THEN Append(v, log[n]) ELSE v
            step == [i \in 1 .. N |-> [g \in [0 .. i - 1 -> V] |-> Value(i, g[i - 1])]]
            Runs(h) == h = [n \in 0 .. N |-> IF n = 0 THEN <<>> ELSE Value(n, h[n - 1])]
<1>2. \A i \in 1 .. N : i - 1 \in 0 .. i - 1 /\ i - 1 \in 0 .. N /\ i # 0 /\ i \in 0 .. N
  OBVIOUS
<1>3. \A i \in 1 .. N, v \in V : Value(i, v) \in V
  <2>1. \A i \in 1 .. N : log[i] \in Rec
    BY <1>1
  <2>. QED BY <2>1, AppendProperties
<1>4. \A i \in 1 .. N : step[i] \in [[0 .. i - 1 -> V] -> V]
  <2>. SUFFICES ASSUME NEW i \in 1 .. N PROVE step[i] \in [[0 .. i - 1 -> V] -> V]
    OBVIOUS
  <2>1. \A g \in [0 .. i - 1 -> V] : g[i - 1] \in V
    BY <1>2
  <2>2. \A g \in [0 .. i - 1 -> V] : Value(i, g[i - 1]) \in V
    <3>. HIDE DEF Value, V
    <3>. QED BY <1>3, <2>1
  <2>3. step[i] = [g \in [0 .. i - 1 -> V] |-> Value(i, g[i - 1])]
    OBVIOUS
  <2>. HIDE DEF Value, V, step
  <2>. QED BY <2>2, <2>3
<1>5. <<>> \in V
  OBVIOUS
<1>6. PICK f : Grows(f, V, <<>>, step, N)
  <2>. HIDE DEF V, step
  <2>. QED BY <1>1, <1>4, <1>5, Recursion
<1>7. /\ f \in [0 .. N -> V] /\ f[0] = <<>>
      /\ \A i \in 1 .. N : f[i] = Value(i, f[i - 1])
  <2>1. /\ f \in [0 .. N -> V] /\ f[0] = <<>>
        /\ \A i \in 1 .. N : f[i] = step[i][[k \in 0 .. i - 1 |-> f[k]]]
    BY <1>6, Zenon DEF Grows
  <2>2. ASSUME NEW i \in 1 .. N PROVE f[i] = Value(i, f[i - 1])
    <3>. DEFINE g == [k \in 0 .. i - 1 |-> f[k]]
    <3>1. g \in [0 .. i - 1 -> V] /\ g[i - 1] = f[i - 1]
      BY <1>2, <2>1
    <3>2. f[i] = step[i][g]
      BY <2>1
    <3>3. step[i] = [h \in [0 .. i - 1 -> V] |-> Value(i, h[i - 1])]
      OBVIOUS
    <3>. HIDE DEF g, Value, V, step
    <3>. QED BY <3>1, <3>2, <3>3
  <2>. QED BY <2>1, <2>2
<1>8. Runs(f)
  <2>1. \A n \in 0 .. N : n = 0 \/ n \in 1 .. N
    OBVIOUS
  <2>. HIDE DEF Value, V
  <2>. QED BY <1>2, <1>7, <2>1
<1>9. Collected(log) = CHOOSE h : Runs(h)
  BY <1>1, Zenon DEF Collected
<1>10. PICK u : u = Collected(log)
  OBVIOUS
<1>11. Runs(u)
  <2>. HIDE DEF Runs
  <2>. QED BY <1>8, <1>9, <1>10, Zenon
<1>12. /\ u[0] = <<>> /\ \A n \in 1 .. N : u[n] = Value(n, u[n - 1])
       /\ u = [n \in 0 .. N |-> u[n]]
  <2>. HIDE DEF Value
  <2>. QED BY <1>2, <1>11
<1>13. \A n \in 0 .. N : u[n] \in V
  <2>. DEFINE G == {n \in 0 .. N : u[n] \in V}
  <2>1. ASSUME NEW n \in 0 .. N, \A k \in 0 .. n - 1 : k \in G PROVE n \in G
    <3>1. n = 0 \/ (n \in 1 .. N /\ n - 1 \in G)
      BY <1>2, <2>1
    <3>2. n \in 1 .. N /\ n - 1 \in G => u[n] \in V
      <4>. HIDE DEF Value, V
      <4>. QED BY <1>3, <1>12
    <3>. QED BY <1>5, <1>12, <3>1, <3>2
  <2>2. 0 .. N \subseteq G
    <3>. HIDE DEF G
    <3>. QED BY <2>1, UpTo
  <2>. QED BY <2>2
<1>14. u \in [0 .. N -> V]
  <2>. HIDE DEF V
  <2>. QED BY <1>12, <1>13
<1>15. Decisions(log) = u[N]
  BY <1>1, <1>10, Zenon DEF Decisions, Collected
<1>. QED BY <1>1, <1>10, <1>12, <1>14, <1>15, Zenon

\* Logs that begin alike begin with the same decisions.
LEMMA Alike ==
    ASSUME NEW l \in Seq(Rec), NEW m \in Seq(Rec), NEW k \in 0 .. Len(l), k <= Len(m),
           \A i \in 1 .. k : l[i] = m[i]
    PROVE  Collected(l)[k] = Collected(m)[k]
<1>1. PICK u : u = Collected(l)
  OBVIOUS
<1>2. PICK v : v = Collected(m)
  OBVIOUS
<1>3. /\ u[0] = <<>> /\ v[0] = <<>>
      /\ \A n \in 1 .. k : /\ u[n] = IF IsReplayDecision(l[n]) THEN Append(u[n - 1], l[n]) ELSE u[n - 1]
                           /\ v[n] = IF IsReplayDecision(m[n]) THEN Append(v[n - 1], m[n]) ELSE v[n - 1]
  <2>1. \A n \in 1 .. k : n \in 1 .. Len(l) /\ n \in 1 .. Len(m)
    OBVIOUS
  <2>2. /\ u[0] = <<>>
        /\ \A n \in 1 .. Len(l) : u[n] = IF IsReplayDecision(l[n]) THEN Append(u[n - 1], l[n]) ELSE u[n - 1]
    BY <1>1, Collecting, Zenon
  <2>3. /\ v[0] = <<>>
        /\ \A n \in 1 .. Len(m) : v[n] = IF IsReplayDecision(m[n]) THEN Append(v[n - 1], m[n]) ELSE v[n - 1]
    BY <1>2, Collecting, Zenon
  <2>. QED BY <2>1, <2>2, <2>3, Zenon
<1>. DEFINE G == {n \in 0 .. k : u[n] = v[n]}
<1>4. ASSUME NEW n \in 0 .. k, \A i \in 0 .. n - 1 : i \in G PROVE n \in G
  <2>1. n = 0 \/ (n \in 1 .. k /\ u[n - 1] = v[n - 1])
    BY <1>4
  <2>. QED BY <1>3, <2>1, Zenon
<1>5. 0 .. k \subseteq G
  <2>1. k \in Nat
    OBVIOUS
  <2>. HIDE DEF G
  <2>. QED BY <1>4, <2>1, UpTo
<1>. QED BY <1>1, <1>2, <1>5

LEMMA DecisionsType ==
    /\ \A log \in Seq(Rec) : Decisions(log) \in Seq(Rec) /\ Len(Decisions(log)) \in Nat
    /\ Decisions(<<>>) = <<>>
<1>1. ASSUME NEW log \in Seq(Rec) PROVE Decisions(log) \in Seq(Rec)
  <2>1. PICK u : u = Collected(log)
    OBVIOUS
  <2>2. u \in [0 .. Len(log) -> Seq(Rec)] /\ Decisions(log) = u[Len(log)]
    BY <2>1, Collecting, Zenon
  <2>3. Len(log) \in 0 .. Len(log)
    OBVIOUS
  <2>. QED BY <2>2, <2>3
<1>2. Decisions(<<>>) = <<>>
  <2>1. <<>> \in Seq(Rec) /\ Len(<<>>) = 0
    OBVIOUS
  <2>. QED BY <2>1, Collecting, Zenon
<1>. QED BY <1>1, <1>2

LEMMA DecisionsAppend ==
    ASSUME NEW log \in Seq(Rec), NEW r \in Rec
    PROVE  /\ Append(log, r) \in Seq(Rec)
           /\ Decisions(Append(log, r)) =
                IF IsReplayDecision(r) THEN Append(Decisions(log), r) ELSE Decisions(log)
<1>1. PICK m : m = Append(log, r)
  OBVIOUS
<1>2. PICK N \in Nat : N = Len(log)
  OBVIOUS
<1>3. /\ m \in Seq(Rec) /\ Len(m) = N + 1 /\ m[N + 1] = r
      /\ \A i \in 1 .. N : log[i] = m[i]
  BY <1>1, <1>2
<1>4. N \in 0 .. Len(log) /\ N <= Len(m) /\ N + 1 \in 1 .. Len(m) /\ (N + 1) - 1 = N
  BY <1>2, <1>3
<1>5. Collected(log)[N] = Collected(m)[N]
  BY <1>3, <1>4, Alike
<1>6. Decisions(log) = Collected(log)[N]
  BY <1>2, Collecting, Zenon
<1>7. PICK v : v = Collected(m)
  OBVIOUS
<1>8. /\ Decisions(m) = v[N + 1]
      /\ v[N + 1] = IF IsReplayDecision(m[N + 1]) THEN Append(v[(N + 1) - 1], m[N + 1]) ELSE v[(N + 1) - 1]
  BY <1>3, <1>4, <1>7, Collecting, Zenon
<1>. QED BY <1>1, <1>3, <1>4, <1>5, <1>6, <1>7, <1>8, Zenon

\* Telemetry behind a log adds no decision.
LEMMA DecisionsTail ==
    ASSUME NEW l \in Seq(Rec), NEW m \in Seq(Rec), Len(l) <= Len(m),
           \A i \in 1 .. Len(l) : l[i] = m[i],
           \A i \in Len(l) + 1 .. Len(m) : ~ IsReplayDecision(m[i])
    PROVE  Decisions(m) = Decisions(l)
<1>1. PICK N \in Nat : N = Len(l)
  OBVIOUS
<1>2. PICK M \in Nat : M = Len(m)
  OBVIOUS
<1>3. PICK v : v = Collected(m)
  OBVIOUS
<1>4. Decisions(l) = v[N]
  <2>1. N \in 0 .. Len(l) /\ N <= Len(m) /\ \A i \in 1 .. N : l[i] = m[i]
    BY <1>1
  <2>2. Collected(l)[N] = Collected(m)[N]
    BY <2>1, Alike
  <2>. QED BY <1>1, <1>3, <2>2, Collecting, Zenon
<1>5. /\ Decisions(m) = v[M]
      /\ \A n \in 1 .. M : v[n] = IF IsReplayDecision(m[n]) THEN Append(v[n - 1], m[n]) ELSE v[n - 1]
  BY <1>2, <1>3, Collecting, Zenon
<1>. DEFINE G == {n \in 0 .. M : n >= N => v[n] = v[N]}
<1>6. ASSUME NEW n \in 0 .. M, \A i \in 0 .. n - 1 : i \in G PROVE n \in G
  <2>1. n <= N \/ (n \in N + 1 .. M /\ n \in 1 .. M /\ v[n - 1] = v[N])
    BY <1>6
  <2>2. n \in N + 1 .. M => ~ IsReplayDecision(m[n])
    BY <1>1, <1>2
  <2>3. n <= N => n \in G
    OBVIOUS
  <2>4. v[n] = v[N] => n \in G
    OBVIOUS
  <2>. HIDE DEF G
  <2>. QED BY <1>5, <2>1, <2>2, <2>3, <2>4, Zenon
<1>7. 0 .. M \subseteq G
  <2>. HIDE DEF G
  <2>. QED BY <1>6, UpTo
<1>. QED BY <1>1, <1>2, <1>4, <1>5, <1>7

-----------------------------------------------------------------------------
(* Reconstruction from a sound log. *)

\* A decision was made in the session that was there; a rewind points back, and
\* left the session its target left.
Sound(d) ==
    \A n \in 1 .. Len(d) :
        \/ d[n].type = "decision" /\ d[n].in = After(d, n - 1)
        \/ d[n].type = "ov_rewind" /\ d[n].to \in 0 .. n - 1 /\ d[n].out = After(d, d[n].to)

\* The positions in force after each decision.
LEMMA Lives ==
    ASSUME NEW d \in Seq(Rec), Sound(d)
    PROVE  LET live == EffectiveIndices(d)
           IN  /\ live \in [0 .. Len(d) -> Seq(1 .. Len(d))] /\ live[0] = <<>>
               /\ \A n \in 1 .. Len(d) :
                    live[n] = IF d[n].type = "ov_rewind" THEN live[d[n].to] ELSE Append(live[n - 1], n)
<1>1. PICK N \in Nat : N = Len(d)
  OBVIOUS
<1>. DEFINE V == Seq(1 .. N)
            Value(n, g) == IF d[n].type = "ov_rewind" THEN g[d[n].to] ELSE Append(g[n - 1], n)
            step == [i \in 1 .. N |-> [g \in [0 .. i - 1 -> V] |-> Value(i, g)]]
            Runs(h) == h = [n \in 0 .. N |-> IF n = 0 THEN <<>> ELSE Value(n, h)]
<1>2. \A i \in 1 .. N : i - 1 \in 0 .. i - 1 /\ i - 1 \in 0 .. N /\ i # 0 /\ i \in 0 .. N
  OBVIOUS
<1>3. \A i \in 1 .. N : d[i].type = "ov_rewind" => d[i].to \in 0 .. i - 1 /\ d[i].to \in 0 .. N
  <2>1. \A i \in 1 .. N : d[i].type = "ov_rewind" => d[i].to \in 0 .. i - 1
    BY <1>1 DEF Sound
  <2>2. \A i \in 1 .. N : \A t \in 0 .. i - 1 : t \in 0 .. N
    OBVIOUS
  <2>. QED BY <2>1, <2>2, Zenon
<1>4. \A s \in V, i \in 1 .. N : Append(s, i) \in V
  OBVIOUS
<1>5. <<>> \in V
  OBVIOUS
<1>6. ASSUME NEW i \in 1 .. N, NEW g, \A k \in 0 .. i - 1 : g[k] \in V PROVE Value(i, g) \in V
  <2>. HIDE DEF V
  <2>. QED BY <1>2, <1>3, <1>4, <1>6
<1>7. \A i \in 1 .. N : step[i] \in [[0 .. i - 1 -> V] -> V]
  <2>. SUFFICES ASSUME NEW i \in 1 .. N PROVE step[i] \in [[0 .. i - 1 -> V] -> V]
    OBVIOUS
  <2>1. \A g \in [0 .. i - 1 -> V] : \A k \in 0 .. i - 1 : g[k] \in V
    OBVIOUS
  <2>2. \A g \in [0 .. i - 1 -> V] : Value(i, g) \in V
    <3>. HIDE DEF Value, V
    <3>. QED BY <1>6, <2>1
  <2>3. step[i] = [g \in [0 .. i - 1 -> V] |-> Value(i, g)]
    OBVIOUS
  <2>. HIDE DEF Value, V, step
  <2>. QED BY <2>2, <2>3
<1>8. PICK f : Grows(f, V, <<>>, step, N)
  <2>. HIDE DEF V, step
  <2>. QED BY <1>1, <1>5, <1>7, Recursion
<1>9. /\ f \in [0 .. N -> V] /\ f[0] = <<>>
      /\ \A i \in 1 .. N : f[i] = Value(i, f)
  <2>1. /\ f \in [0 .. N -> V] /\ f[0] = <<>>
        /\ \A i \in 1 .. N : f[i] = step[i][[k \in 0 .. i - 1 |-> f[k]]]
    BY <1>8, Zenon DEF Grows
  <2>2. ASSUME NEW i \in 1 .. N PROVE f[i] = Value(i, f)
    <3>. DEFINE g == [k \in 0 .. i - 1 |-> f[k]]
    <3>1. g \in [0 .. i - 1 -> V] /\ \A k \in 0 .. i - 1 : g[k] = f[k]
      <4>1. \A k \in 0 .. i - 1 : f[k] \in V
        BY <2>1
      <4>. HIDE DEF V
      <4>. QED BY <4>1
    <3>2. f[i] = step[i][g]
      BY <2>1
    <3>3. step[i] = [h \in [0 .. i - 1 -> V] |-> Value(i, h)]
      OBVIOUS
    <3>4. Value(i, g) = Value(i, f)
      <4>. HIDE DEF g
      <4>. QED BY <1>2, <1>3, <3>1
    <3>. HIDE DEF g, Value, V, step
    <3>. QED BY <3>1, <3>2, <3>3, <3>4
  <2>. QED BY <2>1, <2>2
<1>10. Runs(f)
  <2>1. \A n \in 0 .. N : n = 0 \/ n \in 1 .. N
    OBVIOUS
  <2>. HIDE DEF Value, V
  <2>. QED BY <1>2, <1>9, <2>1
<1>11. EffectiveIndices(d) = CHOOSE h : Runs(h)
  BY <1>1, Zenon DEF EffectiveIndices
<1>12. PICK u : u = EffectiveIndices(d)
  OBVIOUS
<1>13. Runs(u)
  <2>. HIDE DEF Runs
  <2>. QED BY <1>10, <1>11, <1>12, Zenon
<1>14. /\ u[0] = <<>> /\ \A n \in 1 .. N : u[n] = Value(n, u)
       /\ u = [n \in 0 .. N |-> u[n]]
  <2>. HIDE DEF Value
  <2>. QED BY <1>2, <1>13
<1>15. \A n \in 0 .. N : u[n] \in V
  <2>. DEFINE G == {n \in 0 .. N : u[n] \in V}
  <2>1. ASSUME NEW n \in 0 .. N, \A k \in 0 .. n - 1 : k \in G PROVE n \in G
    <3>1. n = 0 \/ (n \in 1 .. N /\ \A k \in 0 .. n - 1 : u[k] \in V)
      BY <2>1
    <3>2. CASE n \in 1 .. N /\ \A k \in 0 .. n - 1 : u[k] \in V
      <4>1. Value(n, u) \in V
        <5>. HIDE DEF Value, V
        <5>. QED BY <1>6, <3>2
      <4>. HIDE DEF Value, V
      <4>. QED BY <1>14, <3>2, <4>1
    <3>. QED BY <1>5, <1>14, <3>1, <3>2
  <2>2. 0 .. N \subseteq G
    <3>. HIDE DEF G
    <3>. QED BY <2>1, UpTo
  <2>. QED BY <2>2
<1>16. u \in [0 .. N -> V]
  <2>. HIDE DEF V
  <2>. QED BY <1>14, <1>15
<1>. QED BY <1>1, <1>12, <1>14, <1>16, Zenon

\* A run of decisions, one after the other.
Running(d, s, order) ==
    LET after[k \in 0 .. Len(order)] == IF k = 0 THEN s ELSE Apply(after[k - 1], d[order[k]])
    IN  after

LEMMA Replaying ==
    ASSUME NEW d, NEW s, NEW order, Len(order) \in Nat
    PROVE  LET a == Running(d, s, order)
           IN  /\ a[0] = s /\ Replay(d, s, order) = a[Len(order)]
               /\ \A k \in 1 .. Len(order) : a[k] = Apply(a[k - 1], d[order[k]])
<1>1. PICK N \in Nat : N = Len(order)
  OBVIOUS
<1>. DEFINE V == {s, Drift} \cup {d[order[k]].out : k \in 1 .. N}
            Value(n, v) == Apply(v, d[order[n]])
            step == [i \in 1 .. N |-> [g \in [0 .. i - 1 -> V] |-> Value(i, g[i - 1])]]
            Runs(h) == h = [n \in 0 .. N |-> IF n = 0 THEN s ELSE Value(n, h[n - 1])]
<1>2. \A i \in 1 .. N : i - 1 \in 0 .. i - 1 /\ i - 1 \in 0 .. N /\ i # 0 /\ i \in 0 .. N
  OBVIOUS
<1>3. s \in V /\ \A i \in 1 .. N, v \in V : Value(i, v) \in V
  BY Zenon DEF Apply
<1>4. \A i \in 1 .. N : step[i] \in [[0 .. i - 1 -> V] -> V]
  <2>. SUFFICES ASSUME NEW i \in 1 .. N PROVE step[i] \in [[0 .. i - 1 -> V] -> V]
    OBVIOUS
  <2>1. \A g \in [0 .. i - 1 -> V] : g[i - 1] \in V
    <3>. HIDE DEF V
    <3>. QED BY <1>2
  <2>2. \A g \in [0 .. i - 1 -> V] : Value(i, g[i - 1]) \in V
    <3>. HIDE DEF Value, V
    <3>. QED BY <1>3, <2>1
  <2>3. step[i] = [g \in [0 .. i - 1 -> V] |-> Value(i, g[i - 1])]
    OBVIOUS
  <2>. HIDE DEF Value, V, step
  <2>. QED BY <2>2, <2>3
<1>5. PICK f : Grows(f, V, s, step, N)
  <2>. HIDE DEF V, step
  <2>. QED BY <1>1, <1>3, <1>4, Recursion
<1>6. /\ f \in [0 .. N -> V] /\ f[0] = s
      /\ \A i \in 1 .. N : f[i] = Value(i, f[i - 1])
  <2>1. /\ f \in [0 .. N -> V] /\ f[0] = s
        /\ \A i \in 1 .. N : f[i] = step[i][[k \in 0 .. i - 1 |-> f[k]]]
    BY <1>5, Zenon DEF Grows
  <2>2. ASSUME NEW i \in 1 .. N PROVE f[i] = Value(i, f[i - 1])
    <3>. DEFINE g == [k \in 0 .. i - 1 |-> f[k]]
    <3>1. g \in [0 .. i - 1 -> V] /\ g[i - 1] = f[i - 1]
      <4>1. \A k \in 0 .. i - 1 : f[k] \in V
        <5>. HIDE DEF V
        <5>. QED BY <2>1
      <4>. HIDE DEF V
      <4>. QED BY <1>2, <4>1
    <3>2. f[i] = step[i][g]
      BY <2>1
    <3>3. step[i] = [h \in [0 .. i - 1 -> V] |-> Value(i, h[i - 1])]
      OBVIOUS
    <3>. HIDE DEF g, Value, V, step
    <3>. QED BY <3>1, <3>2, <3>3
  <2>. QED BY <2>1, <2>2
<1>7. Runs(f)
  <2>1. \A n \in 0 .. N : n = 0 \/ n \in 1 .. N
    OBVIOUS
  <2>. HIDE DEF Value, V
  <2>. QED BY <1>2, <1>6, <2>1
<1>8. Running(d, s, order) = CHOOSE h : Runs(h)
  BY <1>1, Zenon DEF Running
<1>9. PICK u : u = Running(d, s, order)
  OBVIOUS
<1>10. Runs(u)
  <2>. HIDE DEF Runs
  <2>. QED BY <1>7, <1>8, <1>9, Zenon
<1>11. u[0] = s /\ \A n \in 1 .. N : u[n] = Value(n, u[n - 1])
  <2>. HIDE DEF Value
  <2>. QED BY <1>2, <1>10
<1>12. Replay(d, s, order) = u[N]
  BY <1>1, <1>9, Zenon DEF Replay, Running
<1>. QED BY <1>1, <1>9, <1>11, <1>12, Zenon

LEMMA ReplayAppend ==
    ASSUME NEW d, NEW s, NEW o \in Seq(Nat), NEW i \in Nat
    PROVE  Replay(d, s, Append(o, i)) = Apply(Replay(d, s, o), d[i])
<1>1. PICK p : p = Append(o, i)
  OBVIOUS
<1>2. PICK N \in Nat : N = Len(o)
  OBVIOUS
<1>3. /\ Len(p) = N + 1 /\ Len(p) \in Nat /\ Len(o) \in Nat /\ p[N + 1] = i
      /\ \A k \in 1 .. N : p[k] = o[k]
  BY <1>1, <1>2
<1>4. PICK a : a = Running(d, s, o)
  OBVIOUS
<1>5. PICK b : b = Running(d, s, p)
  OBVIOUS
<1>6. /\ a[0] = s /\ Replay(d, s, o) = a[N]
      /\ \A k \in 1 .. N : a[k] = Apply(a[k - 1], d[o[k]])
  <2>1. /\ a[0] = s /\ Replay(d, s, o) = a[Len(o)]
        /\ \A k \in 1 .. Len(o) : a[k] = Apply(a[k - 1], d[o[k]])
    BY ONLY <1>3, <1>4, Replaying
  <2>. QED BY <1>2, <2>1
<1>7. /\ b[0] = s /\ Replay(d, s, p) = b[N + 1]
      /\ \A k \in 1 .. N + 1 : b[k] = Apply(b[k - 1], d[p[k]])
  <2>1. Len(p) \in Nat
    BY <1>3
  <2>2. /\ b[0] = s /\ Replay(d, s, p) = b[Len(p)]
        /\ \A k \in 1 .. Len(p) : b[k] = Apply(b[k - 1], d[p[k]])
    BY ONLY <2>1, <1>5, Replaying
  <2>. QED BY <1>3, <2>2
<1>. DEFINE G == {k \in 0 .. N : a[k] = b[k]}
<1>8. ASSUME NEW k \in 0 .. N, \A j \in 0 .. k - 1 : j \in G PROVE k \in G
  <2>1. k = 0 \/ (k \in 1 .. N /\ k \in 1 .. N + 1 /\ a[k - 1] = b[k - 1])
    BY <1>8
  <2>2. k \in 1 .. N /\ k \in 1 .. N + 1 /\ a[k - 1] = b[k - 1] => a[k] = b[k]
    BY <1>3, <1>6, <1>7, Zenon
  <2>. QED BY <1>6, <1>7, <2>1, <2>2
<1>9. 0 .. N \subseteq G
  <2>. HIDE DEF G
  <2>. QED BY <1>8, UpTo
<1>10. a[N] = b[N] /\ N + 1 \in 1 .. N + 1 /\ (N + 1) - 1 = N
  BY <1>9
<1>11. b[N + 1] = Apply(b[N], d[i])
  BY <1>3, <1>7, <1>10, Zenon
<1>. QED BY <1>1, <1>6, <1>7, <1>10, <1>11, Zenon

\* The decisions in force, replayed, lead to the session that was there, through
\* rewinds of rewinds.
LEMMA Rebuilding ==
    ASSUME NEW d \in Seq(Rec), Sound(d)
    PROVE  \A n \in 0 .. Len(d) : Rebuild(d, n) = After(d, n)
<1>1. PICK N \in Nat : N = Len(d)
  OBVIOUS
<1>2. PICK live : live = EffectiveIndices(d)
  OBVIOUS
<1>3. /\ live \in [0 .. N -> Seq(1 .. N)] /\ live[0] = <<>>
      /\ \A n \in 1 .. N :
           live[n] = IF d[n].type = "ov_rewind" THEN live[d[n].to] ELSE Append(live[n - 1], n)
  BY <1>1, <1>2, Lives, Zenon
<1>. DEFINE G == {n \in 0 .. N : Replay(d, Start, live[n]) = After(d, n)}
<1>4. 0 \in G
  <2>1. PICK e : e = <<>>
    OBVIOUS
  <2>2. Len(e) = 0 /\ Len(e) \in Nat
    BY <2>1
  <2>3. PICK a : a = Running(d, Start, e)
    OBVIOUS
  <2>4. a[0] = Start /\ Replay(d, Start, e) = a[Len(e)]
    BY ONLY <2>2, <2>3, Replaying
  <2>5. Replay(d, Start, <<>>) = Start
    BY <2>1, <2>2, <2>4
  <2>. QED BY <1>3, <2>5 DEF After
<1>5. ASSUME NEW n \in 1 .. N, \A k \in 0 .. n - 1 : k \in G PROVE n \in G
  <2>1. /\ n # 0 /\ n \in 0 .. N /\ n - 1 \in 0 .. n - 1 /\ n - 1 \in 0 .. N /\ n \in Nat
        /\ \A t \in 0 .. n - 1 : t \in 0 .. N
    OBVIOUS
  <2>2. After(d, n) = d[n].out
    BY <2>1, Zenon DEF After
  <2>3. CASE d[n].type = "decision" /\ d[n].in = After(d, n - 1)
    <3>1. live[n] = Append(live[n - 1], n)
      BY <1>3, <2>3
    <3>2. live[n - 1] \in Seq(Nat)
      <4>1. live[n - 1] \in Seq(1 .. N)
        BY <1>3, <2>1, Zenon
      <4>. QED BY <4>1
    <3>3. Replay(d, Start, live[n]) = Apply(Replay(d, Start, live[n - 1]), d[n])
      BY <2>1, <3>1, <3>2, ReplayAppend, Zenon
    <3>4. Replay(d, Start, live[n - 1]) = After(d, n - 1)
      BY <1>5, <2>1
    <3>5. Replay(d, Start, live[n]) = d[n].out
      BY <2>3, <3>3, <3>4, Zenon DEF Apply
    <3>. QED BY <2>1, <2>2, <3>5
  <2>4. CASE d[n].type = "ov_rewind" /\ d[n].to \in 0 .. n - 1 /\ d[n].out = After(d, d[n].to)
    <3>1. live[n] = live[d[n].to]
      BY <1>3, <2>4, Zenon
    <3>2. Replay(d, Start, live[d[n].to]) = After(d, d[n].to)
      BY <1>5, <2>4
    <3>3. Replay(d, Start, live[n]) = After(d, n)
      BY <2>2, <2>4, <3>1, <3>2, Zenon
    <3>. QED BY <2>1, <3>3
  <2>. QED BY <1>1, <2>3, <2>4 DEF Sound
<1>6. 0 .. N \subseteq G
  <2>1. ASSUME NEW n \in 0 .. N, \A k \in 0 .. n - 1 : k \in G PROVE n \in G
    <3>1. n = 0 \/ n \in 1 .. N
      OBVIOUS
    <3>. HIDE DEF G
    <3>. QED BY <1>4, <1>5, <2>1, <3>1
  <2>. HIDE DEF G
  <2>. QED BY <2>1, UpTo
<1>. QED BY <1>1, <1>2, <1>6 DEF Rebuild

\* So does a cursor that goes on from an earlier position.
LEMMA Forwarding ==
    ASSUME NEW d \in Seq(Rec), Sound(d), NEW from \in Nat, NEW target \in Nat,
           from <= target, target <= Len(d), NEW s, s = After(d, from)
    PROVE  Forward(d, from, s, target) = After(d, target)
<1>. DEFINE Value(n, v) == IF d[n].type = "ov_rewind" THEN Rebuild(d, d[n].to) ELSE Apply(v, d[n])
            Runs(h) == h = [n \in from .. target |-> IF n = from THEN s ELSE Value(n, h[n - 1])]
<1>1. \A n \in from .. target : n # from => /\ n \in 1 .. Len(d) /\ n # 0
                                            /\ n - 1 \in from .. target
  OBVIOUS
<1>2. ASSUME NEW n \in from .. target, n # from PROVE Value(n, After(d, n - 1)) = After(d, n)
  <2>1. After(d, n) = d[n].out /\ n \in 1 .. Len(d)
    BY <1>1, <1>2, Zenon DEF After
  <2>2. CASE d[n].type = "decision" /\ d[n].in = After(d, n - 1)
    BY <2>1, <2>2 DEF Apply
  <2>3. CASE d[n].type = "ov_rewind" /\ d[n].to \in 0 .. n - 1 /\ d[n].out = After(d, d[n].to)
    <3>1. d[n].to \in 0 .. Len(d)
      <4>1. \A t \in 0 .. n - 1 : t \in 0 .. Len(d)
        OBVIOUS
      <4>. QED BY <2>3, <4>1, Zenon
    <3>2. Rebuild(d, d[n].to) = After(d, d[n].to)
      BY <3>1, Rebuilding, Zenon
    <3>. QED BY <2>1, <2>3, <3>2, Zenon
  <2>. QED BY <2>1, <2>2, <2>3, Zenon DEF Sound
<1>. DEFINE f == [n \in from .. target |-> After(d, n)]
<1>3. Runs(f)
  <2>1. \A n \in from .. target : f[n] = After(d, n)
    BY Zenon
  <2>2. \A n \in from .. target : f[n] = IF n = from THEN s ELSE Value(n, f[n - 1])
    <3>. HIDE DEF Value, f
    <3>. QED BY <1>1, <1>2, <2>1, Zenon
  <2>3. f = [n \in from .. target |-> f[n]]
    BY Zenon
  <2>. HIDE DEF Value, f
  <2>. QED BY <2>2, <2>3, Zenon
<1>. HIDE DEF f
<1>4. Forward(d, from, s, target) = (CHOOSE h : Runs(h))[target]
  BY Zenon DEF Forward
<1>5. PICK u : u = CHOOSE h : Runs(h)
  OBVIOUS
<1>6. Runs(u)
  <2>. HIDE DEF Runs
  <2>. QED BY <1>3, <1>5, Zenon
<1>7. \A n \in from .. target : u[n] = IF n = from THEN s ELSE Value(n, u[n - 1])
  <2>. HIDE DEF Value
  <2>. QED BY <1>6
<1>. DEFINE G == {n \in 0 .. target : n >= from => u[n] = After(d, n)}
<1>8. ASSUME NEW n \in 0 .. target, \A k \in 0 .. n - 1 : k \in G PROVE n \in G
  <2>1. CASE n < from
    BY <2>1
  <2>2. CASE n = from
    <3>1. n \in from .. target
      BY <2>2
    <3>2. u[n] = After(d, n)
      BY <1>7, <2>2, <3>1, Zenon
    <3>. QED BY <3>2
  <2>3. CASE n > from
    <3>1. n \in from .. target /\ n # from /\ u[n - 1] = After(d, n - 1)
      BY <1>8, <2>3
    <3>2. u[n] = Value(n, u[n - 1])
      <4>. HIDE DEF Value
      <4>. QED BY <1>7, <3>1, Zenon
    <3>3. Value(n, After(d, n - 1)) = After(d, n)
      BY <1>2, <3>1
    <3>4. u[n] = After(d, n)
      <4>. HIDE DEF Value
      <4>. QED BY <3>1, <3>2, <3>3, Zenon
    <3>. QED BY <3>4
  <2>. QED BY <2>1, <2>2, <2>3
<1>9. 0 .. target \subseteq G
  <2>. HIDE DEF G
  <2>. QED BY <1>8, UpTo
<1>10. u[target] = After(d, target)
  BY <1>9
<1>. QED BY <1>4, <1>5, <1>10, Zenon

-----------------------------------------------------------------------------
(* The invariant. *)

CursorType == [stamp : Nat, decisions : Seq(Rec), at : Nat, session : Nat]
ViewerType == [pc : {"idle", "read"}, stamp : Nat, asked : Nat, cursor : CursorType]

LogTypes ==
    /\ session \in Nat /\ records \in Seq(Rec)
    /\ file \in [lines : Seq(Rec), whole : BOOLEAN] /\ save \in [session : Nat, log : Seq(Rec)]
    /\ proposal \in Nat
    /\ made \in [decisions : Nat, rewinds : Nat, clock : Nat, requests : Nat]

\* A log is sound, and its last decision left this session.
Leads(log, s) ==
    LET d == Decisions(log) IN Sound(d) /\ After(d, Len(d)) = s

LogFits ==
    /\ doing # "down" => Leads(records, session)
    /\ Leads(save.log, save.session)
    /\ doing # "down" /\ ~lost => file = [lines |-> records, whole |-> TRUE]

\* The target of an open rewind is a position of the log, and one is computed for
\* an open rewind only.
ProposalFits ==
    /\ doing = "rewind" => proposal # NoProposal
    /\ doing # "down" /\ ~lost /\ proposal # NoProposal =>
         proposal \in 0 .. Len(Decisions(records))

CursorFits(c) ==
    /\ c \in CursorType /\ Sound(c.decisions)
    /\ c.at \in 0 .. Len(c.decisions) /\ c.session = After(c.decisions, c.at)

\* A cursor with the stamp of the whole log has all of its decisions, and one with
\* the stamp of the request has all that were there when it was made.
ViewFits ==
    doing # "down" /\ ~lost =>
      /\ viewer \in ViewerType /\ CursorFits(viewer.cursor)
      /\ viewer.cursor.stamp <= Len(records) /\ viewer.stamp <= Len(records)
      /\ viewer.cursor.stamp = Len(records) =>
           Len(viewer.cursor.decisions) >= Len(Decisions(records))
      /\ viewer.pc = "read" => viewer.asked <= Len(Decisions(records))
      /\ viewer.pc = "idle" \/ viewer.cursor.stamp = viewer.stamp =>
           Len(viewer.cursor.decisions) >= viewer.asked

DownFits == doing = "down" => viewer = NoRequest /\ proposal = NoProposal

Fits == LogTypes /\ LogFits /\ ProposalFits /\ ViewFits /\ DownFits

LogInv == ~strayed => Fits

-----------------------------------------------------------------------------
(* Sound logs grow into sound logs. *)

LEMMA AfterType ==
    ASSUME NEW d \in Seq(Rec), NEW n \in 0 .. Len(d)
    PROVE  After(d, n) \in Nat
<1>1. n # 0 => d[n] \in Rec
  OBVIOUS
<1>. QED BY <1>1 DEF After, Rec, Start

LEMMA SoundAppend ==
    ASSUME NEW d \in Seq(Rec), Sound(d), NEW r \in Rec,
           \/ r.type = "decision" /\ r.in = After(d, Len(d))
           \/ r.type = "ov_rewind" /\ r.to \in 0 .. Len(d) /\ r.out = After(d, r.to)
    PROVE  /\ Sound(Append(d, r)) /\ Len(Append(d, r)) = Len(d) + 1
           /\ After(Append(d, r), Len(d) + 1) = r.out
<1>1. PICK e : e = Append(d, r)
  OBVIOUS
<1>2. PICK N \in Nat : N = Len(d)
  OBVIOUS
<1>3. /\ e \in Seq(Rec) /\ Len(e) = N + 1 /\ e[N + 1] = r /\ N + 1 # 0
      /\ \A n \in 1 .. N : e[n] = d[n]
  BY <1>1, <1>2
<1>4. \A n \in 0 .. N : After(e, n) = After(d, n)
  <2>1. \A n \in 0 .. N : n = 0 \/ n \in 1 .. N
    OBVIOUS
  <2>. QED BY <1>3, <2>1, Zenon DEF After
<1>5. After(e, N + 1) = r.out
  BY <1>3, Zenon DEF After
<1>6. ASSUME NEW n \in 1 .. N + 1
      PROVE  \/ e[n].type = "decision" /\ e[n].in = After(e, n - 1)
             \/ e[n].type = "ov_rewind" /\ e[n].to \in 0 .. n - 1 /\ e[n].out = After(e, e[n].to)
  <2>1. CASE n \in 1 .. N
    <3>1. n - 1 \in 0 .. N /\ \A t \in 0 .. n - 1 : t \in 0 .. N
      BY <2>1
    <3>2. \/ d[n].type = "decision" /\ d[n].in = After(d, n - 1)
          \/ d[n].type = "ov_rewind" /\ d[n].to \in 0 .. n - 1 /\ d[n].out = After(d, d[n].to)
      BY <1>2, <2>1, Zenon DEF Sound
    <3>. QED BY <1>3, <1>4, <2>1, <3>1, <3>2, Zenon
  <2>2. CASE n = N + 1
    <3>1. n - 1 = N /\ N \in 0 .. N
      BY <2>2
    <3>. QED BY <1>2, <1>3, <1>4, <2>2, <3>1, Zenon
  <2>. QED BY <2>1, <2>2
<1>7. Sound(e)
  BY <1>3, <1>6, Zenon DEF Sound
<1>. QED BY <1>1, <1>2, <1>3, <1>5, <1>7

LEMMA LeadsAppend ==
    ASSUME NEW log \in Seq(Rec), NEW s, Leads(log, s), NEW r \in Rec
    PROVE  LET d == Decisions(log)
               e == Decisions(Append(log, r))
           IN  /\ ~ IsReplayDecision(r) => Leads(Append(log, r), s) /\ Len(e) = Len(d)
               /\ \/ r.type = "decision" /\ r.in = s
                  \/ r.type = "ov_rewind" /\ r.to \in 0 .. Len(d) /\ r.out = After(d, r.to)
                  => Leads(Append(log, r), r.out) /\ Len(e) = Len(d) + 1
<1>1. PICK d : d = Decisions(log)
  OBVIOUS
<1>2. PICK e : e = Decisions(Append(log, r))
  OBVIOUS
<1>3. d \in Seq(Rec) /\ Sound(d) /\ After(d, Len(d)) = s
  BY <1>1, DecisionsType DEF Leads
<1>4. e = IF IsReplayDecision(r) THEN Append(d, r) ELSE d
  BY <1>1, <1>2, DecisionsAppend, Zenon
<1>5. ~ IsReplayDecision(r) => Leads(Append(log, r), s) /\ Len(e) = Len(d)
  BY <1>2, <1>3, <1>4, Zenon DEF Leads
<1>6. ASSUME \/ r.type = "decision" /\ r.in = s
             \/ r.type = "ov_rewind" /\ r.to \in 0 .. Len(d) /\ r.out = After(d, r.to)
      PROVE  Leads(Append(log, r), r.out) /\ Len(e) = Len(d) + 1
  <2>1. IsReplayDecision(r)
    BY <1>6 DEF IsReplayDecision
  <2>2. e = Append(d, r)
    BY <1>4, <2>1
  <2>3. Sound(e) /\ Len(e) = Len(d) + 1 /\ After(e, Len(d) + 1) = r.out
    BY <1>3, <1>6, <2>2, SoundAppend, Zenon
  <2>. QED BY <1>2, <2>3, Zenon DEF Leads
<1>. QED BY <1>1, <1>2, <1>5, <1>6, Zenon

-----------------------------------------------------------------------------
(* Recording. *)

\* What recording does to the rest, whatever is recorded.
LEMMA Recorded ==
    ASSUME Fits, doing # "down", NEW r \in Rec, Record(r), UNCHANGED viewer, doing' # "down",
           LET d == Decisions(records)
           IN  \/ r.type = "clock"
               \/ r.type = "decision" /\ r.in = session
               \/ r.type = "ov_rewind" /\ r.to \in 0 .. Len(d) /\ r.out = After(d, r.to)
    PROVE  /\ records' \in Seq(Rec) /\ file' \in [lines : Seq(Rec), whole : BOOLEAN]
           /\ Leads(records', IF r.type = "clock" THEN session ELSE r.out)
           /\ ~lost' => ~lost /\ file' = [lines |-> records', whole |-> TRUE]
           /\ Len(Decisions(records)) \in Nat /\ Len(Decisions(records')) \in Nat
           /\ Len(Decisions(records')) >= Len(Decisions(records))
           /\ ViewFits'
<1>1. /\ records \in Seq(Rec) /\ file \in [lines : Seq(Rec), whole : BOOLEAN]
      /\ Leads(records, session)
      /\ ~lost => file = [lines |-> records, whole |-> TRUE]
  BY DEF Fits, LogTypes, LogFits
<1>2. records' = Append(records, r)
  BY DEF Record
<1>3. /\ ~lost' => ~lost /\ file' = [file EXCEPT !.lines = Append(@, r)]
      /\ \/ file' = [file EXCEPT !.lines = Append(@, r)]
         \/ \E torn \in BOOLEAN : file' = [file EXCEPT !.whole = @ /\ ~torn]
  BY DEF Record
<1>4. records' \in Seq(Rec) /\ Len(records') = Len(records) + 1 /\ Len(records) \in Nat
  BY <1>1, <1>2
<1>5. file' \in [lines : Seq(Rec), whole : BOOLEAN]
  <2>1. Append(file.lines, r) \in Seq(Rec)
    BY <1>1
  <2>2. CASE file' = [file EXCEPT !.lines = Append(@, r)]
    BY <1>1, <2>1, <2>2
  <2>3. ASSUME NEW torn \in BOOLEAN, file' = [file EXCEPT !.whole = @ /\ ~torn]
        PROVE  file' \in [lines : Seq(Rec), whole : BOOLEAN]
    <3>1. PICK w \in BOOLEAN : w = (file.whole /\ ~torn)
      BY Zenon
    <3>2. file' = [file EXCEPT !.whole = w]
      BY <2>3, <3>1, Zenon
    <3>. QED BY <1>1, <3>2
  <2>. QED BY <1>3, <2>2, <2>3
<1>6. ~lost' => ~lost /\ file' = [lines |-> records', whole |-> TRUE]
  <2>. SUFFICES ASSUME ~lost' PROVE ~lost /\ file' = [lines |-> records', whole |-> TRUE]
    OBVIOUS
  <2>1. ~lost /\ file' = [file EXCEPT !.lines = Append(@, r)] /\ file = [lines |-> records, whole |-> TRUE]
    BY <1>1, <1>3, Zenon
  <2>2. PICK log : log = Append(records, r)
    OBVIOUS
  <2>3. file.lines = records
    BY <2>1
  <2>4. file' = [file EXCEPT !.lines = log]
    BY <2>1, <2>2, <2>3
  <2>. QED BY <1>2, <2>1, <2>2, <2>4
<1>7. PICK m \in Nat : m = Len(Decisions(records))
  BY <1>1, DecisionsType
<1>8. PICK n \in Nat : n = Len(Decisions(records'))
  BY <1>4, DecisionsType
<1>9. /\ r.type = "clock" => Leads(records', session) /\ n = m
      /\ r.type # "clock" => Leads(records', r.out) /\ n = m + 1
  <2>. DEFINE d == Decisions(records)
              e == Decisions(Append(records, r))
  <2>1. /\ ~ IsReplayDecision(r) => Leads(Append(records, r), session) /\ Len(e) = Len(d)
        /\ \/ r.type = "decision" /\ r.in = session
           \/ r.type = "ov_rewind" /\ r.to \in 0 .. Len(d) /\ r.out = After(d, r.to)
           => Leads(Append(records, r), r.out) /\ Len(e) = Len(d) + 1
    BY <1>1, LeadsAppend, Zenon
  <2>2. r.type = "clock" => ~ IsReplayDecision(r)
    BY DEF IsReplayDecision
  <2>3. r.type = "clock" => Leads(records', session) /\ n = m
    BY <1>2, <1>7, <1>8, <2>1, <2>2, Zenon
  <2>4. r.type # "clock" => Leads(records', r.out) /\ n = m + 1
    BY <1>2, <1>7, <1>8, <2>1, Zenon
  <2>. QED BY <2>3, <2>4
<1>10. n >= m
  BY <1>9
<1>11. ViewFits'
  <2>. SUFFICES ASSUME ~lost' PROVE ViewFits'
    BY DEF ViewFits
  <2>1. /\ viewer \in ViewerType /\ CursorFits(viewer.cursor)
        /\ viewer.cursor.stamp <= Len(records) /\ viewer.stamp <= Len(records)
        /\ viewer.pc = "read" => viewer.asked <= m
        /\ viewer.pc = "idle" \/ viewer.cursor.stamp = viewer.stamp =>
             Len(viewer.cursor.decisions) >= viewer.asked
    BY <1>6, <1>7 DEF Fits, ViewFits
  <2>2. viewer.cursor.stamp \in Nat /\ viewer.stamp \in Nat /\ viewer.asked \in Nat
    BY <2>1 DEF ViewerType, CursorType
  <2>3. /\ viewer.cursor.stamp <= Len(records') /\ viewer.stamp <= Len(records')
        /\ viewer.cursor.stamp # Len(records')
        /\ viewer.pc = "read" => viewer.asked <= n
    BY <1>4, <1>10, <2>1, <2>2
  <2>4. viewer' = viewer
    OBVIOUS
  <2>. QED BY <1>8, <2>1, <2>3, <2>4, Zenon DEF ViewFits, CursorFits
<1>. QED BY <1>4, <1>5, <1>6, <1>7, <1>8, <1>9, <1>10, <1>11

-----------------------------------------------------------------------------
(* The steps. *)

LEMMA EmptyCursor == CursorFits(NoCursor) /\ NoRequest \in ViewerType
<1>1. /\ NoCursor.decisions = <<>> /\ NoCursor.at = 0 /\ NoCursor.session = Start
      /\ NoCursor \in CursorType
  BY DEF NoCursor, CursorType, Start
<1>2. Sound(<<>>) /\ After(<<>>, 0) = Start /\ 0 \in 0 .. Len(<<>>)
  BY DEF Sound, After
<1>3. NoRequest \in ViewerType
  BY <1>1 DEF NoRequest, ViewerType
<1>. QED BY <1>1, <1>2, <1>3, Zenon DEF CursorFits

\* A request that waits for nothing fits every log.
LEMMA IdleFits ==
    ASSUME records' \in Seq(Rec), viewer' = NoRequest, Len(Decisions(records')) \in Nat,
           Len(records') = 0 => Len(Decisions(records')) = 0
    PROVE  ViewFits'
<1>1. /\ NoRequest.pc = "idle" /\ NoRequest.stamp = 0 /\ NoRequest.asked = 0
      /\ NoRequest.cursor = NoCursor /\ NoCursor.stamp = 0 /\ NoCursor.decisions = <<>>
  BY DEF NoRequest, NoCursor
<1>2. Len(records') \in Nat /\ Len(<<>>) = 0
  OBVIOUS
<1>3. CursorFits(NoRequest.cursor) /\ NoRequest \in ViewerType
  BY <1>1, EmptyCursor
<1>. QED BY <1>1, <1>2, <1>3 DEF ViewFits, CursorFits

LEMMA DecisionsNone ==
    ASSUME NEW log \in Seq(Rec), Len(log) = 0
    PROVE  Len(Decisions(log)) = 0
<1>1. log = <<>>
  OBVIOUS
<1>2. Len(<<>>) = 0
  OBVIOUS
<1>. QED BY <1>1, <1>2, DecisionsType, Zenon

LEMMA LogInitially == LogInit => Fits
<1>. SUFFICES ASSUME LogInit PROVE Fits
  OBVIOUS
<1>1. Setup \in Rec /\ ~ IsReplayDecision(Setup) /\ Start \in Nat /\ NoProposal \in Nat
  BY ReplayAssumption DEF Setup, Rec, IsReplayDecision, Start, NoProposal
<1>2. Leads(<<>>, Start)
  <2>1. Sound(<<>>) /\ After(<<>>, 0) = Start /\ Len(<<>>) = 0
    BY DEF Sound, After
  <2>. QED BY <2>1, DecisionsType, Zenon DEF Leads
<1>3. <<>> \in Seq(Rec) /\ Append(<<>>, Setup) = <<Setup>> /\ <<Setup>> \in Seq(Rec) /\ Len(<<Setup>>) = 1
  BY <1>1
<1>4. Decisions(<<Setup>>) = <<>>
  BY <1>1, <1>3, DecisionsAppend, DecisionsType, Zenon
<1>5. Leads(<<Setup>>, Start)
  BY <1>2, <1>4, DecisionsType, Zenon DEF Leads
<1>6. LogTypes
  BY <1>1, <1>3 DEF LogInit, LogTypes
<1>7. LogFits
  BY <1>2, <1>5 DEF LogInit, LogFits
<1>8. ViewFits
  <2>1. /\ NoRequest.pc = "idle" /\ NoRequest.stamp = 0 /\ NoRequest.asked = 0
        /\ NoRequest.cursor = NoCursor /\ NoCursor.stamp = 0 /\ NoCursor.decisions = <<>>
    BY DEF NoRequest, NoCursor
  <2>2. CursorFits(NoRequest.cursor) /\ NoRequest \in ViewerType /\ Len(<<>>) = 0
    BY <2>1, EmptyCursor
  <2>. QED BY <1>3, <1>4, <2>1, <2>2 DEF LogInit, ViewFits
<1>. QED BY <1>6, <1>7, <1>8 DEF LogInit, Fits, ProposalFits, DownFits

LEMMA DecideKeeps == Fits /\ Decide => Fits'
<1>. SUFFICES ASSUME Fits, Decide PROVE Fits'
  OBVIOUS
<1>1. /\ LogTypes /\ LogFits /\ ProposalFits
  BY DEF Fits
<1>2. PICK r : r = Decision(session, made.decisions + 1)
  OBVIOUS
<1>3. made.decisions \in Nat /\ made.decisions + 1 \in Nat /\ session \in Nat
  BY <1>1 DEF LogTypes
<1>4. /\ r \in Rec /\ r.type = "decision" /\ r.in = session /\ r.out = made.decisions + 1
  BY <1>2, <1>3 DEF Decision, Rec
<1>5. /\ doing = "idle" /\ doing' = "save" /\ session' = made.decisions + 1 /\ Record(r)
      /\ UNCHANGED <<save, proposal, viewer>> /\ made' = [made EXCEPT !.decisions = @ + 1]
  BY <1>2 DEF Decide
<1>6. /\ records' \in Seq(Rec) /\ file' \in [lines : Seq(Rec), whole : BOOLEAN]
      /\ Leads(records', r.out)
      /\ ~lost' => ~lost /\ file' = [lines |-> records', whole |-> TRUE]
      /\ Len(Decisions(records)) \in Nat /\ Len(Decisions(records')) \in Nat
      /\ Len(Decisions(records')) >= Len(Decisions(records))
      /\ ViewFits'
  <2>1. doing # "down" /\ doing' # "down" /\ UNCHANGED viewer /\ r.type # "clock"
    BY <1>4, <1>5
  <2>. QED BY <1>4, <1>5, <2>1, Recorded
<1>7. LogTypes'
  BY <1>1, <1>3, <1>5, <1>6 DEF LogTypes
<1>8. LogFits'
  BY <1>1, <1>4, <1>5, <1>6 DEF LogFits, Leads
<1>9. ProposalFits'
  BY <1>1, <1>5, <1>6 DEF ProposalFits
<1>10. DownFits'
  BY <1>5 DEF DownFits
<1>. QED BY <1>6, <1>7, <1>8, <1>9, <1>10 DEF Fits

LEMMA RecordClockKeeps == Fits /\ RecordClock => Fits'
<1>. SUFFICES ASSUME Fits, RecordClock PROVE Fits'
  OBVIOUS
<1>1. /\ LogTypes /\ LogFits /\ ProposalFits
  BY DEF Fits
<1>2. PICK r : r = Clock(made.clock + 1)
  OBVIOUS
<1>3. made.clock \in Nat /\ made.clock + 1 \in Nat
  BY <1>1 DEF LogTypes
<1>4. r \in Rec /\ r.type = "clock"
  BY <1>2, <1>3 DEF Clock, Rec
<1>5. /\ doing # "down" /\ doing' = doing /\ session' = session /\ Record(r)
      /\ UNCHANGED <<save, proposal, viewer>> /\ made' = [made EXCEPT !.clock = @ + 1]
  BY <1>2 DEF RecordClock
<1>6. /\ records' \in Seq(Rec) /\ file' \in [lines : Seq(Rec), whole : BOOLEAN]
      /\ Leads(records', session)
      /\ ~lost' => ~lost /\ file' = [lines |-> records', whole |-> TRUE]
      /\ Len(Decisions(records)) \in Nat /\ Len(Decisions(records')) \in Nat
      /\ Len(Decisions(records')) >= Len(Decisions(records))
      /\ ViewFits'
  <2>1. doing' # "down" /\ UNCHANGED viewer
    BY <1>5
  <2>. QED BY <1>4, <1>5, <2>1, Recorded
<1>7. LogTypes'
  BY <1>1, <1>3, <1>5, <1>6 DEF LogTypes
<1>8. LogFits'
  BY <1>1, <1>5, <1>6 DEF LogFits, Leads
<1>9. ProposalFits'
  BY <1>1, <1>5, <1>6 DEF ProposalFits
<1>10. DownFits'
  BY <1>5 DEF DownFits
<1>. QED BY <1>6, <1>7, <1>8, <1>9, <1>10 DEF Fits

\* Nothing the viewer and the rewinds look at.
LEMMA SaveGameKeeps == Fits /\ SaveGame => Fits'
<1>. SUFFICES ASSUME Fits, SaveGame PROVE Fits'
  OBVIOUS
<1>1. /\ doing = "save" /\ doing' = "idle"
      /\ save' = [session |-> session, log |-> records] \/ save' = save
      /\ UNCHANGED <<session, records, file, proposal, viewer, lost, made>>
  BY DEF SaveGame
<1>2. LogTypes'
  BY <1>1 DEF Fits, LogTypes
<1>3. LogFits'
  BY <1>1 DEF Fits, LogFits
<1>4. ProposalFits' /\ ViewFits' /\ DownFits'
  BY <1>1 DEF Fits, ProposalFits, ViewFits, DownFits
<1>. QED BY <1>2, <1>3, <1>4 DEF Fits

LEMMA ProposeRewindKeeps ==
    ASSUME Fits, NEW to \in Nat, ProposeRewind(to) PROVE Fits'
<1>1. /\ doing = "idle" /\ to \in 0 .. Len(Decisions(file.lines)) /\ proposal' = to
      /\ UNCHANGED <<session, records, file, save, doing, viewer, lost, made>>
  BY DEF ProposeRewind, counters
<1>2. ~lost => file.lines = records
  BY <1>1 DEF Fits, LogFits
<1>3. LogTypes'
  BY <1>1 DEF Fits, LogTypes
<1>4. LogFits'
  BY <1>1 DEF Fits, LogFits
<1>5. ViewFits'
  BY <1>1 DEF Fits, ViewFits
<1>6. ProposalFits'
  BY <1>1, <1>2 DEF ProposalFits
<1>7. DownFits'
  BY <1>1 DEF DownFits
<1>. QED BY <1>3, <1>4, <1>5, <1>6, <1>7 DEF Fits

\* Withdrawn, approved or refused: the log is left alone.
LEMMA VoteKeeps == Fits /\ (Withdraw \/ Approve \/ RefuseRewind) => Fits'
<1>. SUFFICES ASSUME Fits, Withdraw \/ Approve \/ RefuseRewind PROVE Fits'
  OBVIOUS
<1>1. /\ doing # "down" /\ doing' # "down" /\ proposal' \in {proposal, NoProposal}
      /\ doing' = "rewind" => proposal' # NoProposal
      /\ UNCHANGED <<session, records, file, save, viewer, lost, made>>
  BY DEF Withdraw, Approve, RefuseRewind, counters
<1>2. NoProposal \in Nat
  BY ReplayAssumption DEF NoProposal
<1>3. LogTypes'
  BY <1>1, <1>2 DEF Fits, LogTypes
<1>4. LogFits'
  BY <1>1 DEF Fits, LogFits
<1>5. ProposalFits' /\ ViewFits' /\ DownFits'
  BY <1>1 DEF Fits, ProposalFits, ViewFits, DownFits
<1>. QED BY <1>3, <1>4, <1>5 DEF Fits

\* A rewind computed from a file without a gap leads to what its target left.
LEMMA FinishRewindKeeps == Fits /\ FinishRewind /\ ~ strayed' => Fits'
<1>. SUFFICES ASSUME Fits, FinishRewind, ~ strayed' PROVE Fits'
  OBVIOUS
<1>1. LogTypes /\ LogFits /\ ProposalFits
  BY DEF Fits
<1>2. /\ doing = "rewind" /\ doing' = "save" /\ session' = Rewound /\ ~lost
      /\ Record(Rewind(proposal, Rewound)) /\ proposal' = NoProposal
      /\ UNCHANGED <<save, viewer>> /\ made' = [made EXCEPT !.rewinds = @ + 1]
  BY DEF FinishRewind
<1>3. PICK d : d = Decisions(records)
  OBVIOUS
<1>4. /\ d \in Seq(Rec) /\ Sound(d) /\ proposal \in 0 .. Len(d) /\ proposal \in Nat
      /\ file.lines = records
  <2>1. Leads(records, session) /\ file = [lines |-> records, whole |-> TRUE]
    BY <1>1, <1>2 DEF LogFits
  <2>2. proposal \in 0 .. Len(d)
    BY <1>1, <1>2, <1>3 DEF ProposalFits
  <2>3. d \in Seq(Rec) /\ proposal \in Nat
    BY <1>1, <1>3, DecisionsType DEF LogTypes
  <2>4. Sound(d)
    BY <1>3, <2>1, Zenon DEF Leads
  <2>. QED BY <2>1, <2>2, <2>3, <2>4
<1>5. Rewound = After(d, proposal) /\ After(d, proposal) \in Nat
  BY <1>3, <1>4, Rebuilding, AfterType, Zenon DEF Rewound
<1>6. PICK r : r = Rewind(proposal, Rewound)
  OBVIOUS
<1>7. /\ r \in Rec /\ r.type = "ov_rewind" /\ r.type # "clock" /\ r.to = proposal
      /\ r.out = Rewound
  BY <1>4, <1>5, <1>6 DEF Rewind, Rec, Start
<1>8. /\ records' \in Seq(Rec) /\ file' \in [lines : Seq(Rec), whole : BOOLEAN]
      /\ Leads(records', r.out)
      /\ ~lost' => ~lost /\ file' = [lines |-> records', whole |-> TRUE]
      /\ ViewFits'
  <2>1. doing # "down" /\ doing' # "down" /\ UNCHANGED viewer /\ Record(r)
    BY <1>2, <1>6
  <2>2. r.to \in 0 .. Len(Decisions(records)) /\ r.out = After(Decisions(records), r.to)
    BY <1>3, <1>4, <1>5, <1>7
  <2>. QED BY <1>7, <2>1, <2>2, Recorded
<1>9. LogTypes'
  <2>1. NoProposal \in Nat
    BY ReplayAssumption DEF NoProposal
  <2>2. session' \in Nat /\ proposal' \in Nat
    BY <1>2, <1>5, <2>1
  <2>3. made' \in [decisions : Nat, rewinds : Nat, clock : Nat, requests : Nat]
    BY <1>1, <1>2 DEF LogTypes
  <2>4. save' = save
    BY <1>2
  <2>. QED BY <1>1, <1>8, <2>2, <2>3, <2>4 DEF LogTypes
<1>10. LogFits'
  BY <1>1, <1>2, <1>7, <1>8 DEF LogFits, Leads
<1>11. ProposalFits' /\ DownFits'
  BY <1>2 DEF ProposalFits, DownFits
<1>. QED BY <1>8, <1>9, <1>10, <1>11 DEF Fits

LEMMA StopKeeps == Fits /\ Stop => Fits'
<1>. SUFFICES ASSUME Fits, Stop PROVE Fits'
  OBVIOUS
<1>1. /\ doing' = "down" /\ session' = Start /\ records' = <<>> /\ proposal' = NoProposal
      /\ viewer' = NoRequest /\ UNCHANGED <<save, made>>
  BY DEF Stop
<1>2. file' \in [lines : Seq(Rec), whole : BOOLEAN]
  <2>1. file \in [lines : Seq(Rec), whole : BOOLEAN]
    BY DEF Fits, LogTypes
  <2>2. \A n \in 0 .. Len(file.lines) - 1 : SubSeq(file.lines, 1, n) \in Seq(Rec)
    <3>1. file.lines \in Seq(Rec)
      BY <2>1
    <3>. QED BY <3>1
  <2>. QED BY <2>1, <2>2 DEF Stop
<1>3. LogTypes'
  <2>1. NoProposal \in Nat /\ Start \in Nat
    BY ReplayAssumption DEF NoProposal, Start
  <2>. QED BY <1>1, <1>2, <2>1 DEF Fits, LogTypes
<1>4. LogFits'
  BY <1>1 DEF Fits, LogFits
<1>5. ProposalFits' /\ ViewFits' /\ DownFits'
  BY <1>1 DEF ProposalFits, ViewFits, DownFits
<1>. QED BY <1>3, <1>4, <1>5 DEF Fits

\* The restored mirror has the decisions of the saved log, kept or rewritten.
LEMMA RestoreAllKeeps == Fits /\ RestoreAll => Fits'
<1>. SUFFICES ASSUME Fits, RestoreAll PROVE Fits'
  OBVIOUS
<1>1. /\ doing = "down" /\ doing' \in {"idle", "save"} /\ session' = save.session
      /\ records' = IF Keepable THEN file.lines ELSE save.log
      /\ file' = [lines |-> records', whole |-> TRUE] \/ (lost' = TRUE /\ file' = file)
      /\ UNCHANGED <<save, proposal, viewer, made>>
  BY DEF RestoreAll
<1>2. /\ save.session \in Nat /\ save.log \in Seq(Rec) /\ file.lines \in Seq(Rec)
      /\ file \in [lines : Seq(Rec), whole : BOOLEAN]
      /\ Leads(save.log, save.session) /\ viewer = NoRequest /\ proposal = NoProposal
  BY <1>1 DEF Fits, LogTypes, LogFits, DownFits
<1>3. records' \in Seq(Rec) /\ Len(Decisions(records')) \in Nat
  <2>1. records' \in Seq(Rec)
    BY <1>1, <1>2
  <2>. QED BY <2>1, DecisionsType
<1>4. Decisions(records') = Decisions(save.log)
  <2>1. CASE Keepable
    <3>1. PICK l \in Seq(Rec) : l = save.log
      BY <1>2
    <3>2. PICK m \in Seq(Rec) : m = file.lines
      BY <1>2
    <3>3. /\ Len(l) <= Len(m) /\ SubSeq(l, 1, Len(l)) = SubSeq(m, 1, Len(l))
          /\ \A i \in Len(l) + 1 .. Len(m) : ~ IsReplayDecision(m[i])
      BY <2>1, <3>1, <3>2, Zenon DEF Keepable, IsPrefix
    <3>4. \A i \in 1 .. Len(l) : l[i] = m[i]
      <4>. SUFFICES ASSUME NEW i \in 1 .. Len(l) PROVE l[i] = m[i]
        OBVIOUS
      <4>1. SubSeq(l, 1, Len(l))[i] = l[i] /\ SubSeq(m, 1, Len(l))[i] = m[i]
        BY <3>3
      <4>. QED BY <3>3, <4>1
    <3>5. Decisions(m) = Decisions(l)
      BY <3>3, <3>4, DecisionsTail
    <3>. QED BY <1>1, <2>1, <3>1, <3>2, <3>5
  <2>2. CASE ~ Keepable
    BY <1>1, <2>2
  <2>. QED BY <2>1, <2>2
<1>5. LogTypes'
  <2>1. file' \in [lines : Seq(Rec), whole : BOOLEAN]
    <3>1. [lines |-> records', whole |-> TRUE] \in [lines : Seq(Rec), whole : BOOLEAN]
      BY <1>3
    <3>. QED BY <1>1, <1>2, <3>1
  <2>2. session' \in Nat /\ UNCHANGED <<save, proposal, made>>
    BY <1>1, <1>2
  <2>. QED BY <1>3, <2>1, <2>2 DEF Fits, LogTypes
<1>6. LogFits'
  <2>1. Leads(records', save.session)
    BY <1>2, <1>4, Zenon DEF Leads
  <2>. QED BY <1>1, <1>2, <2>1 DEF LogFits, Leads
<1>7. ViewFits'
  BY <1>1, <1>2, <1>3, DecisionsNone, IdleFits
<1>8. ProposalFits' /\ DownFits'
  BY <1>1, <1>2 DEF ProposalFits, DownFits
<1>. QED BY <1>5, <1>6, <1>7, <1>8 DEF Fits

-----------------------------------------------------------------------------
(* The viewer. *)

LEMMA ViewerAsksKeeps == Fits /\ ViewerAsks => Fits'
<1>. SUFFICES ASSUME Fits, ViewerAsks PROVE Fits'
  OBVIOUS
<1>1. /\ doing # "down" /\ viewer.pc = "idle"
      /\ viewer' = [viewer EXCEPT !.pc = "read", !.stamp = Len(file.lines),
                                  !.asked = Len(Decisions(file.lines))]
      /\ made' = [made EXCEPT !.requests = @ + 1]
      /\ UNCHANGED <<session, records, file, save, proposal, doing, lost>>
  BY DEF ViewerAsks
<1>2. LogTypes'
  <2>1. LogTypes
    BY DEF Fits
  <2>2. made' \in [decisions : Nat, rewinds : Nat, clock : Nat, requests : Nat]
    <3>1. made \in [decisions : Nat, rewinds : Nat, clock : Nat, requests : Nat]
      BY <2>1 DEF LogTypes
    <3>2. made' = [made EXCEPT !.requests = @ + 1]
      BY <1>1
    <3>. QED BY <3>1, <3>2
  <2>3. UNCHANGED <<session, records, file, save, proposal>>
    BY <1>1
  <2>. QED BY <2>1, <2>2, <2>3 DEF LogTypes
<1>3. LogFits'
  BY <1>1 DEF Fits, LogFits
<1>4. ProposalFits' /\ DownFits'
  BY <1>1 DEF Fits, ProposalFits, DownFits
<1>5. ViewFits'
  <2>. SUFFICES ASSUME ~lost PROVE ViewFits'
    BY <1>1 DEF ViewFits
  <2>1. file.lines = records /\ records \in Seq(Rec)
    BY <1>1 DEF Fits, LogFits, LogTypes
  <2>2. PICK n \in Nat : n = Len(records)
    BY <2>1
  <2>3. PICK m \in Nat : m = Len(Decisions(records))
    BY <2>1, DecisionsType
  <2>4. /\ viewer \in ViewerType /\ CursorFits(viewer.cursor) /\ viewer.cursor.stamp <= n
        /\ viewer.cursor.stamp = n => Len(viewer.cursor.decisions) >= m
    BY <1>1, <2>2, <2>3 DEF Fits, ViewFits
  <2>5. viewer' = [viewer EXCEPT !.pc = "read", !.stamp = n, !.asked = m]
    BY <1>1, <2>1, <2>2, <2>3
  <2>6. /\ viewer' \in ViewerType /\ viewer'.cursor = viewer.cursor
        /\ viewer'.pc = "read" /\ viewer'.stamp = n /\ viewer'.asked = m
    BY <2>4, <2>5 DEF ViewerType
  <2>7. n <= n /\ m <= m
    OBVIOUS
  <2>. QED BY <1>1, <2>2, <2>3, <2>4, <2>6, <2>7 DEF ViewFits, CursorFits
<1>. QED BY <1>2, <1>3, <1>4, <1>5 DEF Fits

\* What a seek leaves fits again, forward or back.
LEMMA SeekFits ==
    ASSUME NEW c, CursorFits(c), NEW n \in 0 .. Len(c.decisions)
    PROVE  /\ CursorFits(Seek(c, n))
           /\ Seek(c, n).decisions = c.decisions /\ Seek(c, n).stamp = c.stamp
<1>1. PICK d \in Seq(Rec) : d = c.decisions
  BY DEF CursorFits, CursorType
<1>2. /\ c \in CursorType /\ Sound(d) /\ c.at \in 0 .. Len(d) /\ c.at \in Nat
      /\ c.session = After(d, c.at) /\ n \in Nat /\ n <= Len(d) /\ 0 <= n /\ n \in 0 .. Len(d)
  BY <1>1 DEF CursorFits
<1>3. After(d, n) \in Nat
  BY <1>2, AfterType
<1>4. n < c.at => Forward(d, 0, Start, n) = After(d, n)
  <2>1. Start = After(d, 0) /\ 0 \in Nat
    BY DEF After
  <2>. QED BY <1>2, <2>1, Forwarding, Zenon
<1>5. ~ (n < c.at) => Forward(d, c.at, c.session, n) = After(d, n)
  <2>1. ~ (n < c.at) => c.at <= n
    BY <1>2
  <2>. QED BY <1>2, <2>1, Forwarding, Zenon
<1>6. Seek(c, n) = [c EXCEPT !.at = n, !.session = After(d, n)]
  BY <1>1, <1>4, <1>5 DEF Seek
<1>7. PICK e : e = Seek(c, n)
  OBVIOUS
<1>8. /\ e \in CursorType /\ e.decisions = d /\ e.stamp = c.stamp /\ e.at = n
      /\ e.session = After(d, n)
  BY <1>1, <1>2, <1>3, <1>6, <1>7 DEF CursorType
<1>. QED BY <1>1, <1>2, <1>7, <1>8 DEF CursorFits

\* The cursor that answers: as it was, brought up to the log, or a new one.
LEMMA CursorIsFit ==
    ASSUME Fits, doing # "down", ~lost, viewer.pc = "read"
    PROVE  /\ CursorFits(Cursor) /\ Cursor.stamp = viewer.stamp
           /\ Len(Cursor.decisions) >= viewer.asked
           /\ viewer.stamp = Len(records) => Len(Cursor.decisions) >= Len(Decisions(records))
<1>1. /\ file.lines = records /\ records \in Seq(Rec) /\ Leads(records, session)
      /\ viewer \in ViewerType /\ CursorFits(viewer.cursor)
      /\ viewer.cursor.stamp = Len(records) =>
           Len(viewer.cursor.decisions) >= Len(Decisions(records))
      /\ viewer.asked <= Len(Decisions(records))
      /\ viewer.cursor.stamp = viewer.stamp => Len(viewer.cursor.decisions) >= viewer.asked
  BY DEF Fits, LogFits, LogTypes, ViewFits
<1>2. PICK c : c = viewer.cursor
  OBVIOUS
<1>3. PICK d : d = Decisions(records)
  OBVIOUS
<1>4. /\ d \in Seq(Rec) /\ Len(d) \in Nat /\ Sound(d) /\ viewer.stamp \in Nat /\ viewer.asked \in Nat
      /\ CursorFits(c) /\ c \in CursorType /\ c.decisions \in Seq(Rec)
  <2>1. Sound(d)
    BY <1>1, <1>3, Zenon DEF Leads
  <2>2. d \in Seq(Rec) /\ Len(d) \in Nat
    BY <1>1, <1>3, DecisionsType
  <2>. QED BY <1>1, <1>2, <2>1, <2>2 DEF ViewerType, CursorFits, CursorType
<1>5. CASE c.stamp = viewer.stamp
  <2>1. Cursor = c
    BY <1>1, <1>2, <1>5, Zenon DEF Cursor
  <2>. QED BY <1>1, <1>2, <1>4, <1>5, <2>1
<1>6. CASE c.stamp # viewer.stamp /\ IsPrefix(c.decisions, d)
  <2>1. Cursor = [c EXCEPT !.stamp = viewer.stamp, !.decisions = d]
    BY <1>1, <1>2, <1>3, <1>6, Zenon DEF Cursor
  <2>2. PICK e : e = Cursor
    OBVIOUS
  <2>3. /\ e \in CursorType /\ e.decisions = d /\ e.stamp = viewer.stamp
        /\ e.at = c.at /\ e.session = c.session
    BY <1>4, <2>1, <2>2 DEF CursorType
  <2>4. PICK a \in Seq(Rec) : a = c.decisions
    BY <1>4
  <2>5. Len(a) <= Len(d) /\ SubSeq(a, 1, Len(a)) = SubSeq(d, 1, Len(a))
    BY <1>6, <2>4, Zenon DEF IsPrefix
  <2>6. \A i \in 1 .. Len(a) : a[i] = d[i]
    <3>. SUFFICES ASSUME NEW i \in 1 .. Len(a) PROVE a[i] = d[i]
      OBVIOUS
    <3>1. SubSeq(a, 1, Len(a))[i] = a[i] /\ SubSeq(d, 1, Len(a))[i] = d[i]
      BY <1>4, <2>5
    <3>. QED BY <2>5, <3>1
  <2>7. c.at \in 0 .. Len(a) /\ c.session = After(a, c.at)
    BY <1>4, <2>4 DEF CursorFits
  <2>8. c.at \in 0 .. Len(d) /\ (c.at = 0 \/ c.at \in 1 .. Len(a))
    BY <1>4, <2>5, <2>7
  <2>9. After(a, c.at) = After(d, c.at)
    BY <2>6, <2>8, Zenon DEF After
  <2>10. CursorFits(e)
    BY <1>4, <2>3, <2>7, <2>8, <2>9 DEF CursorFits
  <2>. QED BY <1>1, <1>3, <1>4, <2>2, <2>3, <2>10
<1>7. CASE c.stamp # viewer.stamp /\ ~ IsPrefix(c.decisions, d)
  <2>1. Cursor = [NoCursor EXCEPT !.stamp = viewer.stamp, !.decisions = d]
    BY <1>1, <1>2, <1>3, <1>7, Zenon DEF Cursor
  <2>2. PICK e : e = Cursor
    OBVIOUS
  <2>3. /\ e \in CursorType /\ e.decisions = d /\ e.stamp = viewer.stamp
        /\ e.at = 0 /\ e.session = Start
    BY <1>4, <2>1, <2>2 DEF CursorType, NoCursor, Start
  <2>4. CursorFits(e)
    BY <1>4, <2>3 DEF CursorFits, After
  <2>. QED BY <1>1, <1>3, <1>4, <2>2, <2>3, <2>4
<1>. QED BY <1>5, <1>6, <1>7

LEMMA ViewerSeesKeeps == Fits /\ ViewerSees => Fits'
<1>. SUFFICES ASSUME Fits, ViewerSees PROVE Fits'
  OBVIOUS
<1>1. PICK n \in Positions :
        viewer' = [viewer EXCEPT !.pc = "idle", !.cursor = Seek(Cursor, Clamp(n, Cursor))]
  BY DEF ViewerSees
<1>2. /\ doing # "down" /\ viewer.pc = "read"
      /\ UNCHANGED <<session, records, file, save, proposal, doing, lost, made>>
  BY DEF ViewerSees, counters
<1>3. LogTypes' /\ LogFits'
  BY <1>2 DEF Fits, LogTypes, LogFits
<1>4. ProposalFits' /\ DownFits'
  BY <1>2 DEF Fits, ProposalFits, DownFits
<1>5. ViewFits'
  <2>. SUFFICES ASSUME ~lost PROVE ViewFits'
    BY <1>2 DEF ViewFits
  <2>1. PICK c : c = Cursor
    OBVIOUS
  <2>2. /\ CursorFits(c) /\ c.stamp = viewer.stamp /\ Len(c.decisions) >= viewer.asked
        /\ viewer.stamp = Len(records) => Len(c.decisions) >= Len(Decisions(records))
    BY <1>2, <2>1, CursorIsFit
  <2>3. Clamp(n, c) \in 0 .. Len(c.decisions)
    <3>1. n \in Nat /\ Len(c.decisions) \in Nat
      BY <2>2, ReplayAssumption DEF CursorFits, CursorType
    <3>. QED BY <3>1 DEF Clamp
  <2>4. PICK e : e = Seek(c, Clamp(n, c))
    OBVIOUS
  <2>5. CursorFits(e) /\ e.decisions = c.decisions /\ e.stamp = c.stamp
    BY <2>2, <2>3, <2>4, SeekFits
  <2>6. viewer \in ViewerType /\ viewer.stamp <= Len(records)
    BY <1>2 DEF Fits, ViewFits
  <2>7. e \in CursorType
    BY <2>5 DEF CursorFits
  <2>8. viewer' = [viewer EXCEPT !.pc = "idle", !.cursor = e]
    BY <1>1, <2>1, <2>4, Zenon
  <2>9. /\ viewer' \in ViewerType /\ viewer'.pc = "idle" /\ viewer'.cursor = e
        /\ viewer'.stamp = viewer.stamp /\ viewer'.asked = viewer.asked
    BY <2>6, <2>7, <2>8 DEF ViewerType
  <2>. QED BY <1>2, <2>2, <2>5, <2>6, <2>9 DEF ViewFits, CursorFits
<1>. QED BY <1>3, <1>4, <1>5 DEF Fits

LEMMA FailKeeps == Fits /\ Fail => Fits'
<1>. SUFFICES ASSUME Fits, Fail PROVE Fits'
  OBVIOUS
<1>1. /\ doing # "down" /\ viewer' = [NoRequest EXCEPT !.cursor = viewer.cursor]
      /\ UNCHANGED <<session, records, file, save, proposal, doing, lost, made>>
  BY DEF Fail, counters
<1>2. LogTypes' /\ LogFits'
  BY <1>1 DEF Fits, LogTypes, LogFits
<1>3. ProposalFits' /\ DownFits'
  BY <1>1 DEF Fits, ProposalFits, DownFits
<1>4. ViewFits'
  <2>. SUFFICES ASSUME ~lost PROVE ViewFits'
    BY <1>1 DEF ViewFits
  <2>1. PICK c : c = viewer.cursor
    OBVIOUS
  <2>2. /\ CursorFits(c) /\ c.stamp <= Len(records) /\ records \in Seq(Rec)
        /\ c.stamp = Len(records) => Len(c.decisions) >= Len(Decisions(records))
    BY <1>1, <2>1 DEF Fits, ViewFits, LogTypes
  <2>3. /\ viewer' \in ViewerType /\ viewer'.cursor = c /\ viewer'.pc = "idle"
        /\ viewer'.stamp = 0 /\ viewer'.asked = 0
    BY <1>1, <2>1, <2>2 DEF CursorFits, ViewerType, NoRequest
  <2>4. Len(c.decisions) >= 0 /\ Len(records) >= 0
    BY <2>2 DEF CursorFits, CursorType
  <2>. QED BY <1>1, <2>2, <2>3, <2>4 DEF ViewFits
<1>. QED BY <1>2, <1>3, <1>4 DEF Fits

LEMMA LogInvariance == LogSpec => []LogInv
<1>1. LogInit => LogInv
  BY LogInitially DEF LogInv
<1>2. LogInv /\ [LogNext]_logVars => LogInv'
  <2>. SUFFICES ASSUME Fits, [LogNext]_logVars, ~ strayed' PROVE Fits'
    <3>1. ~ strayed' /\ [LogNext]_logVars => ~ strayed
      BY DEF LogNext, logVars, counters, Decide, RecordClock, SaveGame, ProposeRewind, Withdraw,
             Approve, FinishRewind, RefuseRewind, Stop, RestoreAll, ViewerAsks, ViewerSees, Fail
    <3>. QED BY <3>1 DEF LogInv
  <2>1. ASSUME NEW to \in 0 .. MaxDecisions + MaxRewinds, ProposeRewind(to) PROVE Fits'
    <3>1. to \in Nat
      BY ReplayAssumption
    <3>. QED BY <2>1, <3>1, ProposeRewindKeeps
  <2>2. CASE UNCHANGED logVars
    <3>1. UNCHANGED <<session, records, file, save, proposal, doing, viewer, lost, made>>
      BY <2>2 DEF logVars
    <3>2. LogTypes' /\ LogFits'
      BY <3>1 DEF Fits, LogTypes, LogFits
    <3>3. ProposalFits' /\ ViewFits' /\ DownFits'
      BY <3>1 DEF Fits, ProposalFits, ViewFits, DownFits
    <3>. QED BY <3>2, <3>3 DEF Fits
  <2>. QED BY <2>1, <2>2, DecideKeeps, RecordClockKeeps, SaveGameKeeps, VoteKeeps, FinishRewindKeeps,
              StopKeeps, RestoreAllKeeps, ViewerAsksKeeps, ViewerSeesKeeps, FailKeeps DEF LogNext
<1>. QED BY <1>1, <1>2, PTL DEF LogSpec

\* The mirror, the save and the file lead to the game, at every position and through
\* rewinds of rewinds, whatever stops or fails when, as long as no rewind was
\* computed from a file with a gap.
THEOREM LogCorrect == LogSpec => []LogIsTheGame
<1>1. ASSUME NEW log \in Seq(Rec), NEW s, Leads(log, s) PROVE Shows(Decisions(log), s)
  <2>1. Decisions(log) \in Seq(Rec) /\ Sound(Decisions(log))
        /\ After(Decisions(log), Len(Decisions(log))) = s
    BY <1>1, DecisionsType DEF Leads
  <2>. QED BY <2>1, Rebuilding, Zenon DEF Shows
<1>2. LogInv => LogIsTheGame
  <2>. SUFFICES ASSUME Fits PROVE LogIsTheGame
    BY DEF LogInv, LogIsTheGame
  <2>1. /\ records \in Seq(Rec) /\ save.log \in Seq(Rec)
        /\ doing # "down" => Leads(records, session)
        /\ Leads(save.log, save.session)
        /\ doing # "down" /\ ~lost => file = [lines |-> records, whole |-> TRUE]
    BY DEF Fits, LogTypes, LogFits
  <2>. QED BY <1>1, <2>1, Zenon DEF LogIsTheGame
<1>. QED BY <1>2, LogInvariance, PTL

\* A viewer sees the game as it was at the position asked for, forward or back and
\* from whatever cursor, and no request misses a decision recorded before it.
THEOREM ViewsCorrect == LogSpec => []ViewsShowThePast
<1>1. LogInv => ViewsShowThePast
  <2>. SUFFICES ASSUME Fits, ~lost PROVE ViewsShowThePast
    BY DEF LogInv, ViewsShowThePast
  <2>1. CASE doing = "down"
    <3>1. viewer = NoRequest
      BY <2>1 DEF Fits, DownFits
    <3>2. /\ viewer.cursor.session = Start /\ viewer.cursor.decisions = <<>>
          /\ viewer.cursor.at = 0 /\ viewer.asked = 0 /\ Len(<<>>) = 0
      BY <3>1 DEF NoRequest, NoCursor
    <3>. QED BY <3>2 DEF ViewsShowThePast, After
  <2>2. CASE doing # "down"
    BY <2>2 DEF Fits, ViewFits, CursorFits, ViewsShowThePast
  <2>. QED BY <2>1, <2>2
<1>. QED BY <1>1, LogInvariance, PTL
=============================================================================
