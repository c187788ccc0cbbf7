------------------------------ MODULE Rollback -------------------------------
(***************************************************************************)
(* The rollback of a player's own choices (src/src/goa2/engine/session.py, *)
(* server/ws.py, engine/persistence.py): the session snapshots the table   *)
(* at a prompt of the resolution owner and drops the snapshot at the       *)
(* boundaries a rollback must not cross.  A hero's action is reduced to    *)
(* the prompts and the reveals that happen in it.                          *)
(***************************************************************************)
EXTENDS Naturals, FiniteSets

CONSTANTS
    Heroes,       \* heroes of the match
    MaxEvents,    \* bound: prompts and reveals of one action or payload
    MaxPayloads,  \* bound: payloads at the end of a turn
    MaxTurns      \* bound: turns of the match

Nobody == "nobody"
Team   == "team"

ASSUME RollbackAssumption ==
    /\ IsFiniteSet(Heroes) /\ {Nobody, Team} \cap Heroes = {}
    /\ MaxEvents \in Nat /\ MaxPayloads \in Nat /\ MaxTurns \in Nat

VARIABLES
    table,      \* GameState
    running,    \* process_stack is at work
    prompt,     \* last_result.input_request
    snap,       \* _rollback_snapshot
    snapOwner,  \* _rollback_actor_id
    since       \* history: what a rollback to the snapshot would undo

vars == <<table, running, prompt, snap, snapOwner, since>>

\* at: what the engine does, or waits for; todo: heroes who committed and did
\* not act; payloads: those still to run; events: of this action so far.
Table == [at : {"planning", "next", "tie", "act", "text", "confirm", "confirmed", "between", "payload"},
          owner : Heroes \cup {Nobody}, actor : Heroes \cup {Nobody},
          pending : BOOLEAN, frozen : BOOLEAN, todo : SUBSET Heroes,
          payloads : 0 .. MaxPayloads, events : 0 .. MaxEvents, turn : 1 .. MaxTurns + 1]

\* A request: whom it is addressed to, whom they control, and can_rollback.
Request(to, for) == [to |-> to, for |-> for, can |-> FALSE]
NoPrompt == Request(Nobody, Nobody)

NoSnap == [table |-> [at |-> "none"], prompt |-> NoPrompt]

\* _resolution_owner_id, _is_owner_input
Owner(t) == IF t.owner # Nobody THEN t.owner ELSE t.actor
Native(t, p) == Owner(t) \in {p.to, p.for}

Forget == snap' = NoSnap /\ snapOwner' = Nobody

-----------------------------------------------------------------------------
(* The engine stops: _manage_rollback. *)

\* The snapshot survives only in its own segment.
\* Mutant: whoever owns it.
MutKept(t) == snap # NoSnap /\ ~ t.pending

Kept(t) == snap # NoSnap /\ ~ t.pending /\ snapOwner = Owner(t)

\* The engine asks: p is its request, t the table as the step left it; `what'
\* can no longer be undone.
\* Mutant: a prompt of another player is no boundary.
MutAsk(t, p, what) ==
    /\ running' = FALSE
    /\ IF t.actor # Nobody /\ ~ t.frozen /\ Native(t, p) /\ Kept(t)
       THEN /\ prompt' = [p EXCEPT !.can = TRUE] /\ table' = t
            /\ since' = since \cup what /\ UNCHANGED <<snap, snapOwner>>
       ELSE IF t.actor # Nobody /\ ~ t.frozen /\ Native(t, p) /\ t.at # "confirm"
            THEN /\ table' = [t EXCEPT !.pending = FALSE]
                 /\ snap' = [table |-> table', prompt |-> p] /\ snapOwner' = Owner(t)
                 /\ since' = {} /\ prompt' = [p EXCEPT !.can = TRUE]
            ELSE table' = t /\ prompt' = p /\ UNCHANGED <<snap, snapOwner, since>>

Ask(t, p, what) ==
    /\ running' = FALSE
    /\ IF t.actor = Nobody \/ t.frozen
       THEN Forget /\ table' = t /\ prompt' = p /\ UNCHANGED since
       ELSE IF ~ Native(t, p)
       THEN Forget /\ table' = [t EXCEPT !.pending = TRUE] /\ prompt' = p /\ UNCHANGED since
       ELSE IF Kept(t)
       THEN /\ prompt' = [p EXCEPT !.can = TRUE] /\ table' = t
            /\ since' = since \cup what /\ UNCHANGED <<snap, snapOwner>>
       ELSE IF t.at = "confirm"
       THEN Forget /\ table' = t /\ prompt' = p /\ UNCHANGED since
       ELSE /\ table' = [t EXCEPT !.pending = FALSE]
            /\ snap' = [table |-> table', prompt |-> p] /\ snapOwner' = Owner(t)
            /\ since' = {} /\ prompt' = [p EXCEPT !.can = TRUE]

\* The engine runs dry: a snapshot goes only with the actor.
Idle(t) ==
    /\ running' = FALSE /\ table' = t /\ prompt' = NoPrompt /\ UNCHANGED since
    /\ IF t.actor = Nobody THEN Forget ELSE UNCHANGED <<snap, snapOwner>>

\* The engine goes on; `what' can no longer be undone.
Run(t, what) ==
    /\ running' = TRUE /\ table' = t /\ prompt' = NoPrompt
    /\ since' = IF snap = NoSnap THEN {} ELSE since \cup what
    /\ UNCHANGED <<snap, snapOwner>>

-----------------------------------------------------------------------------
(* The engine at work. *)

At(where) == running /\ table.at = where
InText    == running /\ table.at \in {"text", "payload"}

Another == InText /\ table.events < MaxEvents

OneMore(t) == [t EXCEPT !.events = @ + 1]

\* The owner is asked, or the hero who controls the owner (Hanu's ultimate).
AskOwner(t) ==
    \/ Ask(t, Request(t.owner, Nobody), {})
    \/ \E h \in Heroes \ {t.owner} : Ask(t, Request(h, t.owner), {})

\* A hero who acts respawns or chooses an action.
Act == At("act") /\ AskOwner([table EXCEPT !.at = "text"])

\* A step needs a choice, of the owner, in the owner's own turn of the
\* hero who controls the owner, of another hero or of a team.
Choice ==
    /\ Another
    /\ \E to \in Heroes \cup {Team}, for \in {Nobody, table.owner} :
         /\ for # Nobody => to \in Heroes \ {table.owner}
         /\ Ask(OneMore(table), Request(to, for), {})

\* A hidden card, mine or guess is revealed.
Reveal == Another /\ Run([OneMore(table) EXCEPT !.pending = TRUE], {"reveal"})

TextEnds == At("text") /\ Run([table EXCEPT !.at = "confirm"], {})

\* ConfirmResolutionStep.
Confirm ==
    /\ At("confirm")
    /\ IF table.frozen \/ table.pending
       THEN Run([table EXCEPT !.at = "confirmed"], {})
       ELSE AskOwner(table)

\* FinalizeHeroTurnStep clears the context, its flags and the actor.
Finalize ==
    /\ At("confirmed")
    /\ Run([table EXCEPT !.at = "next", !.owner = Nobody, !.actor = Nobody,
                         !.pending = FALSE, !.frozen = FALSE], {"ended"})

Starting(h) == [table EXCEPT !.at = "act", !.owner = h, !.actor = h, !.events = 0,
                             !.todo = @ \ {h}]

\* FindNextActorStep; a tie that is not settled by the coin is a team's choice.
NextActor ==
    /\ At("next") /\ table.todo # {}
    /\ \/ \E h \in table.todo : Run(Starting(h), {})
       \/ /\ Cardinality(table.todo) > 1
          /\ Ask([table EXCEPT !.at = "tie"], Request(Team, Nobody), {})

Winner == At("tie") /\ \E h \in table.todo : Run(Starting(h), {})

Planning(t) == [t EXCEPT !.at = "planning", !.turn = @ + 1]

\* end_turn: the turn advances at once, or after the payloads of the effects
\* that end with it; each of them sets its source as the actor.
EndTurn ==
    /\ At("next") /\ table.todo = {}
    /\ \/ Idle(Planning(table))
       \/ \E n \in 1 .. MaxPayloads : Run([table EXCEPT !.at = "between", !.payloads = n], {})

Payload ==
    /\ At("between") /\ table.payloads > 0
    /\ \E h \in Heroes : Run([table EXCEPT !.at = "payload", !.actor = h, !.events = 0,
                                           !.payloads = @ - 1], {})

PayloadEnds == At("payload") /\ Run([table EXCEPT !.at = "between"], {"ended"})

AdvanceTurn == At("between") /\ table.payloads = 0 /\ Idle(Planning(table))

Engine ==
    \/ Act \/ Choice \/ Reveal \/ TextEnds \/ Confirm \/ Finalize \/ NextActor \/ Winner
    \/ EndTurn \/ Payload \/ PayloadEnds \/ AdvanceTurn

-----------------------------------------------------------------------------
(* Players, clocks and bots. *)

Waits == ~ running /\ prompt # NoPrompt

Answered(t) == [t EXCEPT !.at = IF @ = "confirm" THEN "confirmed" ELSE @]

\* SUBMIT_INPUT by whom the request is addressed to, or by one of the team.
Answer(h) ==
    /\ Waits /\ prompt.to \in {h, Team}
    /\ Run(Answered(table), IF Native(table, prompt) THEN {} ELSE {"foreign"})

\* A deadline or a bot answers: rollback is frozen.
Automatic ==
    /\ Waits
    /\ running' = TRUE /\ prompt' = NoPrompt /\ since' = {}
    /\ table' = [Answered(table) EXCEPT !.frozen = TRUE] /\ Forget

\* COMMIT_CARD; the last one ends the planning.
Commit(h) ==
    /\ ~ running /\ table.at = "planning" /\ table.turn <= MaxTurns /\ h \notin table.todo
    /\ LET t    == [table EXCEPT !.todo = @ \cup {h}]
           what == IF snapOwner \in {h, Nobody} THEN {} ELSE {"foreign"}
       IN  IF t.todo = Heroes THEN Run([t EXCEPT !.at = "next"], what)
           ELSE /\ table' = t /\ since' = since \cup what
                /\ UNCHANGED <<running, prompt, snap, snapOwner>>

\* current_responder
Responder == IF prompt # NoPrompt THEN prompt.to ELSE table.actor

\* What _handle_rollback and rollback ask for.
Allowed(h) == ~ running /\ table.actor # Nobody /\ Responder = h /\ ~ table.frozen
Restorable == ~ table.pending /\ snap # NoSnap /\ snapOwner = Owner(table)

\* ROLLBACK: the table of the snapshot asks its request again; a snapshot that
\* cannot be used is scrubbed.
Rollback(h) ==
    /\ Allowed(h) /\ snap # NoSnap
    /\ IF Restorable
       THEN /\ table' = snap.table /\ prompt' = [snap.prompt EXCEPT !.can = TRUE]
            /\ since' = {} /\ UNCHANGED <<running, snap, snapOwner>>
       ELSE Forget /\ since' = {} /\ UNCHANGED <<table, running, prompt>>

\* What the table approved, outside planning (apply_override_decision): no way of
\* it drops the snapshot.  The pending step asks again, on a changed board, of the
\* hero itself when the control over it is gone, or with another actor.
Patch ==
    /\ Waits
    /\ LET asked == Request(IF prompt.for # Nobody THEN prompt.for ELSE prompt.to, Nobody)
       IN  \/ \E p \in {[prompt EXCEPT !.can = FALSE], asked} : Ask(table, p, {"override"})
           \/ \E h \in Heroes :
                 Ask([table EXCEPT !.owner = h, !.actor = h], asked, {"override"})

\* There is nothing left to ask for, the request is skipped, or the action is
\* aborted.  An abort of a tie leaves nothing on the stack.
Unstick ==
    /\ Waits
    /\ \/ Run(Answered(table), {"override"})
       \/ table.at = "tie" /\ Idle(table)

\* The stack is discarded for the actor's FinalizeHeroTurnStep or, when nobody
\* acts, for FindNextActorStep.
ForceEnd ==
    /\ ~ running /\ table.at # "planning"
    /\ LET t == [table EXCEPT !.payloads = 0]
       IN  IF table.actor # Nobody THEN Run([t EXCEPT !.at = "confirmed"], {"override"})
           ELSE Run([t EXCEPT !.at = "next", !.pending = FALSE, !.frozen = FALSE], {"override"})

\* The server restarts: the save holds the table and the snapshot; the request
\* is asked again (reapply_rollback_flag).
Restart ==
    /\ Waits
    /\ prompt' = [prompt EXCEPT !.can = ~ table.frozen /\ Restorable /\ Native(table, prompt)]
    /\ IF table.pending /\ ~ table.frozen THEN Forget ELSE UNCHANGED <<snap, snapOwner>>
    /\ UNCHANGED <<table, running, since>>

-----------------------------------------------------------------------------

Init ==
    /\ table = [at |-> "planning", owner |-> Nobody, actor |-> Nobody, pending |-> FALSE,
                frozen |-> FALSE, todo |-> {}, payloads |-> 0, events |-> 0, turn |-> 1]
    /\ running = FALSE /\ prompt = NoPrompt
    /\ snap = NoSnap /\ snapOwner = Nobody /\ since = {}

Players == \E h \in Heroes : Answer(h) \/ Commit(h) \/ Rollback(h)

Overrides == Patch \/ Unstick \/ ForceEnd

Next == Engine \/ Players \/ Overrides \/ Automatic \/ Restart

Spec == Init /\ [][Next]_vars

-----------------------------------------------------------------------------
(* Properties. *)

\* While the action in which the snapshot was taken is open, a rollback undoes
\* no choice of another player, no reveal and no automatic choice; what the table
\* voted meanwhile is the one thing it can take back.
OwnChoicesOnly ==
    \A h \in Heroes :
        Allowed(h) /\ Restorable /\ "ended" \notin since => since \subseteq {"override"}

\* A prompt offers a rollback exactly when asking for it would succeed, after a
\* restart too.
OfferIsHonoured ==
    Waits => (prompt.can <=> table.actor # Nobody /\ ~ table.frozen /\ Restorable)
=============================================================================
