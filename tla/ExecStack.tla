------------------------------ MODULE ExecStack ------------------------------
(***************************************************************************)
(* The execution stack of the engine (src/src/goa2/engine/handler.py): the *)
(* steps of a hero's turn, the attacks, performed actions, forced moves    *)
(* and Wishes its texts spawn, and what an abort clears.  A step of a card *)
(* text that is no frame of its own here is part of its "text" frame.      *)
(***************************************************************************)
EXTENDS Naturals, Sequences, FiniteSets

CONSTANTS
    Heroes,       \* heroes of the match
    MaxAttacks,   \* bound: attacks of one turn
    MaxNested,    \* bound: nested actions of one turn
    MaxPayloads   \* bound: effects that end with the turn and have steps

Nobody == "nobody"

ASSUME StackAssumption ==
    /\ IsFiniteSet(Heroes) /\ Nobody \notin Heroes
    /\ MaxAttacks \in Nat /\ MaxNested \in Nat /\ MaxPayloads \in Nat

VARIABLES
    stack,     \* execution_stack, the step to resolve next first
    owner,     \* hero whose turn it is
    actor,     \* current_actor_id
    saved,     \* execution_context: actors the SetActorSteps saved
    depth,     \* length of action_context_stack
    victim,    \* execution_context: the attack that chose the current victim
    defender,  \* execution_context: defender_id
    primary,   \* execution_context: a primary defense card was played
    todo,      \* heroes still to act (unresolved_hero_ids)
    nested,    \* nested actions of this turn
    windows,   \* history: attacks of this turn, how their windows were answered
    fought,    \* history: attacks of this turn whose combat was resolved, and by whom
    wishes,    \* history: Wishes begun and not yet checked for victory
    over       \* AdvanceTurnStep was resolved

contextVars == <<saved, depth, victim, defender, primary>>
vars == <<stack, owner, actor, contextVars, todo, nested, windows, fought, wishes, over>>

Keys == {"defense", "onblock", "forced"}

\* A step of the stack: its kind, its attack (0 if none), its variant if it has any.
Frame(kind, n, how) == [kind |-> kind, n |-> n, how |-> how]
Step(kind)          == Frame(kind, 0, "plain")

Top       == Head(stack)
Pushed(s) == s \o Tail(stack)
On(kind)  == stack # <<>> /\ Top.kind = kind

-----------------------------------------------------------------------------
(* Aborts: _clear_after_abort, applied to the stack below the step. *)

\* Steps no abort removes.
\* Mutant: the end of a payload is not one of them.
MutBoundary(f) == f.kind \in {"confirm", "finalize", "wish"}

Boundary(f) == f.kind \in {"confirm", "finalize", "finished", "wish"}

OthersEnd(f) == f.kind = "restore" /\ f.how = "other"

\* The first of some positions of s, or one past the end.
FirstOf(s, hits) ==
    IF hits = {} THEN Len(s) + 1 ELSE CHOOSE i \in hits : \A j \in hits : i <= j

Combats(s) == {i \in DOMAIN s : Boundary(s[i]) \/ s[i].kind = "combat"}
Stops(s)   == {i \in DOMAIN s : Boundary(s[i]) \/ OthersEnd(s[i])}

\* _clear_to_pending_combat: position to stop at, 0 if no combat is pending.
\* Mutant: at the combat, not at the step that restores its attacker.
MutPendingCombat(s) ==
    LET i == FirstOf(s, Combats(s))
    IN  IF ~ primary \/ i > Len(s) \/ Boundary(s[i]) THEN 0 ELSE i

PendingCombat(s) ==
    LET i == FirstOf(s, Combats(s))
    IN  IF ~ primary \/ i > Len(s) \/ Boundary(s[i]) THEN 0
        ELSE IF i > 1 /\ s[i - 1] = Frame("leave", 0, "defense") THEN i - 1 ELSE i

\* _discard_aborted_step: the saved contexts left when the first k are dropped.
\* Mutant: a restore that is dropped restores nothing.
MutUnwound(s, k) == depth

Unwound(s, k) ==
    LET restores == Cardinality({i \in 1 .. k : s[i].kind = "restore"})
    IN  IF restores > depth THEN 0 ELSE depth - restores

Abort ==
    LET s == Tail(stack)
        c == PendingCombat(s)
        i == IF c # 0 THEN c ELSE FirstOf(s, Stops(s))
    IN  /\ stack' = SubSeq(s, i, Len(s))
        /\ depth' = IF c # 0 \/ (i <= Len(s) /\ OthersEnd(s[i])) THEN Unwound(s, i - 1) ELSE 0

-----------------------------------------------------------------------------
(* Card texts. *)

OnText(how) == On("text") /\ Top.how = how

\* A text ends; or a mandatory step of it cannot be done.
TextEnds ==
    /\ On("text") /\ stack' = Tail(stack)
    /\ UNCHANGED <<owner, actor, contextVars, todo, nested, windows, fought, wishes, over>>

TextAborts ==
    /\ On("text") /\ Top.how # "onblock" /\ Abort
    /\ UNCHANGED <<owner, actor, saved, victim, defender, primary, todo, nested, windows,
                   fought, wishes, over>>

\* Texts of the acting hero go on after an attack or a nested action.
Nest(s) == nested < MaxNested /\ nested' = nested + 1 /\ stack' = s \o stack

Attack ==
    /\ OnText("own") /\ Len(windows) < MaxAttacks
    /\ windows' = Append(windows, "none")
    /\ \E how \in {"mandatory", "optional"} :
         stack' = <<Frame("attack", Len(windows'), how)>> \o stack
    /\ UNCHANGED <<owner, actor, contextVars, todo, nested, fought, wishes, over>>

\* PerformPrimaryActionStep, PerformCardActionStep, by whoever acts.
Perform ==
    /\ \E how \in {"own", "defense", "forced"} :
         OnText(how) /\ Nest(<<Frame("text", 0, how), Frame("restore", 0, "own")>>)
    /\ depth' = depth + 1
    /\ UNCHANGED <<owner, actor, saved, victim, defender, primary, todo, windows, fought,
                   wishes, over>>

\* ForceDefenseCardMovementStep: the defender moves as their own card says.
ForceMove ==
    /\ OnText("own") /\ defender # Nobody
    /\ Nest(<<Frame("enter", 0, "forced"), Frame("text", 0, "forced"),
              Frame("restore", 0, "other"), Frame("leave", 0, "forced")>>)
    /\ depth' = depth + 1
    /\ UNCHANGED <<owner, actor, saved, victim, defender, primary, todo, windows, fought,
                   wishes, over>>

\* WishSequenceStep begins: a spell is performed, then the Wishes are counted.
CastWish ==
    /\ OnText("own")
    /\ Nest(<<Frame("text", 0, "own"), Frame("restore", 0, "own"), Step("wish")>>)
    /\ depth' = depth + 1 /\ wishes' = wishes + 1
    /\ UNCHANGED <<owner, actor, saved, victim, defender, primary, todo, windows, fought, over>>

-----------------------------------------------------------------------------
(* An attack: AttackSequenceStep and the steps it expands to. *)

Exchange(n) ==
    <<Frame("window", n, "plain"), Frame("deftext", n, "plain"), Frame("combat", n, "plain"),
      Frame("onblock", n, "plain")>>

Expand ==
    /\ On("attack")
    /\ LET n == Top.n
           choose == <<Frame("select", n, Top.how)>>
       IN  stack' = Pushed(CASE Top.how = "mandatory" -> choose \o Exchange(n)
                             [] Top.how = "optional"  -> choose \o <<Frame("attack", n, "chosen")>>
                             [] OTHER                 -> IF victim = n THEN Exchange(n) ELSE <<>>)
    /\ UNCHANGED <<owner, actor, contextVars, todo, nested, windows, fought, wishes, over>>

\* SelectStep: a target is chosen; an optional choice may be declined, and a
\* mandatory one aborts when there is no candidate.
Select ==
    /\ On("select")
    /\ \/ victim' = Top.n /\ stack' = Tail(stack) /\ UNCHANGED depth
       \/ Top.how = "optional" /\ victim' = 0 /\ stack' = Tail(stack) /\ UNCHANGED depth
       \/ Top.how = "mandatory" /\ Abort /\ UNCHANGED victim
    /\ UNCHANGED <<owner, actor, saved, defender, primary, todo, nested, windows, fought,
                   wishes, over>>

\* ReactionWindowStep: the victim passes or is a minion, or plays a card.
Window ==
    /\ On("window")
    /\ \E answer \in {"passed", "secondary", "primary"}, h \in Heroes \ {owner} :
         /\ primary' = (answer = "primary") /\ defender' = h
         /\ windows' = [windows EXCEPT ![Top.n] = answer]
    /\ stack' = Tail(stack)
    /\ UNCHANGED <<owner, actor, saved, depth, victim, todo, nested, fought, wishes, over>>

\* Text by the defender, wrapped so that the defender acts.
AsDefender(how) == <<Frame("enter", 0, how), Frame("text", 0, how), Frame("leave", 0, how)>>

DefenseText ==
    /\ On("deftext")
    /\ stack' = Pushed(IF primary THEN AsDefender("defense") ELSE <<>>)
    /\ UNCHANGED <<owner, actor, contextVars, todo, nested, windows, fought, wishes, over>>

\* ResolveCombatStep, and ResolveOnBlockEffectStep after a block.
Combat ==
    /\ On("combat")
    /\ fought' = IF victim = 0 THEN fought ELSE fought \cup {<<Top.n, actor>>}
    /\ stack' = Tail(stack)
    /\ UNCHANGED <<owner, actor, contextVars, todo, nested, windows, wishes, over>>

OnBlock ==
    /\ On("onblock")
    /\ \/ stack' = Tail(stack)
       \/ primary /\ victim # 0 /\ stack' = Pushed(AsDefender("onblock"))
    /\ UNCHANGED <<owner, actor, contextVars, todo, nested, windows, fought, wishes, over>>

\* SetActorStep: the defender acts; whoever acted before acts again.
Enter ==
    /\ On("enter")
    /\ saved' = [saved EXCEPT ![Top.how] = actor] /\ actor' = defender
    /\ stack' = Tail(stack)
    /\ UNCHANGED <<owner, depth, victim, defender, primary, todo, nested, windows, fought,
                   wishes, over>>

Leave ==
    /\ On("leave")
    /\ actor' = IF saved[Top.how] = Nobody THEN actor ELSE saved[Top.how]
    /\ stack' = Tail(stack)
    /\ UNCHANGED <<owner, contextVars, todo, nested, windows, fought, wishes, over>>

-----------------------------------------------------------------------------
(* Steps that end an action, a turn or a payload. *)

Restore ==
    /\ On("restore") /\ stack' = Tail(stack)
    /\ depth' = IF depth = 0 THEN 0 ELSE depth - 1
    /\ UNCHANGED <<owner, actor, saved, victim, defender, primary, todo, nested, windows,
                   fought, wishes, over>>

WishChecked ==
    /\ On("wish") /\ stack' = Tail(stack) /\ wishes' = wishes - 1
    /\ UNCHANGED <<owner, actor, contextVars, todo, nested, windows, fought, over>>

Confirm ==
    /\ On("confirm") /\ stack' = Tail(stack)
    /\ UNCHANGED <<owner, actor, contextVars, todo, nested, windows, fought, wishes, over>>

NoContext ==
    /\ saved' = [k \in Keys |-> Nobody] /\ depth' = 0 /\ victim' = 0
    /\ defender' = Nobody /\ primary' = FALSE

\* FinalizeHeroTurnStep clears the context; the next actor is looked for.
Finalize ==
    /\ On("finalize") /\ stack' = Pushed(<<Step("next")>>)
    /\ NoContext /\ owner' = Nobody /\ actor' = Nobody
    /\ nested' = 0 /\ windows' = <<>> /\ fought' = {}
    /\ UNCHANGED <<todo, wishes, over>>

Payload == <<Step("source"), Frame("text", 0, "payload"), Step("finished")>>

\* n payloads, one after the other.
Payloads(n) == [i \in 1 .. 3 * n |-> Payload[1 + ((i - 1) % 3)]]

\* FindNextActorStep: a hero's turn, or the end of the turn.
NextActor ==
    /\ On("next")
    /\ IF todo = {}
       THEN /\ \E n \in 0 .. MaxPayloads :
                 stack' = Pushed(Payloads(n) \o <<Step("advance")>>)
            /\ UNCHANGED <<owner, actor, todo>>
       ELSE \E h \in todo :
              /\ todo' = todo \ {h} /\ owner' = h /\ actor' = h
              /\ stack' = Pushed(<<Frame("text", 0, "own"), Step("confirm"), Step("finalize")>>)
    /\ UNCHANGED <<contextVars, nested, windows, fought, wishes, over>>

PayloadStep ==
    /\ \/ On("source") /\ \E h \in Heroes : actor' = h
       \/ On("finished") /\ UNCHANGED actor
    /\ stack' = Tail(stack)
    /\ UNCHANGED <<owner, contextVars, todo, nested, windows, fought, wishes, over>>

Advance ==
    /\ On("advance") /\ stack' = Tail(stack) /\ over' = TRUE
    /\ UNCHANGED <<owner, actor, contextVars, todo, nested, windows, fought, wishes>>

-----------------------------------------------------------------------------

Init ==
    /\ stack = <<Step("next")>> /\ owner = Nobody /\ actor = Nobody
    /\ saved = [k \in Keys |-> Nobody] /\ depth = 0 /\ victim = 0
    /\ defender = Nobody /\ primary = FALSE
    /\ todo = Heroes /\ nested = 0 /\ windows = <<>> /\ fought = {} /\ wishes = 0
    /\ over = FALSE

Texts == TextEnds \/ TextAborts \/ Attack \/ Perform \/ ForceMove \/ CastWish

Exchanges == Expand \/ Select \/ Window \/ DefenseText \/ Combat \/ OnBlock \/ Enter \/ Leave

Ends == Restore \/ WishChecked \/ Confirm \/ Finalize \/ NextActor \/ PayloadStep \/ Advance

Next == Texts \/ Exchanges \/ Ends

Spec == Init /\ [][Next]_vars

-----------------------------------------------------------------------------
(* Properties. *)

\* The engine runs dry only when every hero acted, every Wish was checked and
\* the turn advanced: no abort takes those steps away.
RunsToTheEnd == stack = <<>> => todo = {} /\ over /\ wishes = 0

\* A saved action context always has the step that restores it on the stack:
\* no text runs in the context of an action that was cancelled.
ContextsUnwound ==
    depth <= Cardinality({i \in DOMAIN stack : stack[i].kind = "restore"})

\* An attack answered with a primary defense has its combat resolved, whatever
\* aborts in the defender's text, and by the attacker.
DefendedAttackIsFought ==
    /\ \A n \in DOMAIN windows : windows[n] = "primary" =>
          \/ \E i \in DOMAIN stack : stack[i] = Frame("combat", n, "plain")
          \/ \E h \in Heroes : <<n, h>> \in fought
    /\ \A f \in fought : f[2] = owner

=============================================================================
