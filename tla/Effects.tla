-------------------------------- MODULE Effects --------------------------------
(***************************************************************************)
(* The life of active effects: created by the card that is performed,      *)
(* dormant until that card resolves, ended with a turn, a round, a token,  *)
(* a hero or a move of their card, and running what they carry if they end *)
(* on schedule.                                                            *)
(*                                                                         *)
(* An effect is bound to the card in on, if any, or to a token, if token;  *)
(* one that is bound to neither ends with its source. Its kind stands for  *)
(* effect_type and scope.affects, payload for finishing_steps. The fields  *)
(* late, played and astray are history: made after the sweep of its turn,  *)
(* by a card that had yet to resolve, and traded for an item since.        *)
(***************************************************************************)
EXTENDS Integers

CONSTANTS Heroes, Cards, Owner,
          Kinds, Triggers    \* the kinds that fire after the cards are played

Durations == {"turn", "next", "round", "passive"}
Places    == {"deck", "hand", "unresolved", "resolved", "discard", "item", "retired"}
Phases    == {"planning", "revealed", "resolution", "turn over", "round over", "upgrades"}

On == {{}} \cup {{c} : c \in Cards}

Effect == [id : Nat, on : On, token : BOOLEAN, by : Heroes, kind : Kinds,
           duration : Durations, payload : BOOLEAN, active : BOOLEAN,
           round : Nat, turn : 1 .. 4, late : BOOLEAN, played : BOOLEAN, astray : BOOLEAN]

VARIABLES effects,        \* state.active_effects
          place,          \* the state of each card
          flag,           \* card.is_active
          round, turn, phase,
          made,           \* the next id
          ran             \* the payloads put on the stack, and when (history)

vars == <<effects, place, flag, round, turn, phase, made, ran>>
clock == <<round, turn, phase>>

\* Is it time for an effect? It is in force then, if it is active or on no card.
Due(e, r, t) ==
    \/ e.duration = "passive"
    \/ /\ r = e.round
       /\ \/ e.duration = "turn" /\ t = e.turn
          \/ e.duration = "next" /\ t = e.turn + 1
          \/ e.duration = "round"

\* While steps of cards and payloads run.
Acting == phase \in {"resolution", "turn over", "round over"}
Over   == phase \in {"turn over", "round over", "upgrades"}

InPlay == {"hand", "unresolved", "resolved", "discard"}

\* The flags after those of some cards are set by the effects that are left.
Refreshed(left, some) ==
    [c \in Cards |-> IF c \in some THEN \E e \in left : c \in e.on ELSE flag[c]]

Cut(some) == {e \in effects : e.on \cap some = {}}

\* Payloads run unless they belong to triggers, whose moment has passed.
Run(ended) ==
    {[effect |-> e, round |-> round, turn |-> turn] :
        e \in {x \in ended : x.payload /\ x.kind \notin Triggers}}

-----------------------------------------------------------------------------
Init == /\ effects = {} /\ ran = {} /\ made = 0
        /\ place \in [Cards -> {"hand", "deck"}]
        /\ flag = [c \in Cards |-> FALSE]
        /\ round = 1 /\ turn = 1 /\ phase = "planning"

(* Planning and revelation. *)

PlayCard(c) ==
    /\ phase = "planning" /\ place[c] = "hand"
    /\ place' = [place EXCEPT ![c] = "unresolved"]
    /\ UNCHANGED <<effects, flag, clock, made, ran>>

UnplayCard(c) ==
    /\ phase = "planning" /\ place[c] = "unresolved"
    /\ place' = [place EXCEPT ![c] = "hand"]
    /\ UNCHANGED <<effects, flag, clock, made, ran>>

\* The triggers go; those of the last turn of this round run.
Reveal ==
    /\ phase = "planning"
    /\ phase' = "revealed"
    /\ effects' = {e \in effects : e.kind \notin Triggers}
    /\ ran' = ran \cup {[effect |-> e, round |-> round, turn |-> turn] :
                          e \in {x \in effects : /\ x.kind \in Triggers /\ x.payload
                                                 /\ x.round = round /\ turn = x.turn + 1}}
    /\ UNCHANGED <<place, flag, round, turn, made>>

\* One of two revealed cards goes back to the hand.
RetrieveUnresolvedCard(c) ==
    /\ phase = "revealed" /\ place[c] = "unresolved"
    /\ place' = [place EXCEPT ![c] = "hand"]
    /\ UNCHANGED <<effects, flag, clock, made, ran>>

StartResolution ==
    /\ phase = "revealed"
    /\ phase' = "resolution"
    /\ UNCHANGED <<effects, place, flag, round, turn, made, ran>>

-----------------------------------------------------------------------------
(* Effects come and go while steps run. *)

\* A card that already has this effect keeps it as it is; one that does not wait
\* to be resolved gives an effect that is active at once.
CreateEffect(on, token, by, kind, duration, payload, active) ==
    /\ Acting
    /\ token => on = {}
    /\ \A e \in effects : e.on = on /\ e.kind = kind => on = {}
    /\ effects' = effects \cup
         {[id |-> made, on |-> on, token |-> token, by |-> by, kind |-> kind,
           duration |-> duration, payload |-> payload,
           active |-> active \/ \E c \in on : place[c] # "unresolved",
           round |-> round, turn |-> turn, late |-> Over,
           played |-> \E c \in on : place[c] = "unresolved", astray |-> FALSE]}
    /\ flag' = [c \in Cards |-> c \in on \/ flag[c]]
    /\ made' = made + 1
    /\ UNCHANGED <<place, clock, ran>>

\* An effect that is used up.
ExpireEffectById(e) ==
    /\ Acting
    /\ effects' = effects \ {e}
    /\ flag' = Refreshed(effects', e.on)
    /\ UNCHANGED <<place, clock, made, ran>>

\* Effects cancelled by a card or a vote, or gone with the token they start from;
\* no flag is looked at.
CancelEffects(gone) ==
    /\ Acting
    /\ effects' = effects \ gone
    /\ UNCHANGED <<place, flag, clock, made, ran>>

\* The effects on a hero's cards end with it, whoever performed them, as do its
\* own on no card; its turn is over.
DefeatHero(h) ==
    LET Ends(e) == /\ ~e.token
                   /\ IF e.on = {} THEN e.by = h ELSE \E c \in e.on : Owner[c] = h
        ended == {e \in effects : Ends(e)}
    IN  /\ Acting
        /\ effects' = effects \ ended
        /\ flag' = Refreshed(effects', UNION {e.on : e \in ended})
        /\ place' = [c \in Cards |-> IF Owner[c] = h /\ place[c] = "unresolved"
                                     THEN "resolved" ELSE place[c]]
        /\ UNCHANGED <<clock, made, ran>>

-----------------------------------------------------------------------------
(* Cards that change their place: their effects end, unless for an item. *)

Leave(some) ==
    /\ Acting
    /\ effects' = Cut(some)
    /\ flag' = [c \in Cards |-> c \notin some /\ flag[c]]
    /\ UNCHANGED <<clock, made, ran>>

DiscardCard(c) ==
    /\ place[c] \in InPlay \ {"discard"}
    /\ place' = [place EXCEPT ![c] = "discard"]
    /\ Leave({c})

RetrieveCard(c) ==
    /\ place[c] \in InPlay \ {"hand"}
    /\ place' = [place EXCEPT ![c] = "hand"]
    /\ Leave({c})

\* Two cards of a hero in play, or one in play for one of its deck.
SwapCards(c, d) ==
    /\ Owner[c] = Owner[d] /\ c # d
    /\ place[c] \in InPlay /\ place[d] \in InPlay \cup {"deck"}
    /\ place' = [place EXCEPT ![c] = place[d], ![d] = place[c]]
    /\ Leave({c, d})

\* An item for a card: the one step that leaves the effects of both alone.
SwapItemCard(item, c) ==
    /\ Acting
    /\ Owner[item] = Owner[c]
    /\ place[item] = "item" /\ place[c] \in InPlay \cup {"deck"}
    /\ place' = [place EXCEPT ![item] = place[c], ![c] = "item"]
    /\ effects' = {[e EXCEPT !.astray = @ \/ e.on \cap {item, c} # {}] : e \in effects}
    /\ UNCHANGED <<flag, clock, made, ran>>

ConvertCardToItem(c) ==
    /\ Acting /\ place[c] = "retired"
    /\ place' = [place EXCEPT ![c] = "item"]
    /\ UNCHANGED <<effects, flag, clock, made, ran>>

\* The turn of a hero ends: its card resolves and wakes its effects.
FinalizeHeroTurn(c) ==
    /\ phase = "resolution" /\ place[c] = "unresolved"
    /\ place' = [place EXCEPT ![c] = "resolved"]
    /\ effects' = {[e EXCEPT !.active = @ \/ c \in e.on] : e \in effects}
    /\ UNCHANGED <<flag, clock, made, ran>>

-----------------------------------------------------------------------------
(* The ends of turns and rounds. *)

ExpiresThisTurn(e) ==
    /\ ~e.token
    /\ \/ e.duration = "turn"
       \/ e.duration = "next" /\ (round # e.round \/ turn >= e.turn + 1)

ExpiresThisRound(e) == ~e.token /\ e.duration = "round"

\* Everybody has acted.
EndTurn ==
    LET ended == {e \in effects : ExpiresThisTurn(e)}
    IN  /\ phase = "resolution" /\ \A c \in Cards : place[c] # "unresolved"
        /\ phase' = "turn over"
        /\ effects' = effects \ ended
        /\ flag' = Refreshed(effects', UNION {e.on : e \in ended})
        /\ ran' = ran \cup Run(ended)
        /\ UNCHANGED <<place, round, turn, made>>

AdvanceTurn ==
    /\ phase = "turn over" /\ turn < 4
    /\ turn' = turn + 1 /\ phase' = "planning"
    /\ UNCHANGED <<effects, place, flag, round, made, ran>>

\* The effects of the round end before the minion battle.
EndPhase ==
    LET ended == {e \in effects : ExpiresThisRound(e)}
    IN  /\ phase = "turn over" /\ ~turn < 4
        /\ phase' = "round over"
        /\ effects' = effects \ ended
        /\ flag' = Refreshed(effects', UNION {e.on : e \in ended})
        /\ ran' = ran \cup Run(ended)
        /\ UNCHANGED <<place, round, turn, made>>

\* Those made meanwhile go without a word, as do dormant ones and those on the
\* cards on the table; the discard pile comes back without a look at effects.
\* Tokens leave the board unless they persist.
EndPhaseCleanup(gone) ==
    LET ended  == {e \in effects : ExpiresThisRound(e)}
        table  == {c \in Cards : place[c] \in {"resolved", "unresolved"}}
        Stale(e) == e.on # {} /\ e.duration # "passive" /\ ~e.active
        swept  == Refreshed(effects \ ended, UNION {e.on : e \in ended})
    IN  /\ phase = "round over"
        /\ phase' = "upgrades"
        /\ \A e \in gone : e.token
        /\ effects' = {e \in effects \ (ended \cup gone) : ~Stale(e) /\ e.on \cap table = {}}
        /\ flag' = [c \in Cards |-> c \notin table /\ swept[c]]
        /\ place' = [c \in Cards |-> IF c \in table \/ place[c] = "discard"
                                     THEN "hand" ELSE place[c]]
        /\ UNCHANGED <<round, turn, made, ran>>

\* The card old makes way for new, whose pair becomes an item.
ApplyHeroUpgrade(old, new, pair) ==
    /\ phase = "upgrades"
    /\ place[old] = "hand" /\ place[new] = "deck" /\ place[pair] = "deck" /\ new # pair
    /\ place' = [place EXCEPT ![old] = "retired", ![new] = "hand", ![pair] = "item"]
    /\ UNCHANGED <<effects, flag, clock, made, ran>>

RoundReset ==
    /\ phase = "upgrades"
    /\ phase' = "planning" /\ round' = round + 1 /\ turn' = 1
    /\ UNCHANGED <<effects, place, flag, made, ran>>

-----------------------------------------------------------------------------
Comings ==
    \/ \E on \in On, token \in BOOLEAN, by \in Heroes, kind \in Kinds, duration \in Durations,
          payload \in BOOLEAN, active \in BOOLEAN :
            CreateEffect(on, token, by, kind, duration, payload, active)
    \/ \E e \in effects : ExpireEffectById(e)
    \/ \E gone \in SUBSET effects : CancelEffects(gone)
    \/ \E h \in Heroes : DefeatHero(h)

CardMoves ==
    \/ \E c \in Cards : \/ PlayCard(c) \/ UnplayCard(c) \/ RetrieveUnresolvedCard(c)
                        \/ DiscardCard(c) \/ RetrieveCard(c)
                        \/ ConvertCardToItem(c) \/ FinalizeHeroTurn(c)
    \/ \E c, d \in Cards : SwapCards(c, d) \/ SwapItemCard(c, d)
    \/ \E old, new, pair \in Cards : ApplyHeroUpgrade(old, new, pair)

Phasing ==
    \/ Reveal \/ StartResolution \/ EndTurn \/ AdvanceTurn \/ EndPhase \/ RoundReset
    \/ \E gone \in SUBSET effects : EndPhaseCleanup(gone)

Next == Comings \/ CardMoves \/ Phasing

Spec == Init /\ [][Next]_vars

-----------------------------------------------------------------------------
TypeOK ==
    /\ effects \subseteq Effect
    /\ place \in [Cards -> Places]
    /\ flag \in [Cards -> BOOLEAN]
    /\ round \in Nat /\ turn \in 1 .. 4 /\ phase \in Phases /\ made \in Nat
    /\ ran \subseteq [effect : Effect, round : Nat, turn : 1 .. 4]

\* An effect is dormant only as long as its card waits to be resolved: none is
\* left that nothing will ever wake, but for a card traded for an item.
DormantAwaits ==
    \A e \in effects : ~e.active /\ ~e.astray => \A c \in e.on : place[c] = "unresolved"

\* A card has one instance of an effect, however often it is performed.
OneInstance ==
    \A e, f \in effects : e.on = f.on /\ e.kind = f.kind /\ e.on # {} => e = f

\* A card that has an effect is marked (the converse may fail).
MarkedWhileItLasts == \A e \in effects : \A c \in e.on : flag[c]

\* The effects of a card that was played end with the round, whatever their
\* duration, and the card never leaves the table before, but for a trade.
EndsWithItsRound ==
    \A e \in effects : e.played /\ ~e.astray =>
        \A c \in e.on : e.round = round /\ place[c] \in {"unresolved", "resolved"}

\* The sweeps agree with the times effects are in force: whatever is left is due
\* now or later in this round, or belongs to a token, or is late, as below.
NoLeftovers ==
    \A e \in effects : \/ \E t \in turn .. 4 : Due(e, round, t)
                       \/ e.token \/ e.late \/ (e.duration = "next" /\ e.turn = 4)

\* What an effect carries runs once, if at all, and in its time: at the end of
\* its turn, of the next turn or of its round, or after the cards of the next
\* turn are played. Two kinds are late: those made after the sweep of their
\* turn, and those for the turn after the last.
PayloadsInTime ==
    /\ \A r \in ran : \A e \in effects : e.id # r.effect.id
    /\ \A r, s \in ran : r.effect.id = s.effect.id => r = s
    /\ \A r \in ran :
         LET e == r.effect
         IN  IF e.kind \in Triggers THEN r.round = e.round /\ r.turn = e.turn + 1
             ELSE \/ e.duration = "turn" /\ (e.late \/ (r.round = e.round /\ r.turn = e.turn))
                  \/ /\ e.duration = "next"
                     /\ e.turn = 4 \/ (r.round = e.round /\ r.turn = e.turn + 1)
                  \/ e.duration = "round" /\ r.round = e.round
=============================================================================
