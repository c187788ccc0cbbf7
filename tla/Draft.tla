------------------------------- MODULE Draft --------------------------------
(***************************************************************************)
(* The draft before a match (src/src/goa2/draft/service.py and modes.py,   *)
(* src/src/goa2/server/routes_draft.py): players join a lobby and take     *)
(* sides, captains ban and pick heroes in an order fixed at the start, and *)
(* every player claims one of the team's heroes.  Each request runs under  *)
(* the lock of its draft, so a request is one step.                        *)
(***************************************************************************)
EXTENDS Naturals, Sequences, SequencesExt, FiniteSetsExt

CONSTANTS
    MaxPlayers,     \* size of a lobby (code: 6)
    Totals,         \* sizes of a match (code: 2, 4, 5, 6)
    Roster,         \* the heroes allowed by each star cap
    FullStars,      \* the cap that allows all of them (code: 4)
    ChaosMin,       \* smallest team of a chaos draft (code: 2)
    ChaosUnused,    \* heroes a chaos draft leaves over (code: 4)
    NoHero

ASSUME DraftAssumption ==
    /\ MaxPlayers \in Nat \ {0} /\ Totals \subseteq 1 .. MaxPlayers
    /\ FullStars \in DOMAIN Roster /\ NoHero \notin Roster[FullStars]
    /\ IsFiniteSet(Roster[FullStars])
    /\ \A c \in DOMAIN Roster : Roster[c] \subseteq Roster[FullStars]
    /\ ChaosMin \in Nat \ {0} /\ ChaosUnused \in Nat

Sides     == {"red", "blue"}
Players   == 1 .. MaxPlayers    \* in the order in which they join
AllHeroes == Roster[FullStars]
Modes     == {"sequential_ban_pick", "simple_draft", "chaos"}

VARIABLES
    status,      \* "LOBBY", "DRAFTING", "CLAIMING" or "COMPLETE"
    settings,    \* the mode and the star cap
    joined,      \* players in the lobby
    team,        \* the side of each, or "none"
    captain,     \* the captains
    pool,        \* heroes of this draft
    sequence,    \* bans and picks, in order
    index,       \* how many of them are done
    bans, picks, \* heroes per team
    claim        \* the hero each player claimed, or NoHero

draftVars == <<status, settings, joined, team, captain, pool, sequence, index, bans, picks, claim>>

Opponent(t)   == IF t = "red" THEN "blue" ELSE "red"
Members(t, m) == {p \in joined : m[p] = t}

-----------------------------------------------------------------------------
(* The order of bans and picks; size gives the players of each team. *)

DraftStep(a, t)  == [action |-> a, team |-> t]
Turns(a, order)  == [i \in DOMAIN order |-> DraftStep(a, order[i])]
CountOf(s, a, t) == Cardinality({i \in DOMAIN s : s[i] = DraftStep(a, t)})
Order(t)         == <<t, Opponent(t)>>
Largest(size)    == Max({size["red"], size["blue"]})

\* A team picks once a round, so a full one has picked in as many rounds as it
\* has players.
MayPick(size, r, t) == IF r < size[t] THEN <<DraftStep("PICK", t)>> ELSE <<>>

BanAndPick(size, first, r) ==
    LET opener == IF r = 0 THEN first ELSE Opponent(first)
    IN  Turns("BAN", Order(IF r % 2 = 0 THEN first ELSE Opponent(first)))
          \o MayPick(size, r, opener) \o MayPick(size, r, Opponent(opener))

Sequential(size, first) ==
    FlattenSeq([i \in 1 .. Largest(size) |-> BanAndPick(size, first, i - 1)])

\* One pick, then two at a time, by turns, until both teams are full.
Extend(size, first, k, s) ==
    LET t == IF k % 2 = 1 THEN first ELSE Opponent(first)
        n == Min({IF k = 1 THEN 1 ELSE 2, size[t] - CountOf(s, "PICK", t)})
    IN  s \o [i \in 1 .. n |-> DraftStep("PICK", t)]

Snake(size, first) ==
    LET so_far[k \in 0 .. 2 * Largest(size)] ==
            IF k = 0 THEN <<>> ELSE Extend(size, first, k, so_far[k - 1])
    IN  so_far[2 * Largest(size)]

\* The bans and the picks of a round open with the winner of the coin, or not.
ChaosOpens == << <<TRUE, TRUE>>, <<FALSE, FALSE>>, <<TRUE, FALSE>>, <<FALSE, TRUE>>,
                 <<FALSE, FALSE>> >>

ChaosRound(first, opens) ==
    LET Opener(yes) == Order(IF yes THEN first ELSE Opponent(first))
    IN  Turns("BAN", Opener(opens[1])) \o Turns("PICK", Opener(opens[2]))

Chaos(size, first) == FlattenSeq([i \in 1 .. size["red"] |-> ChaosRound(first, ChaosOpens[i])])

BuildSequence(mode, size, first) ==
    CASE mode = "sequential_ban_pick" -> Sequential(size, first)
      [] mode = "simple_draft"        -> Snake(size, first)
      [] mode = "chaos"               -> Chaos(size, first)

ChaosFits(size) ==
    size["red"] = size["blue"] /\ size["red"] \in ChaosMin .. Len(ChaosOpens)

\* The pools a mode may draw from the allowed heroes; none if it refuses.
Pools(mode, size, allowed) ==
    IF mode # "chaos" THEN {allowed}
    ELSE IF ~ ChaosFits(size) THEN {}
    ELSE kSubset(4 * size["red"] + ChaosUnused, allowed)

-----------------------------------------------------------------------------
(* The lobby. *)

\* Chaos draws from the whole roster.
Allowed(s) == s.mode = "chaos" => s.stars = FullStars

Settings == {s \in [mode : Modes, stars : DOMAIN Roster] : Allowed(s)}

Nothing == [t \in Sides |-> {}]

DraftInit ==
    /\ status = "LOBBY" /\ settings \in Settings
    /\ joined = {1} /\ team = [p \in Players |-> "none"] /\ captain = {}
    /\ pool = {} /\ sequence = <<>> /\ index = 0
    /\ bans = Nothing /\ picks = Nothing /\ claim = [p \in Players |-> NoHero]

\* Mutant: players change sides while captains pick.
MutInLobby == UNCHANGED <<pool, sequence, index, bans, picks, claim>>

InLobby ==
    /\ status = "LOBBY"
    /\ UNCHANGED <<pool, sequence, index, bans, picks, claim>>

\* _ensure_captains: the first of the captains of a team stays, or else its
\* first member becomes one.
Captains(m, c) ==
    {Min(IF c \cap Members(t, m) # {} THEN c \cap Members(t, m) ELSE Members(t, m))
        : t \in {t \in Sides : Members(t, m) # {}}}

UpdateSettings(s) ==
    /\ InLobby /\ settings' = s
    /\ UNCHANGED <<status, joined, team, captain>>

Join ==
    /\ InLobby /\ Cardinality(joined) < MaxPlayers
    /\ joined' = joined \cup {Cardinality(joined) + 1}
    /\ UNCHANGED <<status, settings, team, captain>>

\* set_team, and leave_team with "none".
SetTeam(p, t) ==
    /\ InLobby /\ p \in joined
    /\ team' = [team EXCEPT ![p] = t]
    /\ captain' = Captains(team', captain \ {p})
    /\ UNCHANGED <<status, settings, joined>>

RandomizeTeams ==
    /\ InLobby
    /\ \E red \in kSubset(Cardinality(joined) \div 2, joined) :
           team' = [p \in Players |-> IF p \notin joined THEN "none"
                                      ELSE IF p \in red THEN "red" ELSE "blue"]
    /\ captain' = Captains(team', {})
    /\ UNCHANGED <<status, settings, joined>>

SetCaptain(p) ==
    /\ InLobby /\ p \in joined /\ team[p] # "none"
    /\ captain' = (captain \ Members(team[p], team)) \cup {p}
    /\ UNCHANGED <<status, settings, joined, team>>

Size == [t \in Sides |-> Cardinality(Members(t, team))]

\* Teams of almost the same size, each with a captain, together one of the
\* sizes of a match.
Balanced(size) ==
    /\ size["red"] + size["blue"] \in Totals
    /\ size["red"] > 0 /\ size["blue"] > 0
    /\ size["red"] <= size["blue"] + 1 /\ size["blue"] <= size["red"] + 1

StartDraft ==
    /\ status = "LOBBY" /\ Balanced(Size) /\ Allowed(settings)
    /\ \A t \in Sides : captain \cap Members(t, team) # {}
    /\ pool' \in Pools(settings.mode, Size, Roster[settings.stars])
    /\ \E first \in Sides : sequence' = BuildSequence(settings.mode, Size, first)
    /\ Cardinality(pool') >= Len(sequence')
    /\ index' = 0 /\ status' = "DRAFTING"
    /\ UNCHANGED <<settings, joined, team, captain, bans, picks, claim>>

-----------------------------------------------------------------------------
(* Bans, picks and claims. *)

TakenBy(t)      == bans[t] \cup picks[t]
AvailableHeroes == pool \ (TakenBy("red") \cup TakenBy("blue"))

Current == sequence[index + 1]

MayAct(p) == p \in captain /\ team[p] = Current.team

ApplyAction(p, h) ==
    /\ status = "DRAFTING" /\ MayAct(p) /\ h \in AvailableHeroes
    /\ IF Current.action = "BAN"
       THEN bans' = [bans EXCEPT ![Current.team] = @ \cup {h}] /\ UNCHANGED picks
       ELSE picks' = [picks EXCEPT ![Current.team] = @ \cup {h}] /\ UNCHANGED bans
    /\ index' = index + 1
    /\ status' = IF index' >= Len(sequence) THEN "CLAIMING" ELSE status
    /\ UNCHANGED <<settings, joined, team, captain, pool, sequence, claim>>

Participants == {p \in joined : team[p] # "none"}

\* Mutant: a hero that another player claimed can be claimed again.
MutClaimable(p) == picks[team[p]]

Claimable(p) == picks[team[p]] \ {claim[q] : q \in joined \ {p}}

\* A player may claim another hero later.  The last claim creates the match in
\* the same request.
ClaimHero(p, h) ==
    /\ status = "CLAIMING" /\ p \in Participants /\ h \in Claimable(p)
    /\ claim' = [claim EXCEPT ![p] = h]
    /\ status' = IF \A q \in Participants : claim'[q] # NoHero THEN "COMPLETE" ELSE status
    /\ UNCHANGED <<settings, joined, team, captain, pool, sequence, index, bans, picks>>

Lobby ==
    \/ \E s \in Settings : UpdateSettings(s)
    \/ Join \/ RandomizeTeams \/ StartDraft
    \/ \E p \in Players : SetCaptain(p) \/ \E t \in Sides \cup {"none"} : SetTeam(p, t)

DraftNext == Lobby \/ \E p \in Players, h \in AllHeroes : ApplyAction(p, h) \/ ClaimHero(p, h)

DraftSpec == DraftInit /\ [][DraftNext]_draftVars

-----------------------------------------------------------------------------
(* Properties. *)

Left(a, t) == CountOf(SubSeq(sequence, index + 1, Len(sequence)), a, t)

\* From the start of a draft on, whatever happened in the lobby: every team
\* has had, or has still to come, as many picks as players and as many bans as
\* the other team; nothing is taken twice, and what is left suffices.
DraftFits ==
    status # "LOBBY" =>
        /\ \A t \in Sides : Cardinality(picks[t]) + Left("PICK", t) = Size[t]
        /\ Cardinality(bans["red"]) + Left("BAN", "red")
             = Cardinality(bans["blue"]) + Left("BAN", "blue")
        /\ Cardinality(pool) = Cardinality(AvailableHeroes) + index
        /\ Cardinality(AvailableHeroes) >= Len(sequence) - index

\* Nobody waits for an action that no one can take: a ban or pick has one
\* captain to make it, a player without a hero has one to claim, and a match
\* is created with one hero of the own team for each player.
DraftGoesOn ==
    /\ status = "DRAFTING" => Cardinality({p \in joined : MayAct(p)}) = 1
    /\ status = "CLAIMING" =>
           \A p \in Participants : claim[p] = NoHero => Claimable(p) # {}
    /\ status = "COMPLETE" =>
           \A p \in Participants :
               claim[p] \in picks[team[p]] /\ \A q \in Participants \ {p} : claim[q] # claim[p]
=============================================================================
