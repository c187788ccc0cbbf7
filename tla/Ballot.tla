------------------------------- MODULE Ballot -------------------------------
(***************************************************************************)
(* What a consensus override promises (docs: consensus-overrides-design):  *)
(* one proposal at a time, one vote per player, decided once, and carried  *)
(* out exactly when more than half of the players who were at the table    *)
(* when it was proposed said yes.                                          *)
(***************************************************************************)
EXTENDS Naturals, FiniteSets

CONSTANT Players

VARIABLES
    state,     \* "none", "open", "applied", or how it failed
    voters, ayes, nays,
    carried    \* number of proposals carried out

ballotVars == <<state, voters, ayes, nays, carried>>

Failures == {"rejected", "expired", "cancelled", "dropped"}

Majority == 2 * Cardinality(ayes) > Cardinality(voters)

BallotInit ==
    /\ state = "none" /\ carried = 0
    /\ voters = {} /\ ayes = {} /\ nays = {}

\* The proposer votes yes by proposing.
Open ==
    /\ state # "open" /\ state' \in {"open", "applied"} \cup Failures
    /\ \E V \in SUBSET Players : \E p \in V : voters' = V /\ ayes' = {p} /\ nays' = {}
    /\ state' \in {"applied", "dropped"} => 2 * Cardinality(ayes') > Cardinality(voters')
    /\ carried' = IF state' = "applied" THEN carried + 1 ELSE carried

\* A vote may be changed; the one that decides the ballot closes it.
Vote ==
    /\ state = "open" /\ state' \in {"open", "applied"} \cup Failures
    /\ \E p \in voters : \/ ayes' = ayes \cup {p} /\ nays' = nays \ {p}
                         \/ ayes' = ayes \ {p} /\ nays' = nays \cup {p}
    /\ UNCHANGED voters
    /\ state' = "applied" => 2 * Cardinality(ayes') > Cardinality(voters)
    /\ carried' = IF state' = "applied" THEN carried + 1 ELSE carried

Close ==
    /\ state = "open"
    /\ \/ state' = "applied" /\ Majority /\ carried' = carried + 1
       \/ state' \in Failures /\ UNCHANGED carried
    /\ UNCHANGED <<voters, ayes, nays>>

BallotSpec == BallotInit /\ [][Open \/ Vote \/ Close]_ballotVars
=============================================================================
