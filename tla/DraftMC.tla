------------------------------- MODULE DraftMC ------------------------------
(***************************************************************************)
(* A small roster for model checking Draft, and the orders of every size   *)
(* of team the lobby can hold. Checked with it: the cards the drafted      *)
(* heroes level up with (LoadoutsMC).                                      *)
(***************************************************************************)
EXTENDS Draft, LoadoutsMC

MCRoster == << {"h1", "h2", "h3"}, {"h1", "h2", "h3", "h4", "h5", "h6", "h7"} >>

Sizes == {size \in [Sides -> 1 .. 3] :
             size["red"] <= size["blue"] + 1 /\ size["blue"] <= size["red"] + 1}

\* Every mode gives each team of a full lobby its picks and as many bans as
\* the other.
ASSUME SequencesFit ==
    \A mode \in Modes, size \in Sizes, first \in Sides :
        (mode = "chaos" => ChaosFits(size)) =>
            LET s == BuildSequence(mode, size, first)
            IN  /\ \A t \in Sides : CountOf(s, "PICK", t) = size[t]
                /\ CountOf(s, "BAN", "red") = CountOf(s, "BAN", "blue")
=============================================================================
