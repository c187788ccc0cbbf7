------------------------------ MODULE FanoutMC ------------------------------
(***************************************************************************)
(* Sockets for model checking Fanout: a player who reconnects, a spectator *)
(* and the token of a player who does not connect.                         *)
(***************************************************************************)
EXTENDS Fanout

MCSockets == {"a1", "a2", "s1"}
MCTokenOf == [s \in MCSockets |-> IF s = "s1" THEN "spectator" ELSE "a"]
=============================================================================
