------------------------- MODULE MCSnowflakeSession -------------------------
(* Model checking of SnowflakeSession. *)
EXTENDS SnowflakeSession, TLC

Symmetry == Permutations(Peer)
=============================================================================
