---------------------------- MODULE MCLifecycle ----------------------------
(* TLC instance of Lifecycle. *)
EXTENDS Lifecycle, TLC
Perms == Permutations(Conns) \cup Permutations(Methods)
=============================================================================
