-------------------------- MODULE MCObfs4Handshake --------------------------
(* Two clients and three connections of the bridge.                        *)
EXTENDS Obfs4Handshake, TLC

CONSTANTS
  m1, m2, c1, c2, c3

Clients == {m1, m2}
Conns3 == {c1, c2, c3}
Symmetry == Permutations(Clients) \cup Permutations(Conns3)
=============================================================================
