------------------------------ MODULE PoolSize ------------------------------
(* What a pool of snowflakes is parameterised by (client.rs WebRtcDialer). *)
EXTENDS Naturals, FiniteSets

CONSTANTS
  Peer,   \* identities of snowflakes
  Max     \* `WebRtcDialer.max`: pool capacity, also the channel's capacity

ASSUME PeersAssumption == IsFiniteSet(Peer) /\ Max \in Nat \ {0}
=============================================================================
