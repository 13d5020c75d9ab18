---------------------------- MODULE MCBridgeState ----------------------------
(* TLC instance of BridgeState: two identities that may be drawn, a good and *)
(* a bad one that may be given, and a good and a bad iat-mode.               *)
EXTENDS BridgeState
CONSTANTS fresh1, fresh2, given, bad
=============================================================================
