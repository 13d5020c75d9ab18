------------------------ MODULE MCRedialPacketConn ------------------------
(* TLC instance of RedialPacketConn; the bounds are in the configurations. *)
EXTENDS RedialPacketConn
===========================================================================
