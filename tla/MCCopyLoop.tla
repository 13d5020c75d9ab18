---------------------------- MODULE MCCopyLoop ----------------------------
(* TLC instance of CopyLoop: tor's side is a plain socket, the transport's *)
(* side is TLS or plain.                                                   *)
EXTENDS CopyLoop
Tls == {"up"}
===========================================================================
