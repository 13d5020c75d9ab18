------------------------------- MODULE MCKcp -------------------------------
(* TLC instance of Kcp: the client writes a header and a body in one call,  *)
(* as smux does, three times; packets to the server may overtake one       *)
(* another.                                                                 *)
EXTENDS Kcp

CONSTANTS client, server

MCSide == {client, server}
MCWrites == {<<1, 1>>}
MCMaxBytes == [s \in MCSide |-> IF s = client THEN 6 ELSE 0]
MCNetSize == [s \in MCSide |-> IF s = client THEN 1 ELSE 2]
============================================================================
