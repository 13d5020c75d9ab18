------------------------------- MODULE MCSmux -------------------------------
(* TLC instance of Smux: one stream, as Snowflake uses it; the client writes *)
(* and the server reads.                                                     *)
EXTENDS Smux

CONSTANTS client, server

MCSide == {client, server}
MCTotal == [s \in MCSide |-> IF s = client THEN 3 ELSE 0]
=============================================================================
