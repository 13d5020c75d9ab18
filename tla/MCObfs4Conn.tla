---------------------------- MODULE MCObfs4Conn ----------------------------
(* The connection at a scale of five bytes to a segment, two to a header. *)
EXTENDS Obfs4Conn

\* Tables a random identity has: nothing but zeros, and one whose padding
\* always fits in the end.
GoodTables == {{0}, {0, 5}}
\* A table of one length that the padding of a short burst always misses.
MissedTable == {{3}}
============================================================================
