--------------------------- MODULE ReliableStream ---------------------------
(***************************************************************************)
(* What smux asks of the KCP session under it, in one direction: the bytes *)
(* read are a prefix of the bytes written, whatever the packets under it   *)
(* go through.  Bytes are numbered in the order they are written.          *)
(***************************************************************************)
EXTENDS Naturals, Sequences

CONSTANT MaxBytes

VARIABLES
  written,  \* how many bytes were written
  read      \* the bytes read, in order

Init == written = 0 /\ read = <<>>

Write(n) ==
  /\ written + n <= MaxBytes
  /\ written' = written + n
  /\ read' = read

\* A read returns the bytes that come next, or some of them.
Read(n) ==
  /\ Len(read) + n <= written
  /\ read' = read \o [i \in 1 .. n |-> Len(read) + i]
  /\ written' = written

Next == \E n \in 1 .. MaxBytes : Write(n) \/ Read(n)

Spec == Init /\ [][Next]_<<written, read>>
=============================================================================
