-------------------------------- MODULE Sums --------------------------------
(***************************************************************************)
(* Sums of sequences of numbers, as what a Rust iterator's sum() and a     *)
(* loop with += compute.                                                   *)
(***************************************************************************)
EXTENDS Naturals, Sequences

\* The sums of the first 0, 1, ... elements.
Sums(s) ==
  LET sum[n \in 0 .. Len(s)] == IF n = 0 THEN 0 ELSE sum[n - 1] + s[n]
  IN  sum

SumOf(s) == Sums(s)[Len(s)]
=============================================================================
