---------------------------- MODULE ReplayFilter ----------------------------
(***************************************************************************)
(* The replay filter of an obfs4 bridge (replayfilter.rs): the digests of  *)
(* the handshake MACs seen lately, in a hash map for the lookup and in a   *)
(* queue for the expiry.  The operators below are pure; the state and the  *)
(* callers are in Obfs4Handshake.  A digest (a keyed SipHash of the MAC)   *)
(* stands for its MAC: 64-bit collisions are left out.                     *)
(***************************************************************************)
EXTENDS Integers, Sequences

CONSTANTS
  Digest,         \* the digests of the MACs
  MaxFilterSize,  \* MAX_FILTER_SIZE
  Ttl             \* the ttl given to ReplayFilter::new

ASSUME FilterAssumption == /\ MaxFilterSize \in Nat \ {0}
                           /\ Ttl \in Nat

Entry == [digest : Digest, at : Nat]

Digests(f) == {f[i].digest : i \in DOMAIN f}

\* Mutant: an entry expires an hour's worth (a third of the ttl) early.
KeptTooShort(f, k, now) ==
  /\ Len(f) - k < MaxFilterSize
  /\ Ttl > 0
  /\ now - f[k + 1].at < Ttl - Ttl \div 3

\* The loop of compact looks at the front after k pops; it goes on popping
\* while the queue is full or the front has expired.  A front from the future
\* (now < at) has a negative age here, so it stops the loop too.
Kept(f, k, now) ==
  /\ Len(f) - k < MaxFilterSize
  /\ Ttl > 0
  /\ now - f[k + 1].at < Ttl

Stops(f, now) == {k \in 0 .. Len(f) : k < Len(f) => Kept(f, k, now)}

\* The number of entries the loop pops.
Pops(f, now) == CHOOSE k \in Stops(f, now) : \A j \in Stops(f, now) : k <= j

\* "Clock went backwards: start over."
StartsOver(f, now) ==
  LET k == Pops(f, now) IN k < Len(f) /\ now < f[k + 1].at

CompactFifo(f, now) ==
  IF StartsOver(f, now) THEN <<>> ELSE SubSeq(f, Pops(f, now) + 1, Len(f))

\* The digests the map loses: all of them, or those popped from the queue.
CompactFilter(s, f, now) ==
  IF StartsOver(f, now) THEN {}
                        ELSE s \ {f[i].digest : i \in 1 .. Pops(f, now)}
=============================================================================
