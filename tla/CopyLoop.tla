------------------------------ MODULE CopyLoop ------------------------------
(***************************************************************************)
(* The relay of one connection (app/relay.rs): two copies joined, then     *)
(* both writers shut down, one second each.                                *)
(*                                                                         *)
(* A direction is a line of bytes: source -> copy's buffer -> what the     *)
(* writer holds back -> the socket -> the peer.  Bytes are counted; every  *)
(* stage is first in, first out.  A TLS writer (Buffering) encrypts what   *)
(* it is given into a buffer of its own and writes as much of it as the    *)
(* socket takes; the rest waits for the next write, flush or shutdown.     *)
(***************************************************************************)
EXTENDS Naturals

CONSTANTS
  Buffering,   \* the directions whose writer is a TLS stream
  CopyBuffer,  \* COPY_BUFFER
  HeldSize,    \* what a TLS writer holds at most
  SockSize,    \* room in a socket's send buffer
  MaxBytes     \* bound on the bytes of each source

Dirs == {"up", "down"}  \* from a (tor) to b (the transport), and back

ASSUME CopyAssumption ==
  /\ Buffering \subseteq Dirs
  /\ CopyBuffer \in Nat \ {0}
  /\ HeldSize \in Nat \ {0}
  /\ SockSize \in Nat \ {0}
  /\ MaxBytes \in Nat

VARIABLES
  made,    \* bytes each source has sent
  source,  \* "open", "eof" or "error"
  taken,   \* bytes copy has read
  hand,    \* bytes read and not yet accepted by the writer
  held,    \* bytes the writer accepted and holds back
  sock,    \* bytes in the socket's send buffer
  got,     \* bytes the peer has
  peer,    \* "reads", "stalled" (for good) or "gone"
  copy,    \* "copying", "ok" or "failed"
  shut     \* each writer: "open", "shut" or "timeout"

envVars == <<made, source, peer>>
copyVars == <<envVars, taken, hand, held, sock, got, copy, shut>>

CopyTypeOK ==
  /\ made \in [Dirs -> 0 .. MaxBytes]
  /\ source \in [Dirs -> {"open", "eof", "error"}]
  /\ taken \in [Dirs -> 0 .. MaxBytes]
  /\ hand \in [Dirs -> 0 .. CopyBuffer]
  /\ held \in [Dirs -> 0 .. HeldSize]
  /\ sock \in [Dirs -> 0 .. SockSize]
  /\ got \in [Dirs -> 0 .. MaxBytes]
  /\ peer \in [Dirs -> {"reads", "stalled", "gone"}]
  /\ copy \in [Dirs -> {"copying", "ok", "failed"}]
  /\ shut \in [Dirs -> {"open", "shut", "timeout"}]

Zero == [d \in Dirs |-> 0]

CopyInit ==
  /\ made = Zero /\ taken = Zero /\ hand = Zero
  /\ held = Zero /\ sock = Zero /\ got = Zero
  /\ source = [d \in Dirs |-> "open"]
  /\ peer = [d \in Dirs |-> "reads"]
  /\ copy = [d \in Dirs |-> "copying"]
  /\ shut = [d \in Dirs |-> "open"]

Joined == \A d \in Dirs : copy[d] # "copying"
BothShut == \A d \in Dirs : shut[d] # "open"
Least(m, n) == IF m <= n THEN m ELSE n

----------------------------------------------------------------------------
(* the two ends *)

SourceSends(d) ==
  /\ source[d] = "open" /\ made[d] < MaxBytes
  /\ made' = [made EXCEPT ![d] = @ + 1]
  /\ UNCHANGED <<source, peer, taken, hand, held, sock, got, copy, shut>>

SourceEnds(d) ==
  /\ source[d] = "open"
  /\ \E e \in {"eof", "error"} : source' = [source EXCEPT ![d] = e]
  /\ UNCHANGED <<made, peer, taken, hand, held, sock, got, copy, shut>>

PeerReads(d) ==
  /\ peer[d] = "reads" /\ sock[d] > 0
  /\ got' = [got EXCEPT ![d] = @ + sock[d]]
  /\ sock' = [sock EXCEPT ![d] = 0]
  /\ UNCHANGED <<envVars, taken, hand, held, copy, shut>>

PeerQuits(d) ==
  /\ peer[d] = "reads"
  /\ \E p \in {"stalled", "gone"} : peer' = [peer EXCEPT ![d] = p]
  /\ UNCHANGED <<made, source, taken, hand, held, sock, got, copy, shut>>

----------------------------------------------------------------------------
(* copy *)

\* from.read: what is there, up to the buffer's size.
Read(d) ==
  /\ copy[d] = "copying" /\ hand[d] = 0
  /\ taken[d] < made[d]
  /\ \E n \in 1 .. Least(CopyBuffer, made[d] - taken[d]) :
       /\ hand' = [hand EXCEPT ![d] = n]
       /\ taken' = [taken EXCEPT ![d] = @ + n]
  /\ UNCHANGED <<envVars, held, sock, got, copy, shut>>

\* EOF ends the copy with Ok once what came before it is read; an error
\* may overtake unread bytes.
ReadEnds(d) ==
  /\ copy[d] = "copying" /\ hand[d] = 0
  /\ \/ source[d] = "eof" /\ taken[d] = made[d] /\ copy' = [copy EXCEPT ![d] = "ok"]
     \/ source[d] = "error" /\ copy' = [copy EXCEPT ![d] = "failed"]
  /\ UNCHANGED <<envVars, taken, hand, held, sock, got, shut>>

\* What the writer and the socket have room for: write_all waits for more.
Room(d) == (SockSize - sock[d]) + (IF d \in Buffering THEN HeldSize - held[d] ELSE 0)

\* Mutant: write, not write_all.
WriteOnce(d) ==
  /\ copy[d] = "copying" /\ hand[d] > 0
  /\ peer[d] # "gone" /\ Room(d) > 0
  /\ LET n   == Least(hand[d], Room(d))
         out == Least(held[d] + n, SockSize - sock[d])
     IN /\ hand' = [hand EXCEPT ![d] = 0]
        /\ held' = [held EXCEPT ![d] = @ + n - out]
        /\ sock' = [sock EXCEPT ![d] = @ + out]
  /\ UNCHANGED <<envVars, taken, got, copy, shut>>

\* to.write_all, one poll of it: held bytes go first.
Write(d) ==
  /\ copy[d] = "copying" /\ hand[d] > 0
  /\ peer[d] # "gone" /\ Room(d) > 0
  /\ LET n   == Least(hand[d], Room(d))
         out == Least(held[d] + n, SockSize - sock[d])
     IN /\ hand' = [hand EXCEPT ![d] = @ - n]
        /\ held' = [held EXCEPT ![d] = @ + n - out]
        /\ sock' = [sock EXCEPT ![d] = @ + out]
  /\ UNCHANGED <<envVars, taken, got, copy, shut>>

WriteFails(d) ==
  /\ copy[d] = "copying" /\ hand[d] > 0
  /\ peer[d] = "gone"
  /\ copy' = [copy EXCEPT ![d] = "failed"]
  /\ UNCHANGED <<envVars, taken, hand, held, sock, got, shut>>

----------------------------------------------------------------------------
(* copy_loop: the writer to a first, then the writer to b *)

Turn(d) ==
  /\ Joined
  /\ shut[d] = "open"
  /\ d = "up" => shut["down"] # "open"

\* shutdown writes what the writer holds, as the socket takes it, ...
ShutdownWrites(d) ==
  /\ Turn(d)
  /\ peer[d] # "gone" /\ held[d] > 0 /\ sock[d] < SockSize
  /\ LET out == Least(held[d], SockSize - sock[d])
     IN /\ held' = [held EXCEPT ![d] = @ - out]
        /\ sock' = [sock EXCEPT ![d] = @ + out]
  /\ UNCHANGED <<envVars, taken, hand, got, copy, shut>>

\* Mutant: the shutdown waits until the peer has read everything.
ShutdownWaits(d) ==
  /\ Turn(d)
  /\ held[d] = 0 /\ sock[d] = 0
  /\ shut' = [shut EXCEPT ![d] = "shut"]
  /\ UNCHANGED <<envVars, taken, hand, held, sock, got, copy>>

\* ... and returns when nothing is left, or with the peer's error.
Shutdown(d) ==
  /\ Turn(d)
  /\ held[d] = 0 \/ peer[d] = "gone"
  /\ shut' = [shut EXCEPT ![d] = "shut"]
  /\ UNCHANGED <<envVars, taken, hand, held, sock, got, copy>>

\* One second passed: what the writer holds is dropped with it.
ShutdownTimesOut(d) ==
  /\ Turn(d)
  /\ held[d] > 0
  /\ shut' = [shut EXCEPT ![d] = "timeout"]
  /\ held' = [held EXCEPT ![d] = 0]
  /\ UNCHANGED <<envVars, taken, hand, sock, got, copy>>

Copy(d) == Read(d) \/ ReadEnds(d) \/ Write(d) \/ WriteFails(d)
Close(d) == ShutdownWrites(d) \/ Shutdown(d) \/ ShutdownTimesOut(d)
Ends(d) == SourceSends(d) \/ SourceEnds(d) \/ PeerReads(d) \/ PeerQuits(d)

CopyNext == \E d \in Dirs : Ends(d) \/ Copy(d) \/ Close(d)

CopySpec == CopyInit /\ [][CopyNext]_copyVars

\* The task is polled when a read or write can go on and when a timer
\* fires; a peer that reads takes what its socket has.
FairCopySpec ==
  /\ CopySpec
  /\ \A d \in Dirs : WF_copyVars(Copy(d)) /\ WF_copyVars(Close(d)) /\ WF_copyVars(PeerReads(d))

----------------------------------------------------------------------------
(* Properties *)

\* A copy that ended well and a shutdown that did not time out have put
\* every byte of the source on the socket of a peer that is still there.
CleanClose ==
  \A d \in Dirs :
    (shut[d] = "shut" /\ copy[d] = "ok" /\ peer[d] # "gone")
      => got[d] + sock[d] = made[d]

\* Once both sources have ended and no peer stalls for good, the relay
\* closes both connections; and once both copies have ended the close cannot
\* hang, whatever a peer does.
RelayFinishes ==
  /\ (\A d \in Dirs : source[d] # "open")
       ~> (BothShut \/ \E d \in Dirs : peer[d] = "stalled")
  /\ Joined ~> BothShut

\* What was read from one side reaches the other, if that peer reads and
\* nothing fails, without waiting for later bytes: on a plain socket ...
Arrives(d) ==
  \A k \in 1 .. MaxBytes :
    (taken[d] >= k) ~> (got[d] >= k \/ peer[d] # "reads" \/ shut[d] = "timeout")

PlainDelivered == \A d \in Dirs \ Buffering : Arrives(d)

\* The relay moves what it reads while it lasts, and it does not outlast its
\* sources.
RelayMoves == PlainDelivered /\ RelayFinishes

\* ... and on every writer: the transports' tests write once and then only
\* read the echo (webtunnel/domain/transport.rs:276-286).  It fails over TLS:
\* what a TLS stream holds back when its socket is full waits for another write.
Delivered == \A d \in Dirs : Arrives(d)
============================================================================
