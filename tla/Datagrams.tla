------------------------------ MODULE Datagrams ------------------------------
(***************************************************************************)
(* What KCP asks of the packet connection under it, in one direction:      *)
(* packets may be lost or overtake each other, but none is invented and    *)
(* none arrives twice.                                                     *)
(***************************************************************************)
EXTENDS Naturals, Sequences

CONSTANT Packet

VARIABLES
  sent,  \* the packets sent so far
  got    \* the packets delivered so far, in order of delivery

vars == <<sent, got>>

Delivered == {got[i] : i \in DOMAIN got}

Init == sent = {} /\ got = <<>>

Send(p) ==
  /\ p \notin sent
  /\ sent' = sent \cup {p}
  /\ got' = got

Deliver(p) ==
  /\ p \in sent \ Delivered
  /\ got' = Append(got, p)
  /\ sent' = sent

Next == \E p \in Packet : Send(p) \/ Deliver(p)

Spec == Init /\ [][Next]_vars
=============================================================================
