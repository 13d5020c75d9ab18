-------------------------- MODULE RedialPacketConn --------------------------
(***************************************************************************)
(* The packet connection that survives its carrier (turbotunnel.rs) on top *)
(* of the snowflakes it dials (peer.rs) and the task that drives their     *)
(* data channel (webrtc.rs).                                               *)
(*                                                                         *)
(* Upwards a packet goes: send queue -> the writer's hand -> the           *)
(* snowflake's outgoing queue -> a message the channel refused ->          *)
(* the data channel -> the server.  Downwards: data channel and incoming   *)
(* queue -> the reader -> receive queue -> recv.  Packets are numbered in  *)
(* the order they are sent; framing inside a message is in Encapsulation.  *)
(*                                                                         *)
(* The task that drives a data channel looks at its snowflake's closed     *)
(* flag once per turn, and then its select! takes any branch that is       *)
(* ready.  So it outlives the exchange, and may take one more message from *)
(* its queue while the next snowflake's task is at work.                   *)
(***************************************************************************)
EXTENDS Naturals, Sequences, FiniteSets

CONSTANTS
  QueueSize,  \* QUEUE_SIZE: packets in the send and in the receive queue
  OutSize,    \* messages in a snowflake's outgoing queue
  MaxSend,    \* bound on the packets sent up
  MaxServed,  \* bound on the packets the server sends
  MaxPackets, \* bound on the packets of both
  MaxDials    \* bound on the snowflakes dialed

ASSUME ConnAssumption ==
  /\ QueueSize \in Nat \ {0}
  /\ OutSize \in Nat \ {0}
  /\ MaxSend \in Nat
  /\ MaxServed \in 0 .. MaxSend
  /\ MaxPackets \in Nat
  /\ MaxDials \in Nat

Packet == 1 .. MaxSend
Carrier == 1 .. MaxDials

VARIABLES
  closed,    \* RedialPacketConn.closed
  dial,      \* where dial_loop stands
  up,        \* the snowflakes dialed so far; the last one is the current
  alive,     \* whether the current snowflake is open
  sendq,     \* send_tx / send_rx
  recvq,     \* recv_tx / recv_rx
  hand,      \* the packet the writer is sending: <<>> or <<p>>
  checked,   \* Peer::write is past its is_closed check
  drive,     \* per snowflake: the task that drives its data channel
  outq,      \* per snowflake: Peer.outgoing
  blocked,   \* per snowflake: drive's `blocked`, <<>> or <<p>>
  channel,   \* per snowflake: what its data channel took, not yet delivered
  down,      \* what the current snowflake has received or will receive
  waiting,   \* a recv call is past its is_closed check
  nsent,     \* packets sent so far
  nserved,   \* packets the server sent so far
  handed,    \* history: what the data channels took, in order, and which one
  served,    \* history: packets the server got, in order
  got,       \* history: packets recv returned, in order
  full       \* history: the packets send dropped on a full queue

loopVars  == <<dial, up, alive>>
driveVars == <<drive, outq, blocked, channel, handed>>
upVars    == <<sendq, hand, checked, driveVars, nsent, served, full>>
downVars  == <<recvq, down, waiting, nserved, got>>
vars == <<closed, loopVars, upVars, downVars>>

Elems(s) == {s[i] : i \in DOMAIN s}

\* What a data channel took
Handing == [by : Carrier, packet : Packet]

\* Peer.closed is not set: an old snowflake was closed when its exchange ended.
Open(k) == k = up /\ alive

TypeOK ==
  /\ closed \in BOOLEAN
  /\ dial \in {"check", "dialing", "exchange", "stopped"}
  /\ up \in 0 .. MaxDials
  /\ alive \in BOOLEAN
  /\ sendq \in Seq(Packet)
  /\ Len(sendq) <= QueueSize
  /\ recvq \in Seq(Packet)
  /\ Len(recvq) <= QueueSize
  /\ hand \in Seq(Packet)
  /\ Len(hand) <= 1
  /\ checked \in BOOLEAN
  /\ drive \in [Carrier -> {"none", "runs", "late", "done"}]
  /\ outq \in [Carrier -> Seq(Packet)]
  /\ \A k \in Carrier : Len(outq[k]) <= OutSize
  /\ blocked \in [Carrier -> Seq(Packet)]
  /\ \A k \in Carrier : Len(blocked[k]) <= 1
  /\ channel \in [Carrier -> Seq(Packet)]
  /\ down \in Seq(Packet)
  /\ waiting \in BOOLEAN
  /\ nsent \in 0 .. MaxSend
  /\ nserved \in 0 .. MaxServed
  /\ handed \in Seq(Handing)
  /\ served \in Seq(Packet)
  /\ got \in Seq(Packet)
  /\ full \in SUBSET Packet

Init ==
  /\ closed = FALSE
  /\ dial = "check"
  /\ up = 0
  /\ alive = FALSE
  /\ sendq = <<>> /\ recvq = <<>>
  /\ hand = <<>> /\ checked = FALSE
  /\ drive = [k \in Carrier |-> "none"]
  /\ outq = [k \in Carrier |-> <<>>] /\ blocked = [k \in Carrier |-> <<>>]
  /\ channel = [k \in Carrier |-> <<>>]
  /\ down = <<>>
  /\ waiting = FALSE
  /\ nsent = 0 /\ nserved = 0
  /\ handed = <<>> /\ served = <<>> /\ got = <<>>
  /\ full = {}

-----------------------------------------------------------------------------
(* The owner of the connection: KCP.                                       *)

\* send: try_send, whose failure on a full queue is ignored.
Send ==
  /\ ~closed
  /\ nsent < MaxSend /\ nsent + nserved < MaxPackets
  /\ nsent' = nsent + 1
  /\ IF Len(sendq) < QueueSize
       THEN sendq' = Append(sendq, nsent + 1) /\ full' = full
       ELSE sendq' = sendq /\ full' = full \cup {nsent + 1}
  /\ UNCHANGED <<closed, loopVars, downVars, hand, checked, driveVars, served>>

\* recv: the is_closed check, then the lock.
RecvStart ==
  /\ ~waiting
  /\ ~closed
  /\ waiting' = TRUE
  /\ UNCHANGED <<closed, loopVars, upVars, recvq, down, nserved, got>>

\* select!: a queued packet and a close that are both ready race.
RecvPacket ==
  /\ waiting
  /\ recvq # <<>>
  /\ got' = Append(got, Head(recvq))
  /\ recvq' = Tail(recvq)
  /\ waiting' = FALSE
  /\ UNCHANGED <<closed, loopVars, upVars, down, nserved>>

RecvError ==
  /\ waiting
  /\ closed
  /\ waiting' = FALSE
  /\ UNCHANGED <<closed, loopVars, upVars, recvq, down, nserved, got>>

Close ==
  /\ ~closed
  /\ closed' = TRUE
  /\ UNCHANGED <<loopVars, upVars, downVars>>

-----------------------------------------------------------------------------
(* dial_loop.                                                              *)

\* is_closed at the top of the loop; a close also wins against a pending dial.
DialStart ==
  /\ dial = "check"
  /\ dial' = IF closed THEN "stopped" ELSE "dialing"
  /\ UNCHANGED <<closed, up, alive, upVars, downVars>>

DialAborted ==
  /\ dial = "dialing"
  /\ closed
  /\ dial' = "stopped"
  /\ UNCHANGED <<closed, up, alive, upVars, downVars>>

\* A fresh snowflake, with empty queues and a task of its own.
DialOk ==
  /\ dial = "dialing"
  /\ up < MaxDials
  /\ dial' = "exchange"
  /\ up' = up + 1
  /\ alive' = TRUE
  /\ drive' = [drive EXCEPT ![up + 1] = "runs"]
  /\ UNCHANGED <<closed, sendq, hand, checked, outq, blocked, channel, handed,
                 nsent, served, full, downVars>>

\* A failed dial closes the connection for good.
DialError ==
  /\ dial = "dialing"
  /\ dial' = "stopped"
  /\ closed' = TRUE
  /\ UNCHANGED <<up, alive, upVars, downVars>>

\* Mutant: the next carrier starts with an empty send queue
ExchangeEndFresh ==
  /\ dial = "exchange"
  /\ ~alive \/ closed
  /\ dial' = "check"
  /\ alive' = FALSE
  /\ hand' = <<>> /\ checked' = FALSE /\ down' = <<>>
  /\ sendq' = <<>>
  /\ UNCHANGED <<closed, up, driveVars, nsent, served, full,
                 recvq, waiting, nserved, got>>

\* Mutant: only the reader ends the exchange, between two sends
ExchangeEndReader ==
  /\ dial = "exchange"
  /\ ~alive \/ closed
  /\ hand = <<>>
  /\ dial' = "check"
  /\ alive' = FALSE
  /\ checked' = FALSE /\ down' = <<>>
  /\ UNCHANGED <<closed, up, hand, sendq, driveVars, nsent, served, full,
                 recvq, waiting, nserved, got>>

\* exchange returns when the reader or the writer fails or the connection
\* closes; the loop then closes the snowflake.  The packet in the writer's
\* hand and the unread messages go with it.
ExchangeEnd ==
  /\ dial = "exchange"
  /\ ~alive \/ closed
  /\ dial' = "check"
  /\ alive' = FALSE
  /\ hand' = <<>> /\ checked' = FALSE /\ down' = <<>>
  /\ UNCHANGED <<closed, up, sendq, driveVars, nsent, served, full,
                 recvq, waiting, nserved, got>>

-----------------------------------------------------------------------------
(* exchange: the writer and the reader.                                    *)

WriterTakes ==
  /\ dial = "exchange"
  /\ hand = <<>>
  /\ sendq # <<>>
  /\ hand' = <<Head(sendq)>>
  /\ sendq' = Tail(sendq)
  /\ UNCHANGED <<closed, loopVars, downVars, checked, driveVars, nsent, served,
                 full>>

\* Peer::write: the check; on a closed snowflake it fails, and the writer ends.
WriterChecks ==
  /\ dial = "exchange"
  /\ hand # <<>> /\ ~checked
  /\ alive
  /\ checked' = TRUE
  /\ UNCHANGED <<closed, loopVars, downVars, hand, sendq, driveVars, nsent,
                 served, full>>

\* Peer::write after its check: it waits while the outgoing queue is full, and
\* fails when the task that empties the queue has returned.
WriterSends ==
  /\ dial = "exchange"
  /\ checked
  /\ drive[up] # "done"
  /\ Len(outq[up]) < OutSize
  /\ outq' = [outq EXCEPT ![up] = @ \o hand]
  /\ hand' = <<>> /\ checked' = FALSE
  /\ UNCHANGED <<closed, loopVars, downVars, sendq, drive, blocked, channel,
                 handed, nsent, served, full>>

\* The reader got a packet: try_send, dropped when the queue is full.
ReaderTakes ==
  /\ dial = "exchange"
  /\ down # <<>>
  /\ recvq' = IF Len(recvq) < QueueSize THEN Append(recvq, Head(down)) ELSE recvq
  /\ down' = Tail(down)
  /\ UNCHANGED <<closed, loopVars, upVars, waiting, nserved, got>>

-----------------------------------------------------------------------------
(* drive: the task of a snowflake's data channel.                          *)

\* A task that took a message after its snowflake was closed was past the check
\* of its turn; it finds out at the next one.
Turn(k) == drive' = [drive EXCEPT ![k] = IF Open(k) THEN @ ELSE "late"]

\* The channel takes the messages of s.
Takes(k, s) ==
  /\ handed' = handed \o [i \in DOMAIN s |-> [by |-> k, packet |-> s[i]]]
  /\ channel' = [channel EXCEPT ![k] = @ \o s]

\* Mutant: the outgoing queue is polled while a refused message waits
DriveWritesPast(k) ==
  /\ drive[k] = "runs"
  /\ outq[k] # <<>>
  /\ Takes(k, <<Head(outq[k])>>)
  /\ outq' = [outq EXCEPT ![k] = Tail(@)]
  /\ Turn(k)
  /\ UNCHANGED <<closed, loopVars, downVars, sendq, hand, checked, blocked,
                 nsent, served, full>>

\* The channel takes the next message of the outgoing queue, or refuses it.
DriveWrites(k) ==
  /\ drive[k] = "runs"
  /\ blocked[k] = <<>>
  /\ outq[k] # <<>>
  /\ Takes(k, <<Head(outq[k])>>)
  /\ outq' = [outq EXCEPT ![k] = Tail(@)]
  /\ Turn(k)
  /\ UNCHANGED <<closed, loopVars, downVars, sendq, hand, checked, blocked,
                 nsent, served, full>>

\* (An error of the write is a refusal after which the snowflake dies.)
DriveRefused(k) ==
  /\ drive[k] = "runs"
  /\ blocked[k] = <<>>
  /\ outq[k] # <<>>
  /\ blocked' = [blocked EXCEPT ![k] = <<Head(outq[k])>>]
  /\ outq' = [outq EXCEPT ![k] = Tail(@)]
  /\ Turn(k)
  /\ UNCHANGED <<closed, loopVars, downVars, sendq, hand, checked, channel,
                 handed, nsent, served, full>>

\* Mutant: a message the channel takes at last stays in `blocked`
DriveRetriesKeeps(k) ==
  /\ drive[k] = "runs"
  /\ blocked[k] # <<>>
  /\ Len(handed) < 2 * MaxSend
  /\ Takes(k, blocked[k])
  /\ Turn(k)
  /\ UNCHANGED <<closed, loopVars, downVars, sendq, hand, checked, outq, blocked,
                 nsent, served, full>>

\* "Retry a message the channel refused earlier."
DriveRetries(k) ==
  /\ drive[k] = "runs"
  /\ blocked[k] # <<>>
  /\ Takes(k, blocked[k])
  /\ blocked' = [blocked EXCEPT ![k] = <<>>]
  /\ Turn(k)
  /\ UNCHANGED <<closed, loopVars, downVars, sendq, hand, checked, outq, nsent,
                 served, full>>

\* The task finds its snowflake closed: its queue and a refused message go
\* with it.
DriveReturns(k) ==
  /\ drive[k] \in {"runs", "late"}
  /\ ~Open(k)
  /\ drive' = [drive EXCEPT ![k] = "done"]
  /\ outq' = [outq EXCEPT ![k] = <<>>]
  /\ blocked' = [blocked EXCEPT ![k] = <<>>]
  /\ UNCHANGED <<closed, loopVars, downVars, sendq, hand, checked, channel,
                 handed, nsent, served, full>>

Driver(k) ==
  \/ DriveWrites(k) \/ DriveRefused(k) \/ DriveRetries(k) \/ DriveReturns(k)

\* The current snowflake is closed: its channel closed, ICE disconnected, or it
\* went stale.  Its task goes on until it looks.
Die ==
  /\ alive
  /\ alive' = FALSE
  /\ UNCHANGED <<closed, dial, up, upVars, downVars>>

-----------------------------------------------------------------------------
(* The server: each data channel delivers in order, until it fails.  What  *)
(* an old channel took may arrive after the new one is in use.             *)

ServerGets(k) ==
  /\ channel[k] # <<>>
  /\ served' = Append(served, Head(channel[k]))
  /\ channel' = [channel EXCEPT ![k] = Tail(@)]
  /\ UNCHANGED <<closed, loopVars, downVars, sendq, hand, checked, drive, outq,
                 blocked, handed, nsent, full>>

\* A dead channel's messages are lost.
ChannelFails(k) ==
  /\ channel[k] # <<>>
  /\ ~Open(k)
  /\ channel' = [channel EXCEPT ![k] = <<>>]
  /\ UNCHANGED <<closed, loopVars, downVars, sendq, hand, checked, drive, outq,
                 blocked, handed, nsent, served, full>>

\* A message for the current snowflake arrives while its task is there.
ServerSends ==
  /\ dial = "exchange"
  /\ drive[up] = "runs"
  /\ nserved < MaxServed /\ nsent + nserved < MaxPackets
  /\ nserved' = nserved + 1
  /\ down' = Append(down, nserved + 1)
  /\ UNCHANGED <<closed, loopVars, upVars, recvq, waiting, got>>

DialLoop == DialStart \/ DialAborted \/ DialOk \/ DialError \/ ExchangeEnd

Next ==
  \/ Send \/ RecvStart \/ RecvPacket \/ RecvError \/ Close
  \/ DialLoop
  \/ WriterTakes \/ WriterChecks \/ WriterSends \/ ReaderTakes
  \/ Die
  \/ \E k \in Carrier : Driver(k) \/ ServerGets(k) \/ ChannelFails(k)
  \/ ServerSends

Spec == Init /\ [][Next]_vars

\* Runnable tasks run.  A dial has no deadline of its own: pop() waits until the
\* pool has caught a snowflake, and the model's pool catches MaxDials of them.
\* The channel of an open snowflake takes a refused message sooner or later
\* unless it dies (SCTP, ICE and the staleness check see to that).  Nothing
\* obliges KCP, the server, or a task to write after its snowflake was closed.
FairSpec ==
  /\ Spec
  /\ WF_vars(DialStart \/ DialAborted \/ ExchangeEnd)
  /\ WF_vars(DialOk)
  /\ WF_vars(RecvPacket \/ RecvError)
  /\ WF_vars(WriterTakes)
  /\ WF_vars(WriterChecks)
  /\ WF_vars(WriterSends)
  /\ WF_vars(ReaderTakes)
  /\ \A k \in Carrier :
       /\ WF_vars(DriveReturns(k))
       /\ WF_vars(Open(k) /\ (DriveWrites(k) \/ DriveRefused(k)))
       /\ WF_vars(Open(k) /\ blocked[k] # <<>> /\ (DriveRetries(k) \/ Die))

-----------------------------------------------------------------------------
(* Properties.                                                             *)

UpLink == INSTANCE Datagrams WITH sent <- 1 .. nsent, got <- served

\* No packet is invented or duplicated over any number of
\* redials: what KCP's acknowledgements and reassembly rely on.
UpDatagrams == UpLink!Spec

Increasing(s) == \A i, j \in DOMAIN s : i < j => s[i] < s[j]

\* Every snowflake's channel takes packets in the order they were sent, across
\* refused messages, and a later snowflake takes only later packets.
UpInOrder == \A i, j \in DOMAIN handed :
  \/ handed[i].by < handed[j].by
  \/ handed[i].by = handed[j].by /\ i < j
  => handed[i].packet < handed[j].packet

\* What the channel of k took after a later snowflake's had taken something.
Late(k) == {j \in DOMAIN handed :
  handed[j].by = k /\ \E i \in 1 .. j - 1 : handed[i].by > k}

\* An old snowflake's task lets one message overtaken by newer ones through, at
\* most: it looks at the closed flag before every turn (webrtc.rs:253).
OneLate == \A k \in Carrier : \A i, j \in Late(k) : i = j

\* recv returns packets in the order the server sent them: nothing of an old
\* snowflake is read once the next one is.
DownInOrder == Increasing(got \o recvq \o down)

\* Each direction keeps its order, though snowflakes come and go, but for one
\* message of every snowflake that was replaced.
InOrder == UpInOrder /\ OneLate /\ DownInOrder

\* What the data channels took
Handed == {handed[i].packet : i \in DOMAIN handed}

\* The packets that were queued and are nowhere any more.
Lost ==
  (1 .. nsent) \ (full \cup Elems(sendq) \cup Elems(hand) \cup Handed
                   \cup UNION {Elems(outq[k]) \cup Elems(blocked[k]) : k \in Carrier})

\* How many exchanges are over, and how many tasks.
Ended == IF dial = "exchange" THEN up - 1 ELSE up
Returned == {k \in Carrier : drive[k] = "done"}

\* "packets queue across redials": the end of an exchange costs at most the
\* packet in the writer's hand, the end of a snowflake's task its outgoing queue
\* and the message the channel refused, and nothing else costs any.
LossPerRedial ==
  Cardinality(Lost) <= Ended + Cardinality(Returned) * (OutSize + 1)

\* The writer is never stuck with a packet: the snowflake takes it or fails.
WriterReturns == hand # <<>> ~> hand = <<>>

\* Once the connection is closed the dial loop stops, with no snowflake open and
\* no task of one left, and a recv that was waiting returns.
CloseEnds == closed ~>
  /\ dial = "stopped" /\ ~alive /\ ~waiting
  /\ \A k \in Carrier : drive[k] \in {"none", "done"}

\* A queued packet does not wait for ever: it is handed over or dropped with a
\* snowflake, unless the connection closes or no more snowflakes come.
QueueMoves ==
  \A p \in Packet :
    p \in Elems(sendq) ~> p \notin Elems(sendq) \/ closed \/ (up = MaxDials /\ ~alive)

\* Nothing hangs on a dead snowflake: the writer returns, queued packets move on
\* over the next snowflake, and a close ends the dial loop and a waiting recv.
NothingHangs == WriterReturns /\ QueueMoves /\ CloseEnds
=============================================================================
