-------------------------------- MODULE Kcp --------------------------------
(***************************************************************************)
(* Two KCP sessions over packets that may be lost, dropped at a full queue *)
(* or overtake one another: the ARQ engine of kcp.rs as Snowflake sets it  *)
(* up (stream mode, no congestion window, no fast resend) and the tasks    *)
(* and calls of kcp_session.rs around it.                                  *)
(*                                                                         *)
(* Bytes are numbered in the order they are written.  Sequence numbers are *)
(* kept modulo SnModulus and compared as signed differences, as the code   *)
(* does modulo 2^32; they start near the wrap, where a long session gets   *)
(* to.  Retransmission timers and counts of skipping acknowledgements only *)
(* decide WHEN a segment is sent again: a flush sends any subset again.    *)
(***************************************************************************)
EXTENDS Integers, Sequences, FiniteSets, SequencesExt, Sums

CONSTANTS
  Side,        \* the two ends of the session
  SnModulus,   \* sequence numbers: 2^32 in the code
  FirstSn,     \* the sequence number the ends have reached
  Wnd,         \* snd_wnd and rcv_wnd, in segments
  FirstRmt,    \* what an end takes the other's window for at first
  Mss,         \* mss, in bytes
  Writes,      \* the calls of write_buffers: sequences of buffer lengths
  ReadSizes,   \* lengths of the buffers that read is called with
  MaxBytes,    \* per side, bound on the bytes written
  NetSize,     \* per side, packets under way to it (RedialPacketConn's queue)
  MaxFaults,   \* bound on packets overtaking others, closes and failures
  MaxAcks,     \* bound on the packets taken between two flushes
  Closers,     \* the sides that may call close
  Cut          \* the sides whose packet connection may end with an error

ASSUME KcpAssumption ==
  /\ IsFiniteSet(Side) /\ Cardinality(Side) = 2
  /\ Wnd \in Nat \ {0}
  /\ SnModulus \in Nat /\ SnModulus > 4 * Wnd
  /\ FirstSn \in 0 .. SnModulus - 1
  /\ FirstRmt \in 1 .. Wnd
  /\ Mss \in Nat \ {0}
  /\ Writes \subseteq Seq(Nat \ {0}) /\ Writes # {}
  /\ ReadSizes \subseteq Nat
  /\ MaxBytes \in [Side -> Nat]
  /\ NetSize \in [Side -> Nat \ {0}]
  /\ Closers \subseteq Side
  /\ Cut \subseteq Side

\* A direction sends fewer bytes, and so fewer segments (one may hold a single
\* byte), than signed differences tell apart. Numbers are compared by their
\* signed difference and no packet is ever too old to be taken, so one that came
\* later than that would pass for a new one.
ASSUME SessionAssumption ==
  \A e \in Side : 2 * (MaxBytes[e] + Wnd) <= SnModulus

Peer(e) == CHOOSE f \in Side : f # e

VARIABLES
  kcp,     \* per side: Kcp
  net,     \* per side: packets under way to it, oldest first
  faults,  \* how often that happened so far
  sess,    \* per side: KcpSession, its reader and its writer
  written, \* per side: bytes accepted by write_buffers
  got      \* per side: the bytes read has returned, in order

vars == <<kcp, net, faults, sess, written, got>>

\* Nobody closed the session, no packet connection failed.
Ordinary == \A e \in Side : ~sess[e].die /\ ~sess[e].failed

Add(a, b) == (a + b) % SnModulus

\* timediff: positive when a is later, up to half the numbers away.
Diff(a, b) == LET d == (a - b) % SnModulus
              IN  IF d < SnModulus \div 2 THEN d ELSE d - SnModulus

\* queue is snd_queue, buf snd_buf, rq rcv_queue, rbuf rcv_buf, acks acklist;
\* tell is the probe bit IKCP_ASK_TELL, armed is probe_wait > 0.
Init ==
  /\ kcp = [e \in Side |->
       [una |-> FirstSn, nxt |-> FirstSn, rnxt |-> FirstSn, rmt |-> FirstRmt,
        queue |-> <<>>, buf |-> <<>>, rq |-> <<>>, rbuf |-> <<>>,
        acks |-> <<>>, tell |-> FALSE, armed |-> FALSE]]
  /\ net = [e \in Side |-> <<>>]
  /\ faults = 0
  /\ sess = [e \in Side |->
       [pending |-> <<>>, readEvent |-> FALSE, writeEvent |-> FALSE,
        die |-> FALSE, failed |-> FALSE, reader |-> "run", writer |-> "idle",
        todo |-> <<>>, input |-> TRUE]]
  /\ written = [e \in Side |-> 0]
  /\ got = [e \in Side |-> <<>>]

-----------------------------------------------------------------------------
(* kcp.rs, as functions of the engine's state k.                           *)

\* Mutant: segments are taken from rcv_buf without looking at their number
MoveReadyHoles(k) ==
  LET n == IF Len(k.rbuf) < Wnd - Len(k.rq) THEN Len(k.rbuf)
           ELSE Wnd - Len(k.rq)
  IN  [k EXCEPT !.rq = @ \o [i \in 1 .. n |-> k.rbuf[i].data],
                !.rbuf = SubSeq(@, n + 1, Len(@)),
                !.rnxt = Add(@, n)]

\* move_ready_segments: the front run of rcv_buf, as far as rcv_queue has room
MoveReady(k) ==
  LET n == Cardinality({m \in 1 .. Len(k.rbuf) :
             /\ m <= Wnd - Len(k.rq)
             /\ \A i \in 1 .. m : k.rbuf[i].sn = Add(k.rnxt, i - 1)})
  IN  [k EXCEPT !.rq = @ \o [i \in 1 .. n |-> k.rbuf[i].data],
                !.rbuf = SubSeq(@, n + 1, Len(@)),
                !.rnxt = Add(@, n)]

\* recv: the first segment of rcv_queue (in stream mode each is a message);
\* a window that was shut is announced with the next flush.
Recv(k) ==
  LET m == MoveReady([k EXCEPT !.rq = Tail(@)])
  IN  [m EXCEPT !.tell = @ \/ (Len(k.rq) >= Wnd /\ Len(m.rq) < Wnd)]

\* send, in stream mode: fill the last queued segment, then start another.
QueueChunk(k, chunk) ==
  LET l == Len(k.queue)
      room == IF l = 0 THEN 0 ELSE Mss - Len(k.queue[l])
      ext == IF room < Len(chunk) THEN room ELSE Len(chunk)
      grown == IF ext = 0 THEN k.queue
               ELSE [k.queue EXCEPT ![l] = @ \o SubSeq(chunk, 1, ext)]
      rest == SubSeq(chunk, ext + 1, Len(chunk))
  IN  [k EXCEPT !.queue = IF rest = <<>> THEN grown ELSE Append(grown, rest)]

QueueAll(k, chunks) ==
  LET queued[i \in 0 .. Len(chunks)] ==
        IF i = 0 THEN k ELSE QueueChunk(queued[i - 1], chunks[i])
  IN  queued[Len(chunks)]

\* parse_una, shrink_buf: forget the segments before una, from the front.
ParseUna(k, una) ==
  LET n == Cardinality({m \in 1 .. Len(k.buf) :
             \A i \in 1 .. m : Diff(una, k.buf[i].sn) > 0})
      kept == SubSeq(k.buf, n + 1, Len(k.buf))
  IN  [k EXCEPT !.buf = kept,
                !.una = IF kept = <<>> THEN k.nxt ELSE Head(kept).sn]

\* The data is freed now, the segment goes when una passes it.
Acknowledged(s) == [s EXCEPT !.acked = TRUE, !.data = <<>>]

\* Mutant: an acknowledgement is taken for all segments up to it
ParseAckBefore(k, sn) ==
  IF Diff(sn, k.una) < 0 \/ Diff(sn, k.nxt) >= 0 THEN k
  ELSE [k EXCEPT !.buf = [i \in DOMAIN k.buf |->
          IF Diff(k.buf[i].sn, sn) <= 0 THEN Acknowledged(k.buf[i]) ELSE k.buf[i]]]

\* parse_ack: of a segment that is outstanding
ParseAck(k, sn) ==
  IF Diff(sn, k.una) < 0 \/ Diff(sn, k.nxt) >= 0 THEN k
  ELSE [k EXCEPT !.buf = [i \in DOMAIN k.buf |->
          IF k.buf[i].sn = sn THEN Acknowledged(k.buf[i]) ELSE k.buf[i]]]

\* Mutant: a segment that waits in rcv_buf is put there again
ParseDataAgain(k, s) ==
  IF Diff(s.sn, Add(k.rnxt, Wnd)) >= 0 \/ Diff(s.sn, k.rnxt) < 0
  THEN MoveReady(k)
  ELSE LET earlier == Cardinality({i \in DOMAIN k.rbuf :
                                     Diff(s.sn, k.rbuf[i].sn) > 0})
       IN  MoveReady([k EXCEPT !.rbuf =
             InsertAt(@, earlier + 1, [sn |-> s.sn, data |-> s.data])])

\* parse_data: sorted insertion, unless the number is there or outside.
ParseData(k, s) ==
  IF \/ Diff(s.sn, Add(k.rnxt, Wnd)) >= 0
     \/ Diff(s.sn, k.rnxt) < 0
     \/ \E i \in DOMAIN k.rbuf : k.rbuf[i].sn = s.sn
  THEN MoveReady(k)
  ELSE LET earlier == Cardinality({i \in DOMAIN k.rbuf :
                                     Diff(s.sn, k.rbuf[i].sn) > 0})
       IN  MoveReady([k EXCEPT !.rbuf =
             InsertAt(@, earlier + 1, [sn |-> s.sn, data |-> s.data])])

\* One segment of a packet, in input: its window and una count whatever it is.
ParseSegment(k, s) ==
  LET a == ParseUna([k EXCEPT !.rmt = s.wnd], s.una)
  IN  CASE s.cmd = "ACK"  -> ParseAck(a, s.sn)
        [] s.cmd = "PUSH" ->
             IF Diff(s.sn, Add(a.rnxt, Wnd)) >= 0 THEN a
             ELSE LET b == [a EXCEPT !.acks = Append(@, s.sn)]
                  IN  IF Diff(s.sn, a.rnxt) < 0 THEN b ELSE ParseData(b, s)
        [] s.cmd = "WASK" -> [a EXCEPT !.tell = TRUE]
        [] s.cmd = "WINS" -> a

\* The segments of a packet, one after the other
ParseAll(k, packet) ==
  LET parsed[i \in 0 .. Len(packet)] ==
        IF i = 0 THEN k ELSE ParseSegment(parsed[i - 1], packet[i])
  IN  parsed[Len(packet)]

Unused(k) == IF Len(k.rq) < Wnd THEN Wnd - Len(k.rq) ELSE 0

\* How many new segments both windows have room for
Room(k) == -Diff(k.nxt, Add(k.una, IF Wnd < k.rmt THEN Wnd ELSE k.rmt))

\* Mutant: a shut window is never asked about
AsksNever(k, late) == FALSE

\* A shut window is asked about when the probe timer, armed by the flush
\* before, has run out.
Asks(k, late) == k.rmt = 0 /\ k.armed /\ late

\* The elements of s at the places J, in their order
Chosen(s, J) ==
  LET chosen[i \in 0 .. Len(s)] ==
        IF i = 0 THEN <<>>
        ELSE IF i \in J THEN Append(chosen[i - 1], s[i]) ELSE chosen[i - 1]
  IN  chosen[Len(s)]

\* flush: acknowledgements, window probes, new segments as far as both windows
\* allow, and of the old ones those in `due`; `late` is whether the probe timer
\* has run out.  What fits the MTU shares a packet: the small segments one, a
\* data segment, which is mss long or close to it, none.
Flush(k, due, late) ==
  LET seg(cmd, sn, data) == [cmd |-> cmd, sn |-> sn, una |-> k.rnxt,
                             wnd |-> Unused(k), data |-> data]
      numbers == IF k.acks = <<>> THEN <<>>
                 ELSE Append(Chosen(Front(k.acks),
                              {i \in DOMAIN k.acks : Diff(k.acks[i], k.rnxt) >= 0}),
                            Last(k.acks))
      acks == [i \in DOMAIN numbers |-> seg("ACK", numbers[i], <<>>)]
      probes == (IF Asks(k, late) THEN <<seg("WASK", k.una, <<>>)>> ELSE <<>>)
                \o (IF k.tell THEN <<seg("WINS", k.una, <<>>)>> ELSE <<>>)
      n == IF Room(k) <= 0 THEN 0
           ELSE IF Room(k) < Len(k.queue) THEN Room(k) ELSE Len(k.queue)
      fresh == [i \in 1 .. n |-> [sn |-> Add(k.nxt, i - 1),
                                  data |-> k.queue[i], acked |-> FALSE]]
      again == Chosen(k.buf,
                 {i \in DOMAIN k.buf : ~k.buf[i].acked /\ k.buf[i].sn \in due})
      sent == again \o fresh
      pushes == [i \in DOMAIN sent |-> seg("PUSH", sent[i].sn, sent[i].data)]
  IN  [k |-> [k EXCEPT !.acks = <<>>, !.tell = FALSE, !.armed = k.rmt = 0,
                       !.queue = SubSeq(@, n + 1, Len(@)),
                       !.buf = @ \o fresh, !.nxt = Add(@, n)],
       out |-> (IF acks \o probes = <<>> THEN <<>> ELSE <<acks \o probes>>)
               \o [i \in DOMAIN pushes |-> <<pushes[i]>>]]

\* The segments that may be sent again
Outstanding(k) == {k.buf[i].sn : i \in {j \in DOMAIN k.buf : ~k.buf[j].acked}}

\* What a flush may do, whatever the timers say.
Flushes(k) == {Flush(k, due, late) : due \in SUBSET Outstanding(k), late \in BOOLEAN}

\* input: all segments of a packet; a window that slides is used at once.
Inputs(k, packet) ==
  UNION {IF Len(m.buf) < Len(k.buf) THEN Flushes(m) ELSE {[k |-> m, out |-> <<>>]} :
           m \in {ParseAll(k, packet)}}

WaitSnd(k) == Len(k.buf) + Len(k.queue)

\* The condition under which a writer may go on.
MayWrite(k) == WaitSnd(k) < Wnd /\ WaitSnd(k) < k.rmt

\* transmit: pconn.send drops what its queue has no room for.
Transmit(size, packets, out) ==
  LET room == IF Len(packets) < size THEN size - Len(packets) ELSE 0
  IN  packets \o SubSeq(out, 1, IF Len(out) < room THEN Len(out) ELSE room)

\* release_tx: what was queued and what is outstanding is dropped.
ReleaseTx(k) == [k EXCEPT !.queue = <<>>, !.buf = <<>>]

-----------------------------------------------------------------------------
(* kcp_session.rs.                                                         *)

\* What e's engine becomes and sends.
Engine(e, f) ==
  /\ kcp' = [kcp EXCEPT ![e] = f.k]
  /\ net' = [net EXCEPT ![Peer(e)] = Transmit(NetSize[Peer(e)], @, f.out)]

\* read_loop: a packet arrives and is given to input; the i-th under way may
\* overtake those before it.
Deliver(e, i) ==
  /\ sess[e].input
  /\ i \in DOMAIN net[e]
  /\ Len(kcp[e].acks) < MaxAcks
  /\ i = 1 \/ faults < MaxFaults
  /\ faults' = IF i = 1 THEN faults ELSE faults + 1
  /\ \E f \in Inputs(kcp[e], net[e][i]) :
       /\ kcp' = [kcp EXCEPT ![e] = f.k]
       /\ net' = [net EXCEPT ![e] = RemoveAt(@, i),
                             ![Peer(e)] = Transmit(NetSize[Peer(e)], @, f.out)]
       /\ sess' = [sess EXCEPT ![e].readEvent = @ \/ f.k.rq # <<>>,
                               ![e].writeEvent = @ \/ MayWrite(f.k)]
  /\ UNCHANGED <<written, got>>

\* read_loop ends: the packet connection failed, or the session was closed.
\* Until then a closed session may still take packets.
RecvFails(e) ==
  /\ e \in Cut
  /\ sess[e].reader = "wait"
  /\ faults < MaxFaults
  /\ faults' = faults + 1
  /\ sess[e].input
  /\ sess' = [sess EXCEPT ![e].input = FALSE, ![e].failed = TRUE]
  /\ UNCHANGED <<kcp, net, written, got>>

RecvStops(e) ==
  /\ sess[e].die /\ sess[e].input
  /\ sess' = [sess EXCEPT ![e].input = FALSE]
  /\ UNCHANGED <<kcp, net, faults, written, got>>

\* update_loop
Flushed(e, f) ==
  /\ ~sess[e].die
  /\ Engine(e, f)
  /\ sess' = [sess EXCEPT ![e].writeEvent = @ \/ MayWrite(f.k)]
  /\ UNCHANGED <<faults, written, got>>

Tick(e) == \E f \in Flushes(kcp[e]) : Flushed(e, f)

\* All timers have run out.
LateTick(e) ==
  \E f \in {Flush(kcp[e], Outstanding(kcp[e]), TRUE)} : Flushed(e, f)

\* The reader looks: at once, or when it waits and was notified.
Looks(e) ==
  \/ sess[e].reader = "run"
  \/ sess[e].reader = "wait" /\ sess[e].readEvent

\* What is left of the permit once a waiting task was woken by it
Permit(waits, event) == event /\ ~waits

\* read: the rest of the last message, or the next one; what the caller's
\* buffer does not hold is kept.
Read(e, b) ==
  LET s == sess[e]
      msg == IF s.pending # <<>> THEN s.pending ELSE Head(kcp[e].rq)
      n == IF b < Len(msg) THEN b ELSE Len(msg)
  IN  /\ Looks(e)
      /\ s.pending # <<>> \/ kcp[e].rq # <<>>
      /\ got' = [got EXCEPT ![e] = @ \o SubSeq(msg, 1, n)]
      /\ sess' = [sess EXCEPT ![e] = [@ EXCEPT
                   !.pending = SubSeq(msg, n + 1, Len(msg)), !.reader = "run",
                   !.readEvent = Permit(s.reader = "wait", s.readEvent)]]
      /\ kcp' = IF s.pending # <<>> THEN kcp
                ELSE [kcp EXCEPT ![e] = Recv(@)]
      /\ UNCHANGED <<net, faults, written>>

ReadWaits(e) ==
  /\ Looks(e)
  /\ sess[e].pending = <<>> /\ kcp[e].rq = <<>>
  /\ sess' = [sess EXCEPT ![e] = [@ EXCEPT !.reader = "wait",
                !.readEvent = Permit(sess[e].reader = "wait", sess[e].readEvent)]]
  /\ UNCHANGED <<kcp, net, faults, written, got>>

\* The select of read: an error ends it, and with it smux's recv_loop.
ReadFails(e) ==
  /\ sess[e].reader = "wait"
  /\ sess[e].failed \/ sess[e].die
  /\ sess' = [sess EXCEPT ![e].reader = "failed"]
  /\ UNCHANGED <<kcp, net, faults, written, got>>

\* The next n byte numbers cut into chunks of at most mss
Chunks(from, n) ==
  [c \in 1 .. (n + Mss - 1) \div Mss |->
     [i \in 1 .. (IF c * Mss <= n THEN Mss ELSE n - (c - 1) * Mss) |->
        from + (c - 1) * Mss + i]]

\* write_buffers is called with buffers of the lengths w, or goes on with them
\* after a notification.  (Left out: a call that sees is_dead false at line 142
\* and takes the lock at 146 after a close.  It queues data behind what the close
\* forgot, and the peer may then read past the gap.)
Calls(e, w) ==
  \/ /\ sess[e].writer = "idle"
     /\ w \in Writes
     /\ written[e] + SumOf(w) <= MaxBytes[e]
  \/ /\ sess[e].writer = "wait"
     /\ sess[e].writeEvent
     /\ w = sess[e].todo

\* The buffers of lengths w, whose first byte is the one after `from`
QueueBuffers(k, from, w) ==
  LET queued[i \in 0 .. Len(w)] ==
        IF i = 0 THEN k
        ELSE QueueAll(queued[i - 1], Chunks(from + Sums(w)[i - 1], w[i]))
  IN  queued[Len(w)]

\* All buffers are queued in chunks and flushed.
Write(e, w) ==
  /\ Calls(e, w)
  /\ ~sess[e].die
  /\ MayWrite(kcp[e])
  /\ \E k \in {QueueBuffers(kcp[e], written[e], w)} :
       \E f \in Flushes(k) : Engine(e, f)
  /\ written' = [written EXCEPT ![e] = @ + SumOf(w)]
  /\ sess' = [sess EXCEPT ![e] = [@ EXCEPT !.writer = "idle", !.todo = <<>>,
               !.writeEvent = Permit(sess[e].writer = "wait", sess[e].writeEvent)]]
  /\ UNCHANGED <<faults, got>>

\* The windows have no room: wait to be notified.
WriteWaits(e, w) ==
  /\ Calls(e, w)
  /\ ~sess[e].die
  /\ ~MayWrite(kcp[e])
  /\ sess' = [sess EXCEPT ![e] = [@ EXCEPT !.writer = "wait", !.todo = w,
                !.writeEvent = Permit(sess[e].writer = "wait", sess[e].writeEvent)]]
  /\ UNCHANGED <<kcp, net, faults, written, got>>

\* A call that waits returns an error once the session is closed; a call that
\* finds it closed does so at once and changes nothing.
WriteFails(e) ==
  /\ sess[e].die
  /\ sess[e].writer = "wait"
  /\ sess' = [sess EXCEPT ![e].writer = "idle", ![e].todo = <<>>]
  /\ UNCHANGED <<kcp, net, faults, written, got>>

\* close: what is queued is flushed once, then forgotten.  (Bound: it comes
\* while a write waits, when it has most to do.)
Close(e) ==
  /\ e \in Closers
  /\ ~sess[e].die
  /\ sess[e].writer = "wait"
  /\ faults < MaxFaults
  /\ faults' = faults + 1
  /\ \E f \in Flushes(kcp[e]) :
       Engine(e, [k |-> ReleaseTx(f.k), out |-> f.out])
  /\ sess' = [sess EXCEPT ![e].die = TRUE]
  /\ UNCHANGED <<written, got>>

Session(e) ==
  \/ \E i \in DOMAIN net[e] : Deliver(e, i)
  \/ RecvFails(e)
  \/ RecvStops(e)
  \/ Tick(e)
  \/ \E b \in ReadSizes : Read(e, b)
  \/ ReadWaits(e)
  \/ ReadFails(e)
  \/ \E w \in Writes : Write(e, w) \/ WriteWaits(e, w)
  \/ WriteFails(e)
  \/ Close(e)

Next == \E e \in Side : Session(e)

Spec == Init /\ [][Next]_vars

\* The packets under way move (weak fairness of Deliver, written out: only a
\* delivery shortens net[e]), tasks run, a timer that is due fires.
Fairness == \A e \in Side :
  /\ \/ []<>~(sess[e].input /\ net[e] # <<>> /\ Len(kcp[e].acks) < MaxAcks)
     \/ []<><<Len(net'[e]) < Len(net[e])>>_vars
  /\ WF_vars(LateTick(e))
  /\ WF_vars(RecvStops(e))
  /\ WF_vars(\E b \in ReadSizes : Read(e, b))
  /\ WF_vars(ReadWaits(e))
  /\ WF_vars(ReadFails(e))
  /\ WF_vars(WriteFails(e))
  /\ WF_vars(/\ sess[e].writer = "wait"
             /\ \E w \in Writes : WriteWaits(e, w) \/ Write(e, w))

FairSpec == Spec /\ Fairness

-----------------------------------------------------------------------------
(* Properties.                                                             *)

Buffered(e) ==
  (UNION {Range(kcp[e].queue[i]) : i \in DOMAIN kcp[e].queue})
  \cup (UNION {Range(kcp[e].buf[i].data) : i \in DOMAIN kcp[e].buf})

\* Bytes that left e's buffers, acknowledged or by mistake.
Freed(e) == (1 .. written[e]) \ Buffered(e)

\* Bytes that reached the session at e.
Arrived(e) ==
  Range(got[e]) \cup Range(sess[e].pending)
  \cup (UNION {Range(kcp[e].rq[i]) : i \in DOMAIN kcp[e].rq})
  \cup (UNION {Range(kcp[e].rbuf[i].data) : i \in DOMAIN kcp[e].rbuf})

\* What an end forgets has arrived: parse_una and parse_ack free data early,
\* on numbers that wrap, from acknowledgements that are late and repeated.
FreedHasArrived ==
  \A e \in Side : ~sess[e].die => Freed(e) \subseteq Arrived(Peer(e))

\* Memory is bounded by the windows: segments in flight by snd_wnd, the queue
\* in front by the window and one write, what is received by rcv_wnd, twice
\* (rcv_buf accepts a window beyond a full rcv_queue).
Bounded ==
  \A e \in Side :
    /\ Len(kcp[e].buf) <= Wnd
    /\ \E w \in Writes :
         WaitSnd(kcp[e]) < Wnd + SumOf([i \in DOMAIN w |-> Len(Chunks(0, w[i]))])
    /\ Len(kcp[e].rq) <= Wnd
    /\ Len(kcp[e].rbuf) <= Wnd
    /\ \A i, j \in DOMAIN kcp[e].rbuf :
         i < j => Diff(kcp[e].rbuf[i].sn, kcp[e].rbuf[j].sn) < 0

Stream(e) == INSTANCE ReliableStream WITH
               MaxBytes <- MaxBytes[e], written <- written[e], read <- got[Peer(e)]

\* Each direction is a reliable stream: nothing is lost, repeated, reordered
\* or made up between write_buffers and read.
StreamSpec ==
  /\ \A e \in Side : Stream(e)!Init
  /\ [][\A e \in Side : [Stream(e)!Next]_<<written[e], got[Peer(e)]>>]_vars

\* Everything written is read in the end, however the packets are lost, while
\* nobody closes the session and its packet connection lasts.
AllArrives ==
  \/ <>~Ordinary
  \/ <>[](\A e \in Side : Len(got[Peer(e)]) = written[e])

\* A write that waits for the window returns, and a waiting read returns once
\* the session is closed or its packet connection has failed.
CallsReturn ==
  /\ []<>(\A e \in Side : sess[e].writer # "wait" \/ \E f \in Side : sess[f].failed)
  /\ <>[](\A e \in Side : sess[e].die \/ sess[e].failed => sess[e].reader = "failed")

\* Nobody waits for what a loss, a shut window or a close has taken away.
NothingStalls == AllArrives /\ CallsReturn
=============================================================================
