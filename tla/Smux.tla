-------------------------------- MODULE Smux --------------------------------
(***************************************************************************)
(* The two ends of an smux session (smux.rs, protocol version 2) on a      *)
(* reliable stream: what KCP gives, see ReliableStream.                    *)
(*                                                                         *)
(* Per end there are a send loop with its heap of requests, a receive loop *)
(* held back by the token bucket, the keep-alive, and per stream a reader, *)
(* a writer, an opener and a closer.  Whoever asks for a frame waits for   *)
(* its result, the session's end, or an error.  Bytes of a stream are      *)
(* numbered in the order they are written.                                 *)
(***************************************************************************)
EXTENDS Integers, FiniteSets, SequencesExt, Sums

CONSTANTS
  Side, Client,   \* the ends; Client opens the streams
  Streams,        \* number of streams
  Total,          \* per side, bytes written on a stream by write calls
  WriteSizes,     \* bytes per write call
  ReadSize,       \* length of the buffers that read is called with
  FrameSize,      \* max_frame_size
  FirstWindow,    \* INITIAL_PEER_WINDOW
  StreamBuffer,   \* max_stream_buffer
  ReceiveBuffer,  \* max_receive_buffer
  PipeSize,       \* frames the stream under the session holds
  MaxCloses,      \* bound on the streams closed, at both ends
  MaxEvents       \* bound on pings, closes, failures and timeouts of the sessions

ASSUME SmuxAssumption ==
  /\ Client \in Side /\ IsFiniteSet(Side) /\ Cardinality(Side) = 2
  /\ Streams \in Nat
  /\ Total \in [Side -> Nat]
  /\ WriteSizes \subseteq Nat \ {0}
  /\ {ReadSize, FrameSize, FirstWindow, StreamBuffer, PipeSize} \subseteq Nat \ {0}
  /\ ReceiveBuffer \in Nat /\ StreamBuffer <= ReceiveBuffer

Peer(s) == CHOOSE t \in Side : t # s

Stream == 1 .. Streams  \* stream ids, in the order of their use

VARIABLES
  sess,    \* per side: SessionInner and its loops
  str,     \* per side and stream: StreamInner, its reader, writer and closer
  pipe,    \* per side: frames under way to it
  got,     \* per side and stream: history, bytes read has returned
  events   \* pings, closes, failures and timeouts of the sessions so far

vars == <<sess, str, pipe, got, events>>

\* The bytes in a sequence of buffers
Bytes(data) == SumOf([k \in 1 .. Len(data) |-> Len(data[k])])

Init ==
  /\ sess = [s \in Side |->
       [die |-> FALSE, readError |-> FALSE, writeError |-> FALSE,
        bucket |-> ReceiveBuffer, permit |-> FALSE,
        recv |-> "run", charge |-> 0, to |-> 0, queue |-> <<>>, hand |-> <<>>,
        results |-> {}]]
  /\ str = [s \in Side |-> [i \in Stream |->
       [open |-> "no", tabled |-> FALSE, die |-> FALSE, fin |-> FALSE,
        buffers |-> <<>>, numRead |-> 0, incr |-> 0, event |-> FALSE,
        reader |-> "run", taken |-> <<>>,
        numWritten |-> 0, consumed |-> 0, window |-> FirstWindow,
        update |-> FALSE, writer |-> "idle", left |-> 0, burst |-> 0,
        queued |-> 0, closer |-> "no", owed |-> 0]]]
  /\ pipe = [s \in Side |-> <<>>]
  /\ got = [s \in Side |-> [i \in Stream |-> <<>>]]
  /\ events = 0

-----------------------------------------------------------------------------
(* Frames and tokens.                                                      *)

\* SYN, NOP and UPD are of class Ctrl, PSH and FIN of class Data.
Ctrl == {"SYN", "NOP", "UPD"}

Frame(cmd, i, data) == [cmd |-> cmd, sid |-> i, data |-> data]

\* Mutant: a FIN is taken for a control frame
HeapTopFin(queue) ==
  LET first == {k \in DOMAIN queue : queue[k].cmd \in Ctrl \cup {"FIN"}}
      among == IF first = {} THEN DOMAIN queue ELSE first
  IN  CHOOSE k \in among : \A j \in among : k <= j

\* The heap's order: control before data, then in the order of the requests.
HeapTop(queue) ==
  LET first == {k \in DOMAIN queue : queue[k].cmd \in Ctrl}
      among == IF first = {} THEN DOMAIN queue ELSE first
  IN  CHOOSE k \in among : \A j \in among : k <= j

\* write_frame up to its await: refused when the session is dead.
Refused(s) == sess[s].die \/ sess[s].writeError

Queued(ss, frame) == [ss EXCEPT !.queue = Append(@, frame)]

\* ... and its await: the result, or an error that ends the wait.
Sent(s, cmd, i) == <<cmd, i>> \in sess[s].results

Result(ss, cmd, i) == [ss EXCEPT !.results = @ \ {<<cmd, i>>}]

\* return_tokens
Return(ss, n) == [ss EXCEPT !.bucket = @ + n, !.permit = @ \/ ss.bucket + n > 0]

\* The receive loop holds the table's lock from a push to its charge.
TableFree(s) == sess[s].recv # "charge"

\* Mutant: what nobody has read is not given back
RecycleKeeps(s, i) ==
  /\ TableFree(s)
  /\ sess' = [sess EXCEPT ![s].results = @ \ {<<"FIN", i>>}]
  /\ str' = [str EXCEPT ![s][i] = [@ EXCEPT !.closer = "done", !.tabled = FALSE,
                                            !.buffers = <<>>]]

\* stream_closed: the stream leaves the table and gives its tokens back.
Recycle(s, i) ==
  LET n == Bytes(str[s][i].buffers)
      back == Result(sess[s], "FIN", i)
      unread == str[s][i].tabled /\ n > 0
  IN  /\ TableFree(s)
      /\ sess' = [sess EXCEPT ![s] = IF unread THEN Return(back, n) ELSE back]
      /\ str' = [str EXCEPT ![s][i] = [@ EXCEPT !.closer = "done", !.tabled = FALSE,
                   !.buffers = IF str[s][i].tabled THEN <<>> ELSE str[s][i].buffers]]

\* close_session: every stream in the table dies and its reader is notified.
Dead(s) ==
  /\ TableFree(s)
  /\ sess' = [sess EXCEPT ![s].die = TRUE]
  /\ str' = [str EXCEPT ![s] = [i \in Stream |->
               IF @[i].tabled THEN [@[i] EXCEPT !.die = TRUE, !.event = TRUE]
               ELSE @[i]]]

Event == events < MaxEvents /\ events' = events + 1

-----------------------------------------------------------------------------
(* open_stream, accept_stream, close.                                      *)

OpenStart(s, i) ==
  /\ s = Client
  /\ str[s][i].open = "no"
  /\ IF Refused(s)
       THEN /\ str' = [str EXCEPT ![s][i].open = "failed"]
            /\ sess' = sess
       ELSE /\ str' = [str EXCEPT ![s][i].open = "syn"]
            /\ sess' = [sess EXCEPT ![s] = Queued(@, Frame("SYN", i, <<>>))]
  /\ UNCHANGED <<pipe, got, events>>

\* The SYN is written and no error is known: the last check before the insert.
OpenChecks(s, i) ==
  /\ str[s][i].open = "syn"
  /\ Sent(s, "SYN", i)
  /\ sess' = [sess EXCEPT ![s] = Result(@, "SYN", i)]
  /\ str' = [str EXCEPT ![s][i].open =
       IF sess[s].readError \/ Refused(s) THEN "failed" ELSE "insert"]
  /\ UNCHANGED <<pipe, got, events>>

OpenInserts(s, i) ==
  /\ str[s][i].open = "insert"
  /\ TableFree(s)
  /\ str' = [str EXCEPT ![s][i] = [@ EXCEPT !.open = "open", !.tabled = TRUE]]
  /\ UNCHANGED <<sess, pipe, got, events>>

\* The wait for the SYN ends with an error or after 30 s.
OpenFails(s, i) ==
  /\ str[s][i].open = "syn"
  /\ \/ Refused(s) /\ events' = events
     \/ ~Sent(s, "SYN", i) /\ Event
  /\ str' = [str EXCEPT ![s][i].open = "failed"]
  /\ UNCHANGED <<sess, pipe, got>>

Accept(s, i) ==
  /\ s # Client
  /\ str[s][i].open = "no" /\ str[s][i].tabled
  /\ str' = [str EXCEPT ![s][i].open = "open"]
  /\ UNCHANGED <<sess, pipe, got, events>>

\* The server writes and closes when it has read something, as a bridge does:
\* data and a FIN that come before the opener's insert would be dropped.
Spoken(s, i) == s = Client \/ got[s][i] # <<>>

\* Streams closed so far
Closes == Cardinality({x \in Side \X Stream : str[x[1]][x[2]].closer # "no"})

\* close: later calls return an error at once.  owed is what the peer must
\* read before it may see the end.
CloseStart(s, i) ==
  /\ Closes < MaxCloses
  /\ Spoken(s, i)
  /\ str[s][i].open = "open"
  /\ ~str[s][i].die
  /\ str' = [str EXCEPT ![s][i] = [@ EXCEPT !.die = TRUE, !.closer = "fin",
                                            !.owed = str[s][i].queued]]
  /\ sess' = IF Refused(s) THEN sess
             ELSE [sess EXCEPT ![s] = Queued(@, Frame("FIN", i, <<>>))]
  /\ UNCHANGED <<pipe, got, events>>

\* ... and the stream is taken from the table, the FIN written or not.
CloseEnds(s, i) ==
  /\ str[s][i].closer = "fin"
  /\ \/ (Sent(s, "FIN", i) \/ Refused(s)) /\ events' = events
     \/ ~Sent(s, "FIN", i) /\ Event
  /\ Recycle(s, i)
  /\ UNCHANGED <<pipe, got>>

-----------------------------------------------------------------------------
(* write_v2.                                                               *)

\* The PSH frame with the next n bytes
Chunk(t, i, n) == Frame("PSH", i, [k \in 1 .. n |-> t.queued + k])

ChunkSize(t) == IF t.burst < FrameSize THEN t.burst ELSE FrameSize

\* Mutant: the last chunk of a burst is not counted
CountedLess(t) ==
  [t EXCEPT !.numWritten = IF t.burst > FrameSize THEN @ + ChunkSize(t) ELSE @,
            !.burst = @ - ChunkSize(t)]

\* num_written after a chunk of the burst
Counted(t) == [t EXCEPT !.numWritten = @ + ChunkSize(t), !.burst = @ - ChunkSize(t)]

\* The next chunk of a burst is queued, or refused.  num_written counts a
\* chunk once its result is there, good or bad.
NextChunk(s, i, t) ==
  LET n == ChunkSize(t)
  IN  IF Refused(s)
      THEN /\ str' = [str EXCEPT ![s][i] = [Counted(t) EXCEPT !.writer = "error"]]
           /\ sess' = [sess EXCEPT ![s] = Result(@, "PSH", i)]
      ELSE /\ str' = [str EXCEPT ![s][i] =
                [t EXCEPT !.writer = "sending", !.queued = @ + n]]
           /\ sess' = [sess EXCEPT ![s] =
                Queued(Result(@, "PSH", i), Chunk(t, i, n))]

\* The head of write_v2's loop, with t.left bytes to go: a burst that fits the
\* window, or a wait for an update.
Loop(s, i, t) ==
  LET inflight == t.numWritten - t.consumed
      win == t.window - inflight
      burst == IF win < t.left THEN win ELSE t.left
  IN  IF inflight < 0
      THEN str' = [str EXCEPT ![s][i] = [t EXCEPT !.writer = "overrun"]] /\ sess' = sess
      ELSE IF win > 0
      THEN NextChunk(s, i, [t EXCEPT !.burst = burst, !.left = @ - burst])
      ELSE str' = [str EXCEPT ![s][i] = [t EXCEPT !.writer = "stall"]] /\ sess' = sess

\* A write of n bytes starts.
WriteStart(s, i, n) ==
  LET t == str[s][i]
  IN  /\ t.open = "open" /\ t.writer = "idle"
      /\ t.queued + n <= Total[s]
      /\ Spoken(s, i)
      /\ IF t.fin \/ t.die
           THEN str' = [str EXCEPT ![s][i].writer = "error"] /\ sess' = sess
           ELSE Loop(s, i, [t EXCEPT !.left = n])
      /\ UNCHANGED <<pipe, got, events>>

\* A chunk was written: the next one, or the end of the call, or a wait for an
\* update.
WriteSent(s, i) ==
  \E t \in {Counted(str[s][i])} :
    /\ t.writer = "sending"
    /\ Sent(s, "PSH", i)
    /\ IF t.burst > 0 THEN NextChunk(s, i, t)
       ELSE /\ str' = [str EXCEPT ![s][i] =
                 [t EXCEPT !.writer = IF t.left = 0 THEN "idle" ELSE "stall"]]
            /\ sess' = [sess EXCEPT ![s] = Result(@, "PSH", i)]
    /\ UNCHANGED <<pipe, got, events>>

WriteFails(s, i) ==
  /\ \/ str[s][i].writer = "sending" /\ Refused(s)
     \/ str[s][i].writer = "stall"
        /\ (str[s][i].fin \/ str[s][i].die \/ sess[s].writeError)
  /\ str' = [str EXCEPT ![s][i].writer = "error"]
  /\ UNCHANGED <<sess, pipe, got, events>>

WriteUpdated(s, i) ==
  /\ str[s][i].writer = "stall"
  /\ str[s][i].update
  /\ Loop(s, i, [str[s][i] EXCEPT !.update = FALSE])
  /\ UNCHANGED <<pipe, got, events>>

-----------------------------------------------------------------------------
(* read.                                                                   *)

\* Mutant: the peer is told only after half a buffer, the first read included
TellsLate(t, n) == t.incr + n >= StreamBuffer \div 2 /\ t.numRead > 0

\* Whether a read of n bytes is announced to the peer
Tells(t, n) == t.incr + n >= StreamBuffer \div 2 \/ t.numRead = 0

\* try_read with bytes in the buffer: tokens go back, and the peer is told
\* after half a buffer and after the first read.
Read(s, i) ==
  LET t == str[s][i]
      front == Head(t.buffers)
      n == IF Len(front) < ReadSize THEN Len(front) ELSE ReadSize
      rest == IF n = Len(front) THEN Tail(t.buffers)
              ELSE <<SubSeq(front, n + 1, Len(front))>> \o Tail(t.buffers)
      tells == Tells(t, n)
      u == [t EXCEPT !.buffers = rest, !.numRead = @ + n,
                     !.incr = IF tells THEN 0 ELSE @ + n]
      back == Return(sess[s], n)
  IN  /\ t.open = "open" /\ t.reader = "run" /\ t.buffers # <<>>
      /\ \/ /\ tells /\ Refused(s)
            /\ str' = [str EXCEPT ![s][i] = [u EXCEPT !.reader = "error"]]
            /\ sess' = [sess EXCEPT ![s] = back]
            /\ got' = got
         \/ /\ tells /\ ~Refused(s)
            /\ str' = [str EXCEPT ![s][i] =
                 [u EXCEPT !.reader = "telling", !.taken = SubSeq(front, 1, n)]]
            /\ sess' = [sess EXCEPT ![s] = Queued(back, Frame("UPD", i, u.numRead))]
            /\ got' = got
         \/ /\ ~tells
            /\ str' = [str EXCEPT ![s][i] = u]
            /\ sess' = [sess EXCEPT ![s] = back]
            /\ got' = [got EXCEPT ![s][i] = @ \o SubSeq(front, 1, n)]
      /\ UNCHANGED <<pipe, events>>

\* send_window_update returned, and read does.
ReadTold(s, i) ==
  /\ str[s][i].reader = "telling"
  /\ \/ /\ Sent(s, "UPD", i)
        /\ str' = [str EXCEPT ![s][i] = [@ EXCEPT !.reader = "run", !.taken = <<>>]]
        /\ got' = [got EXCEPT ![s][i] = @ \o str[s][i].taken]
     \/ /\ Refused(s)
        /\ str' = [str EXCEPT ![s][i] = [@ EXCEPT !.reader = "error", !.taken = <<>>]]
        /\ got' = got
  /\ sess' = [sess EXCEPT ![s] = Result(@, "UPD", i)]
  /\ UNCHANGED <<pipe, events>>

\* try_read with nothing buffered: the end if the stream is dead, else wait.
ReadNothing(s, i) ==
  /\ str[s][i].open = "open" /\ str[s][i].reader = "run"
  /\ str[s][i].buffers = <<>>
  /\ str' = [str EXCEPT ![s][i].reader = IF str[s][i].die THEN "eof" ELSE "wait"]
  /\ UNCHANGED <<sess, pipe, got, events>>

\* Mutant: a FIN ends the reading at once
FinEndsAlways(t) == "eof"

\* A FIN ends the reading when the buffer is empty.
FinEnds(t) == IF t.buffers = <<>> THEN "eof" ELSE "run"

\* wait_read: one of the branches that are ready
ReadWakes(s, i) ==
  LET t == str[s][i]
  IN  /\ t.reader = "wait"
      /\ \/ /\ t.event
            /\ str' = [str EXCEPT ![s][i] = [@ EXCEPT !.reader = "run", !.event = FALSE]]
         \/ /\ t.fin
            /\ str' = [str EXCEPT ![s][i].reader = FinEnds(t)]
         \/ /\ sess[s].readError \/ t.die
            /\ str' = [str EXCEPT ![s][i].reader = "error"]
      /\ UNCHANGED <<sess, pipe, got, events>>

-----------------------------------------------------------------------------
(* send_loop, recv_loop, keepalive, close_session.                         *)

SendTakes(s) ==
  /\ ~sess[s].die /\ ~sess[s].writeError
  /\ sess[s].hand = <<>> /\ sess[s].queue # <<>>
  /\ \E k \in {HeapTop(sess[s].queue)} :
       sess' = [sess EXCEPT ![s] = [@ EXCEPT !.hand = <<sess[s].queue[k]>>,
                                             !.queue = RemoveAt(sess[s].queue, k)]]
  /\ UNCHANGED <<str, pipe, got, events>>

\* The frame is written when the stream under the session has room, and the
\* result goes to whoever asked.
SendWrites(s) ==
  /\ ~sess[s].die /\ ~sess[s].writeError
  /\ sess[s].hand # <<>>
  /\ Len(pipe[Peer(s)]) < PipeSize
  /\ pipe' = [pipe EXCEPT ![Peer(s)] = Append(@, sess[s].hand[1])]
  /\ sess' = [sess EXCEPT ![s] = [@ EXCEPT !.hand = <<>>,
       !.results = IF sess[s].hand[1].cmd = "NOP" THEN sess[s].results
                   ELSE sess[s].results \cup
                          {<<sess[s].hand[1].cmd, sess[s].hand[1].sid>>}]]
  /\ UNCHANGED <<str, got, events>>

SendFails(s) ==
  /\ ~sess[s].die /\ ~sess[s].writeError
  /\ sess[s].hand # <<>>
  /\ Event
  /\ sess' = [sess EXCEPT ![s].writeError = TRUE]
  /\ UNCHANGED <<str, pipe, got>>

\* The receive loop goes on when there are tokens, and waits otherwise.
RecvBlocks(s) ==
  /\ sess[s].recv = "run" /\ ~sess[s].die
  /\ sess[s].bucket <= 0
  /\ sess' = [sess EXCEPT ![s].recv = "blocked"]
  /\ UNCHANGED <<str, pipe, got, events>>

RecvWakes(s) ==
  /\ sess[s].recv = "blocked"
  /\ sess[s].permit
  /\ sess' = [sess EXCEPT ![s] = [@ EXCEPT !.recv = "run", !.permit = FALSE]]
  /\ UNCHANGED <<str, pipe, got, events>>

Takes(s, cmd) ==
  /\ sess[s].recv = "run" /\ sess[s].bucket > 0
  /\ ~sess[s].die
  /\ pipe[s] # <<>>
  /\ Head(pipe[s]).cmd = cmd
  /\ pipe' = [pipe EXCEPT ![s] = Tail(@)]
  /\ UNCHANGED <<got, events>>

RecvSyn(s) ==
  /\ Takes(s, "SYN")
  /\ str' = [str EXCEPT ![s][Head(pipe[s]).sid].tabled = TRUE]
  /\ sess' = sess

RecvNop(s) ==
  /\ Takes(s, "NOP")
  /\ UNCHANGED <<sess, str>>

RecvFin(s) ==
  /\ Takes(s, "FIN")
  /\ sess' = sess
  /\ str' = IF str[s][Head(pipe[s]).sid].tabled
            THEN [str EXCEPT ![s][Head(pipe[s]).sid] =
                   [@ EXCEPT !.fin = TRUE, !.event = TRUE]]
            ELSE str

\* Data for a stream in the table is buffered: a reader that runs may take it
\* before its tokens are charged and a reader that waits is notified.
RecvPsh(s) ==
  LET f == Head(pipe[s])
  IN  /\ Takes(s, "PSH")
      /\ IF str[s][f.sid].tabled
           THEN /\ str' = [str EXCEPT ![s][f.sid].buffers = Append(@, f.data)]
                /\ sess' = [sess EXCEPT ![s] = [@ EXCEPT !.recv = "charge",
                                !.charge = Len(f.data), !.to = f.sid]]
           ELSE UNCHANGED <<sess, str>>

RecvCharges(s) ==
  /\ sess[s].recv = "charge"
  /\ sess' = [sess EXCEPT ![s] = [@ EXCEPT !.recv = "run", !.charge = 0, !.to = 0,
                                           !.bucket = sess[s].bucket - sess[s].charge]]
  /\ str' = [str EXCEPT ![s][sess[s].to].event = TRUE]
  /\ UNCHANGED <<pipe, got, events>>

RecvUpd(s) ==
  LET f == Head(pipe[s])
  IN  /\ Takes(s, "UPD")
      /\ sess' = sess
      /\ str' = IF str[s][f.sid].tabled
                THEN [str EXCEPT ![s][f.sid] = [@ EXCEPT !.consumed = f.data,
                                      !.window = StreamBuffer, !.update = TRUE]]
                ELSE str

RecvFails(s) ==
  /\ sess[s].recv = "run" /\ ~sess[s].die
  /\ Event
  /\ sess' = [sess EXCEPT ![s] = [@ EXCEPT !.recv = "stopped", !.readError = TRUE]]
  /\ UNCHANGED <<str, pipe, got>>

\* A ping: a NOP is asked for, and the receive loop looks at its bucket.
Ping(s) ==
  /\ ~sess[s].die
  /\ Event
  /\ \E ss \in {[sess[s] EXCEPT !.permit = TRUE]} :
       sess' = [sess EXCEPT ![s] =
         IF Refused(s) THEN ss ELSE Queued(ss, Frame("NOP", 0, <<>>))]
  /\ UNCHANGED <<str, pipe, got>>

\* The keep-alive's timeout: no frame came since the last one (which is possible
\* at any time, so data_ready is no state here) although there were tokens.
TimeOut(s) ==
  /\ ~sess[s].die
  /\ sess[s].bucket > 0
  /\ Event
  /\ Dead(s)
  /\ UNCHANGED <<pipe, got>>

\* Session::close
CloseSession(s) ==
  /\ ~sess[s].die
  /\ Event
  /\ Dead(s)
  /\ UNCHANGED <<pipe, got>>

-----------------------------------------------------------------------------
Open(s, i) == \/ OpenStart(s, i) \/ OpenChecks(s, i) \/ OpenInserts(s, i)
              \/ OpenFails(s, i) \/ Accept(s, i)

Close(s, i) == CloseStart(s, i) \/ CloseEnds(s, i)

Write(s, i) == \/ \E n \in WriteSizes : WriteStart(s, i, n)
               \/ WriteSent(s, i) \/ WriteFails(s, i) \/ WriteUpdated(s, i)

Reader(s, i) == \/ Read(s, i) \/ ReadTold(s, i)
                \/ ReadNothing(s, i) \/ ReadWakes(s, i)

Send(s) == SendTakes(s) \/ SendWrites(s) \/ SendFails(s)

Recv(s) == \/ RecvBlocks(s) \/ RecvWakes(s) \/ RecvCharges(s)
           \/ RecvSyn(s) \/ RecvNop(s) \/ RecvFin(s) \/ RecvPsh(s) \/ RecvUpd(s)

KeepAlive(s) == Ping(s) \/ TimeOut(s)

Next == \E s \in Side :
  \/ Send(s) \/ Recv(s) \/ RecvFails(s) \/ KeepAlive(s) \/ CloseSession(s)
  \/ \E i \in Stream : Open(s, i) \/ Close(s, i) \/ Write(s, i) \/ Reader(s, i)

Spec == Init /\ [][Next]_vars

\* Weak fairness of the loops and of reads, in the form that TLC checks fast: a
\* step of each that can be taken, and what tells it from the steps of others.
CanSend(s) ==
  /\ ~Refused(s)
  /\ IF sess[s].hand = <<>> THEN sess[s].queue # <<>>
     ELSE Len(pipe[Peer(s)]) < PipeSize

CanReceive(s) ==
  \/ sess[s].recv = "run" /\ ~sess[s].die /\ (sess[s].bucket <= 0 \/ pipe[s] # <<>>)
  \/ sess[s].recv = "blocked" /\ sess[s].permit
  \/ sess[s].recv = "charge"

CanRead(s, i) ==
  LET t == str[s][i]
  IN  /\ t.open = "open"
      /\ \/ t.reader = "run"
         \/ t.reader = "telling" /\ (Sent(s, "UPD", i) \/ Refused(s))
         \/ t.reader = "wait" /\ (t.event \/ t.fin \/ t.die \/ sess[s].readError)

Reads(s, i) == <<str[s][i].reader, str[s][i].numRead>>

\* Tasks that can run do.  Nothing is fair about when streams are opened and
\* closed, calls start, pings and timeouts come, or the session fails.
Fairness == \A s \in Side :
  /\ []<>~CanSend(s) \/ []<><<sess[s].hand # sess'[s].hand>>_vars
  /\ []<>~CanReceive(s)
     \/ []<><<sess[s].recv # sess'[s].recv \/ Len(pipe'[s]) < Len(pipe[s])>>_vars
  /\ \A i \in Stream :
       /\ WF_vars(OpenChecks(s, i) \/ OpenInserts(s, i)
                    \/ (Accept(s, i) /\ ~sess[s].die))
       /\ WF_vars(WriteSent(s, i) \/ WriteFails(s, i) \/ WriteUpdated(s, i))
       /\ []<>~CanRead(s, i) \/ []<><<Reads(s, i) # Reads(s, i)'>>_vars
       /\ WF_vars(CloseEnds(s, i) /\ events' = events)

FairSpec == Spec /\ Fairness

-----------------------------------------------------------------------------
(* Properties.                                                             *)

\* The bytes that an end has buffered
Buffered(s) == SumOf([i \in Stream |-> Bytes(str[s][i].buffers)])

\* Whatever is read, closed or refused, and however the receive loop's charge
\* lags behind: the bucket holds what is not buffered.
TokensConserved ==
  \A s \in Side : sess[s].bucket - sess[s].charge = ReceiveBuffer - Buffered(s)

\* What an end reads is what the other wrote, in order; and an end of file in a
\* session that lives means that the peer closed the stream and everything it
\* had written before was read, unless this end closed it itself.
WholeStream ==
  \A s \in Side, i \in Stream :
    /\ got[s][i] = [k \in 1 .. Len(got[s][i]) |-> k]
    /\ Len(got[s][i]) <= str[Peer(s)][i].queued
    /\ str[s][i].reader = "eof" /\ ~sess[s].die /\ str[s][i].closer = "no" =>
         /\ str[Peer(s)][i].closer # "no"
         /\ Len(got[s][i]) >= str[Peer(s)][i].owed

\* A writer's view of the window is safe although it counts a chunk only when
\* its result is back: an update never claims more than was counted, and what
\* the peer holds unread never exceeds its window.
WindowKept ==
  \A s \in Side, i \in Stream :
    /\ str[s][i].writer # "overrun"
    /\ Bytes(str[s][i].buffers)
         <= IF FirstWindow < StreamBuffer THEN StreamBuffer ELSE FirstWindow

\* A write returns while the session works: the window never stays shut when
\* the peer reads what it gets.  (When only the receive loop failed, it waits
\* for the keep-alive's timeout.)
Works == \A s \in Side : ~sess[s].die /\ ~sess[s].readError /\ ~sess[s].writeError

WriteReturns ==
  \A s \in Side, i \in Stream :
    \/ []<>(str[s][i].writer \notin {"sending", "stall"})
    \/ <>~Works

\* A stream that is in the table when its session is closed does not leave its
\* reader waiting.  (One that open_stream inserts after that does: the session
\* was looked at before, and nobody marks the stream dead any more.)
ReadersReturn ==
  \A s \in Side, i \in Stream :
    (str[s][i].open = "open" /\ str[s][i].tabled /\ ~sess[s].die)
      ~> (str[s][i].reader \in {"eof", "error"} \/ []~sess[s].die)

\* Writes and reads return.
CallsReturn == WriteReturns /\ ReadersReturn

\* `Ok(0)` is EOF (the peer sent FIN and everything was read).  It fails: a
\* session that dies ends its readers the same way.
EofMeansFin ==
  \A s \in Side, i \in Stream :
    str[s][i].reader = "eof" /\ str[s][i].closer = "no" => str[s][i].fin
=============================================================================
