----------------------------- MODULE Obfs4Conn -----------------------------
(***************************************************************************)
(* One direction of an established obfs4 connection: Obfs4Writer cuts what *)
(* it is given into frames, pads them and paces them onto the socket;      *)
(* Obfs4Reader at the other end finds the frames again (obfs4/domain:      *)
(* conn.rs, framing.rs, packet.rs).                                        *)
(*                                                                         *)
(* Bytes are counted, not spelled out.  `frames` holds the frames the      *)
(* reader has not decoded yet; their bytes are, from the front, in the     *)
(* reader's buffer, in the socket, and still in the writer's burst.        *)
(***************************************************************************)
EXTENDS Integers, Sums

CONSTANTS
  Seg,          \* MAXIMUM_SEGMENT_LENGTH
  Header,       \* HEADER_LENGTH: what a frame and a packet add to the data
  ZeroSamples,  \* MAX_ZERO_LENGTH_SAMPLES
  SockSize,     \* room in the socket
  Tables,       \* the length tables a seed may give: sets of lengths
  Modes,        \* iat-mode of the connection
  MaxWrite,     \* bound on the bytes of one write
  MaxWrites     \* bound on the writes

ASSUME ConnAssumption ==
  /\ Seg \in Nat /\ Header \in Nat \ {0}
  /\ 2 * Header < Seg
  /\ ZeroSamples \in Nat
  /\ SockSize \in Nat \ {0}
  /\ \A t \in Tables : t # {} /\ t \subseteq 0 .. Seg
  /\ Modes \subseteq {"none", "enabled", "paranoid"}
  /\ MaxWrite \in Nat /\ MaxWrites \in Nat

MaxPayload == Seg - Header  \* MAX_PACKET_PAYLOAD_LENGTH

VARIABLES
  mode,    \* iat_mode
  table,   \* the lengths that can be sampled (Dists.len)
  fromServer, \* whether the server is the writer
  writer,  \* "idle", "loop", "writing" or "failed"
  chunk,   \* bytes of the current write_all still to go
  zeros,   \* zero_samples
  burst,   \* bytes of the burst not yet written
  frames,  \* the frames not yet decoded
  sock,    \* bytes in the socket
  recv,    \* Obfs4Reader.receive, from the front of `frames`
  reader,  \* "handshake", "call", "decode", "wait", "ended" or "failed"
  error,   \* Obfs4Reader.error
  eof,     \* Obfs4Reader.eof
  decoded, \* data bytes decoded and not yet read
  shut,    \* the writer has shut the connection down
  writes,  \* writes begun
  seeded,  \* whether the client's reader has had its seed
  given,   \* history: data bytes written
  read,    \* history: data bytes read
  cut      \* history: [len, from]: the length cut for this write, and the lengths it may have

envVars    == <<mode, table, fromServer, seeded>>
writerVars == <<writer, chunk, zeros, burst, writes, given, shut, cut>>
readerVars == <<recv, reader, error, eof, decoded, read>>
vars == <<envVars, writerVars, frames, sock, readerVars>>

\* A frame: its length on the wire, its data, and, if it was damaged, the
\* bytes after which the decoder says so.
Data(n) == [len |-> n + Header, data |-> n, bad |-> 0]
Pad(n)  == [len |-> n + Header, data |-> 0, bad |-> 0]
Lengths(fs) == SumOf([i \in 1 .. Len(fs) |-> fs[i].len])
Datas(fs)   == SumOf([i \in 1 .. Len(fs) |-> fs[i].data])

Least(m, n) == IF m <= n THEN m ELSE n

NoCut == [len |-> 0, from |-> {}]

TypeOK ==
  /\ mode \in Modes /\ table \in Tables
  /\ writer \in {"idle", "loop", "writing", "failed"}
  /\ zeros \in 0 .. ZeroSamples
  /\ chunk \in 0 .. burst
  /\ \A i \in DOMAIN frames :
       frames[i].len \in Header .. Seg /\ frames[i].data \in 0 .. MaxPayload
  /\ sock \in 0 .. SockSize
  /\ recv \in Nat /\ decoded \in Nat /\ read \in Nat
  /\ reader \in {"handshake", "call", "decode", "wait", "ended", "failed"}
  /\ {fromServer, seeded, error, eof, shut} \subseteq BOOLEAN

\* The server's first frame is its PRNG seed, sent with its handshake.
Init ==
  /\ mode \in Modes
  /\ table \in Tables
  /\ fromServer \in BOOLEAN
  /\ frames = IF fromServer THEN <<Pad(1)>> ELSE <<>>
  /\ burst = Lengths(frames)
  /\ chunk = burst
  /\ writer = IF fromServer THEN "writing" ELSE "idle"
  /\ reader = IF fromServer THEN "handshake" ELSE "call"
  /\ sock = 0 /\ recv = 0 /\ decoded = 0
  /\ error = FALSE /\ eof = FALSE /\ shut = FALSE /\ seeded = FALSE
  /\ zeros = 0 /\ writes = 0 /\ given = 0 /\ read = 0
  /\ cut = NoCut

----------------------------------------------------------------------------
(* Frames *)

\* b.chunks(MAX_PACKET_PAYLOAD_LENGTH), one packet each.
Packets(n) ==
  [i \in 1 .. (n + MaxPayload - 1) \div MaxPayload |->
     Data(Least(MaxPayload, n - (i - 1) * MaxPayload))]

\* What is missing for the last segment to be `target` long.
Missing(pending, target) ==
  LET tail == pending % Seg
  IN  IF target >= tail THEN target - tail ELSE Seg - tail + target

\* pad_burst: a gap too small for a packet takes a full packet and a second
\* one with as much padding as the gap: a header longer than asked.
PadBurst(pending, target) ==
  LET gap == Missing(pending, target)
  IN  CASE gap > Header -> <<Pad(gap - Header)>>
        [] gap \in 1 .. Header -> <<Pad(MaxPayload), Pad(gap)>>
        [] gap = 0      -> <<>>

----------------------------------------------------------------------------
(* Obfs4Writer *)

\* The last segment of a burst of n bytes.
LastSegment(n) == IF n % Seg = 0 THEN Seg ELSE n % Seg

Begin(n, fs) ==
  /\ writer = "idle" /\ ~shut
  /\ writes < MaxWrites
  /\ writes' = writes + 1
  /\ given' = given + n
  /\ frames' = frames \o fs
  /\ burst' = Lengths(fs)
  /\ zeros' = 0
  /\ UNCHANGED <<envVars, sock, readerVars, shut>>

\* write_all, not paranoid: frames and padding up to a sampled length.
WritePadded(n, target) ==
  /\ mode # "paranoid"
  /\ LET fs == Packets(n) \o PadBurst(Lengths(Packets(n)), target)
     IN /\ Begin(n, fs)
        /\ cut' = [len |-> LastSegment(Lengths(fs)), from |-> table]
        /\ IF mode = "none" THEN writer' = "writing" /\ chunk' = Lengths(fs)
                            ELSE writer' = "loop" /\ chunk' = 0

\* write_all, paranoid: padding comes in the loop.
WriteParanoid(n) ==
  /\ mode = "paranoid"
  /\ Begin(n, Packets(n))
  /\ writer' = "loop" /\ chunk' = 0 /\ cut' = cut

Write == \E n \in 1 .. MaxWrite :
           WriteParanoid(n) \/ \E target \in table : WritePadded(n, target)

InLoop == writer = "loop" /\ burst > 0

loopUnchanged == <<envVars, sock, readerVars, shut, writes, given>>

\* A write of n bytes begins.
Send(n) ==
  /\ writer' = "writing"
  /\ chunk' = n
  /\ zeros' = 0

\* "enabled": segments of at most the maximum length.
Segment ==
  /\ InLoop /\ mode = "enabled"
  /\ Send(Least(burst, Seg))
  /\ UNCHANGED <<loopUnchanged, frames, burst, cut>>

\* Mutant: zero lengths are sampled again without end.
SampleZeroEver ==
  /\ InLoop /\ mode = "paranoid" /\ 0 \in table
  /\ UNCHANGED <<loopUnchanged, frames, burst, writer, chunk, zeros, cut>>

\* Zero is sampled again, at most so many times in a row; then the write is
\* as long as one segment.
SampleZero ==
  /\ InLoop /\ mode = "paranoid" /\ 0 \in table
  /\ IF zeros < ZeroSamples
       THEN zeros' = zeros + 1 /\ UNCHANGED <<writer, chunk, cut>>
       ELSE /\ Send(Least(burst, Seg))
            /\ cut' = [len |-> Least(burst, Seg), from |-> {0}]
  /\ UNCHANGED <<loopUnchanged, frames, burst>>

\* Mutant: padding that does not fit is encoded and forgotten.
SamplePadLost(target) ==
  /\ InLoop /\ mode = "paranoid" /\ target > 0 /\ target \in table
  /\ LET pad  == IF burst < target THEN PadBurst(burst, target) ELSE <<>>
         full == burst + Lengths(pad)
     IN /\ frames' = frames \o pad
        /\ IF full < target \/ (pad # <<>> /\ full # target)
             THEN UNCHANGED <<writer, chunk, zeros, burst, cut>>
             ELSE /\ Send(target) /\ burst' = full
                  /\ cut' = [len |-> target, from |-> table]
  /\ UNCHANGED loopUnchanged

\* Mutant: what is padded past the target is sent as one write.
SampleSpills(target) ==
  /\ InLoop /\ mode = "paranoid" /\ target > 0 /\ target \in table
  /\ LET pad  == IF burst < target THEN PadBurst(burst, target) ELSE <<>>
         full == burst + Lengths(pad)
         n    == IF pad # <<>> THEN full ELSE target
     IN /\ frames' = frames \o pad
        /\ burst' = full
        /\ Send(n)
        /\ cut' = [len |-> n, from |-> table]
  /\ UNCHANGED loopUnchanged

\* A sampled length: a shorter burst is padded up to it; if the padding went
\* past it another length is sampled, otherwise that many bytes are written.
Sample(target) ==
  /\ InLoop /\ mode = "paranoid" /\ target > 0 /\ target \in table
  /\ LET pad  == IF burst < target THEN PadBurst(burst, target) ELSE <<>>
         full == burst + Lengths(pad)
     IN /\ frames' = frames \o pad
        /\ burst' = full
        /\ IF pad # <<>> /\ full # target
             THEN UNCHANGED <<writer, chunk, zeros, cut>>
             ELSE /\ Send(target)
                  /\ cut' = [len |-> target, from |-> table]
  /\ UNCHANGED loopUnchanged

\* The socket takes what it has room for; when the write is done, the loop
\* sleeps and goes on, or write_all returns.
Push ==
  /\ writer = "writing" /\ sock < SockSize
  /\ LET n == Least(chunk, SockSize - sock)
     IN /\ sock' = sock + n
        /\ burst' = burst - n
        /\ chunk' = chunk - n
        /\ IF chunk > n THEN UNCHANGED <<writer, cut>>
                        ELSE writer' = "loop" /\ cut' = NoCut
  /\ UNCHANGED <<envVars, frames, readerVars, shut, writes, given, zeros>>

WriteDone ==
  /\ writer = "loop" /\ burst = 0
  /\ writer' = "idle"
  /\ UNCHANGED <<envVars, frames, sock, readerVars,
                 chunk, zeros, burst, writes, given, shut, cut>>

\* The socket fails the write; write_all returns the error and is not called
\* again.
WriteFails ==
  /\ writer = "writing"
  /\ writer' = "failed"
  /\ cut' = NoCut
  /\ UNCHANGED <<envVars, frames, sock, readerVars,
                 chunk, zeros, burst, writes, given, shut>>

Shutdown ==
  /\ writer \in {"idle", "failed"} /\ ~shut
  /\ shut' = TRUE
  /\ UNCHANGED <<envVars, frames, sock, readerVars,
                 writer, chunk, zeros, burst, writes, given, cut>>

\* The client's own reader has decoded the seed frame: new tables for both.
Reseed ==
  /\ ~fromServer /\ ~seeded
  /\ seeded' = TRUE
  /\ table' \in Tables
  /\ UNCHANGED <<mode, fromServer, writerVars, frames, sock, readerVars>>

----------------------------------------------------------------------------
(* Obfs4Reader *)

readerUnchanged == <<envVars, writerVars>>

\* The client's handshake reads past the server's handshake message: those
\* bytes are the reader's first.
Leftover ==
  /\ reader = "handshake"
  /\ \E n \in 0 .. sock : recv' = recv + n /\ sock' = sock - n
  /\ reader' \in {"call"} \cup (IF sock' < sock THEN {"handshake"} ELSE {})
  /\ UNCHANGED <<readerUnchanged, frames, error, eof, decoded, read>>

\* A frame can be decoded, or its damage be noticed.
Intact(f) == f.bad = 0
Complete ==
  /\ frames # <<>>
  /\ LET f == Head(frames) IN recv >= IF Intact(f) THEN f.len ELSE f.bad

\* Mutant: the socket is read before the buffer is decoded.
ReadReturnsLate ==
  /\ reader = "call"
  /\ \/ /\ decoded > 0
        /\ read' = read + decoded /\ decoded' = 0
        /\ UNCHANGED <<reader, error>>
     \/ /\ decoded = 0
        /\ reader' = CASE error -> "failed" [] eof /\ ~error -> "ended" [] ~eof /\ ~error -> "wait"
        /\ UNCHANGED <<decoded, read, error>>
  /\ UNCHANGED <<readerUnchanged, frames, sock, recv, eof>>

\* read_impl: decoded data first, then a stored error, then EOF; else what
\* is buffered is decoded before the socket is read.
ReadReturns ==
  /\ reader = "call"
  /\ \/ \E n \in 1 .. decoded :
          /\ read' = read + n
          /\ decoded' = decoded - n
          /\ UNCHANGED <<reader, error>>
     \/ /\ decoded = 0
        /\ reader' = CASE error -> "failed" [] eof /\ ~error -> "ended" [] ~eof /\ ~error -> "decode"
        /\ UNCHANGED <<decoded, read, error>>
  /\ UNCHANGED <<readerUnchanged, frames, sock, recv, eof>>

\* process_buffered, one frame; padding and seed frames carry no data.
Decode ==
  /\ reader = "decode" /\ Complete
  /\ IF Intact(Head(frames))
       THEN /\ frames' = SubSeq(frames, 2, Len(frames))
            /\ recv' = recv - Head(frames).len
            /\ decoded' = decoded + Head(frames).data
            /\ UNCHANGED <<reader, error>>
       ELSE error' = TRUE /\ reader' = "call" /\ UNCHANGED <<frames, recv, decoded>>
  /\ UNCHANGED <<readerUnchanged, sock, eof, read>>

DecodeDone ==
  /\ reader = "decode" /\ ~Complete
  /\ reader' = IF decoded > 0 \/ eof \/ error THEN "call" ELSE "wait"
  /\ UNCHANGED <<readerUnchanged, frames, sock, recv, error, eof, decoded, read>>

ReadBytes ==
  /\ reader = "wait"
  /\ \E n \in 1 .. sock : recv' = recv + n /\ sock' = sock - n
  /\ reader' = "decode"
  /\ UNCHANGED <<readerUnchanged, frames, decoded, read, eof, error>>

ReadEnds ==
  /\ reader = "wait"
  /\ \/ sock = 0 /\ shut /\ eof' = TRUE /\ error' = error
     \/ error' = TRUE /\ eof' = eof
  /\ reader' = "decode"
  /\ UNCHANGED <<readerUnchanged, frames, sock, decoded, read, recv>>

\* A frame is damaged on its way: its tag is wrong, or its length is, which
\* the decoder hides by waiting for a random number of bytes.
Damage ==
  /\ \A i \in DOMAIN frames : Intact(frames[i])
  /\ \E i \in DOMAIN frames :
       /\ Lengths(SubSeq(frames, 1, i)) > recv
       /\ Lengths(SubSeq(frames, 1, i - 1)) < recv + sock
       /\ \E n \in {frames[i].len, Seg} :
            frames' = [frames EXCEPT ![i].bad = n]
  /\ UNCHANGED <<readerUnchanged, sock, readerVars>>

Writer == Segment \/ Push \/ WriteDone
Reader == Leftover \/ ReadReturns \/ Decode \/ DecodeDone \/ ReadBytes

Next ==
  \/ Write \/ Writer \/ SampleZero \/ \E t \in 0 .. Seg : Sample(t)
  \/ WriteFails \/ Shutdown \/ Reseed
  \/ Reader \/ ReadEnds \/ Damage

Spec == Init /\ [][Next]_vars

\* Both ends run and the receiving one keeps reading.  Samples are drawn
\* independently: every length of the table comes up again and again.
FairSpec ==
  /\ Spec
  /\ WF_vars(Writer) /\ WF_vars(Reader)
  /\ SF_vars(SampleZero)
  /\ \A t \in UNION Tables \ {0} : SF_vars(Sample(t))

----------------------------------------------------------------------------
(* Properties *)

Over == reader \in {"ended", "failed"}

\* The frames' bytes are in the burst, the socket and the reader's buffer,
\* none missing and none extra, through padding, resampling and cut writes:
\* the two ends agree on where frames start (the nonces and length masks
\* count them).  No data byte is skipped or given twice, and EOF or an error
\* comes after everything that was decoded.
Conserved ==
  /\ recv + sock + burst = Lengths(frames)
  /\ read + decoded + Datas(frames) = given
  /\ Over => decoded = 0
  /\ reader = "ended" => read = given \/ writer = "failed" \/ ~Intact(Head(frames))

\* No packet is asked for that a frame cannot hold, whatever gap padding has to
\* fill: make_packet panics at one (packet.rs:39).
FramesFit == \A i \in DOMAIN frames : frames[i].len <= Seg

\* Every paranoid write has a length of the table its bridge's seed gave (any, up
\* to a segment, only after the table kept giving zeros); otherwise the last
\* segment has one, or one longer by a header.
CutsSampled ==
  /\ cut.len <= Seg
  /\ \/ cut.len = 0
     \/ IF mode = "paranoid"
          THEN cut.len \in cut.from \/ cut.from = {0}
          ELSE \E t \in cut.from : cut.len \in {LastSegment(t), LastSegment(t + Header)}

\* What an observer sees has the lengths of the tables, and the padding that
\* makes it so never asks for more than a frame.
Shaped == CutsSampled /\ FramesFit

\* A write returns: "Paranoid mode resamples zero lengths" (conn.rs:202), and
\* padding that spilled is resampled, but neither without end.
WriteEnds == writer \in {"loop", "writing"} ~> writer \in {"idle", "failed"} \/ Over

\* What was written is read without a later write: padding never leaves a
\* data frame cut short, and "no complete frame waits on the network"
\* (conn.rs:166), not even one the handshake had read.
DataArrives ==
  \A k \in 1 .. MaxWrites * MaxWrite :
    given >= k ~> read >= k \/ error \/ writer = "failed" \/ \E i \in DOMAIN frames : ~Intact(frames[i])
============================================================================
