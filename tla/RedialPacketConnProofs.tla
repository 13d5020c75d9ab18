------------------------ MODULE RedialPacketConnProofs ------------------------
(***************************************************************************)
(* Proofs about RedialPacketConn, for every size of the queues and every   *)
(* number of packets and snowflakes: packets keep their order, none is     *)
(* invented or repeated, and a lost snowflake costs a bounded number.      *)
(***************************************************************************)
EXTENDS RedialPacketConn, SequenceTheorems, FiniteSetTheorems, TLAPS

-----------------------------------------------------------------------------
(* Queues of packets.                                                      *)

Under(X, Y) == \A x \in X, y \in Y : x < y

LEMMA ElemsEmpty == Elems(<<>>) = {} /\ Increasing(<<>>)
BY DEF Elems, Increasing

LEMMA ElemsOf ==
  ASSUME NEW s \in Seq(Packet)
  PROVE  Elems(s) \subseteq Packet /\ (s = <<>> <=> Elems(s) = {})
BY DEF Elems

LEMMA ElemsAppend ==
  ASSUME NEW s \in Seq(Packet), NEW x \in Packet
  PROVE  /\ Append(s, x) \in Seq(Packet) /\ Len(Append(s, x)) = Len(s) + 1
         /\ Elems(Append(s, x)) = Elems(s) \cup {x}
         /\ Increasing(s) /\ Under(Elems(s), {x}) => Increasing(Append(s, x))
<1>1. /\ Append(s, x) \in Seq(Packet) /\ Len(Append(s, x)) = Len(s) + 1
      /\ \A i \in 1..Len(s) : Append(s, x)[i] = s[i]
      /\ Append(s, x)[Len(s) + 1] = x
      /\ DOMAIN Append(s, x) = 1..(Len(s) + 1) /\ DOMAIN s = 1..Len(s) /\ Len(s) \in Nat
  OBVIOUS
<1> DEFINE t == Append(s, x)
<1> HIDE DEF t
<1>2. Elems(t) = Elems(s) \cup {x}
  BY <1>1 DEF Elems, t
<1>3. ASSUME Increasing(s), Under(Elems(s), {x}), NEW i \in DOMAIN t, NEW j \in DOMAIN t,
             i < j
      PROVE  t[i] < t[j]
  <2>1. i \in 1..Len(s) /\ t[i] = s[i]
    BY <1>1, <1>3 DEF t
  <2>2. CASE j = Len(s) + 1
    BY <1>1, <1>3, <2>1, <2>2 DEF Under, Elems, t
  <2>3. CASE j \in 1..Len(s)
    BY <1>1, <1>3, <2>1, <2>3 DEF Increasing, t
  <2>4. QED
    BY <1>1, <1>3, <2>2, <2>3 DEF t
<1>4. QED
  BY <1>1, <1>2, <1>3 DEF Increasing, t

LEMMA ElemsTail ==
  ASSUME NEW s \in Seq(Packet), s # <<>>
  PROVE  /\ Tail(s) \in Seq(Packet) /\ Len(Tail(s)) = Len(s) - 1 /\ Head(s) \in Packet
         /\ Elems(s) = {Head(s)} \cup Elems(Tail(s))
         /\ Increasing(s) => Increasing(Tail(s)) /\ Under({Head(s)}, Elems(Tail(s)))
<1> DEFINE t == Tail(s)
<1>1. /\ t \in Seq(Packet) /\ Len(t) = Len(s) - 1 /\ Head(s) \in Packet /\ Head(s) = s[1]
      /\ \A i \in 1..Len(t) : t[i] = s[i + 1]
      /\ DOMAIN t = 1..Len(t) /\ DOMAIN s = 1..Len(s) /\ Len(s) \in Nat /\ Len(s) >= 1
  OBVIOUS
<1> HIDE DEF t
<1>2. \A i \in 1..Len(s) : i = 1 \/ (i - 1 \in 1..Len(t) /\ s[i] = t[i - 1])
  BY <1>1
<1>3. \A i \in 1..Len(t) : i + 1 \in 1..Len(s) /\ t[i] = s[i + 1]
  BY <1>1
<1>4. Elems(s) = {Head(s)} \cup Elems(t)
  <2>1. ASSUME NEW x \in Elems(s) PROVE x \in {Head(s)} \cup Elems(t)
    BY <1>1, <1>2 DEF Elems
  <2>2. Elems(t) \subseteq Elems(s)
    BY <1>1, <1>3 DEF Elems
  <2>3. Head(s) \in Elems(s)
    BY <1>1 DEF Elems
  <2>4. QED
    BY <2>1, <2>2, <2>3
<1>5. ASSUME Increasing(s) PROVE Increasing(t)
  <2> SUFFICES ASSUME NEW i \in 1..Len(t), NEW j \in 1..Len(t), i < j
               PROVE  t[i] < t[j]
    BY <1>1 DEF Increasing
  <2>1. i + 1 \in DOMAIN s /\ j + 1 \in DOMAIN s /\ i + 1 < j + 1
    BY <1>1, <1>3
  <2>2. s[i + 1] < s[j + 1]
    BY <1>5, <2>1 DEF Increasing
  <2>3. QED
    BY <1>3, <2>2
<1>6. ASSUME Increasing(s) PROVE Under({Head(s)}, Elems(t))
  <2>1. \A i \in 1..Len(t) : s[1] < s[i + 1]
    BY <1>1, <1>3, <1>6 DEF Increasing
  <2>2. QED
    BY <1>1, <1>3, <2>1 DEF Under, Elems
<1>7. QED
  BY <1>1, <1>4, <1>5, <1>6 DEF t

LEMMA ElemsConcat ==
  ASSUME NEW s \in Seq(Packet), NEW t \in Seq(Packet)
  PROVE  /\ s \o t \in Seq(Packet) /\ Len(s \o t) = Len(s) + Len(t)
         /\ Elems(s \o t) = Elems(s) \cup Elems(t)
         /\ Increasing(s) /\ Increasing(t) /\ Under(Elems(s), Elems(t)) =>
              Increasing(s \o t)
<1> DEFINE u == s \o t
<1>1. /\ u \in Seq(Packet) /\ Len(u) = Len(s) + Len(t)
      /\ \A i \in 1..Len(s) : u[i] = s[i] /\ i \in 1..Len(u)
      /\ \A i \in 1..Len(t) : u[Len(s) + i] = t[i] /\ Len(s) + i \in 1..Len(u)
      /\ DOMAIN u = 1..Len(u) /\ DOMAIN s = 1..Len(s) /\ DOMAIN t = 1..Len(t)
      /\ Len(s) \in Nat /\ Len(t) \in Nat
  OBVIOUS
<1> HIDE DEF u
<1>2. \A i \in 1..Len(u) : \/ i \in 1..Len(s) /\ u[i] = s[i]
                           \/ i > Len(s) /\ i - Len(s) \in 1..Len(t) /\ u[i] = t[i - Len(s)]
  <2> SUFFICES ASSUME NEW i \in 1..Len(u), i \notin 1..Len(s)
               PROVE  i > Len(s) /\ i - Len(s) \in 1..Len(t) /\ u[i] = t[i - Len(s)]
    BY <1>1
  <2>1. i > Len(s) /\ i - Len(s) \in 1..Len(t) /\ Len(s) + (i - Len(s)) = i
    BY <1>1
  <2>2. QED
    BY <1>1, <2>1
<1>3. Elems(u) = Elems(s) \cup Elems(t)
  <2>1. Elems(u) \subseteq Elems(s) \cup Elems(t)
    BY <1>1, <1>2 DEF Elems
  <2>2. Elems(s) \subseteq Elems(u)
    BY <1>1 DEF Elems
  <2>3. Elems(t) \subseteq Elems(u)
    BY <1>1 DEF Elems
  <2>4. QED
    BY <2>1, <2>2, <2>3
<1>4. ASSUME Increasing(s), Increasing(t), Under(Elems(s), Elems(t)),
             NEW i \in 1..Len(u), NEW j \in 1..Len(u), i < j
      PROVE  u[i] < u[j]
  <2>1. CASE j \in 1..Len(s) /\ u[j] = s[j]
    BY <1>1, <1>2, <1>4, <2>1 DEF Increasing
  <2>2. CASE j > Len(s) /\ j - Len(s) \in 1..Len(t) /\ u[j] = t[j - Len(s)]
    <3>1. CASE i \in 1..Len(s) /\ u[i] = s[i]
      BY <1>1, <1>4, <2>2, <3>1 DEF Under, Elems
    <3>2. CASE i > Len(s) /\ i - Len(s) \in 1..Len(t) /\ u[i] = t[i - Len(s)]
      <4>1. i - Len(s) < j - Len(s)
        BY <1>1, <1>4
      <4>2. QED
        BY <1>1, <1>4, <2>2, <3>2, <4>1 DEF Increasing
    <3>3. QED
      BY <1>2, <3>1, <3>2
  <2>3. QED
    BY <1>2, <2>1, <2>2
<1>5. QED
  BY <1>1, <1>3, <1>4 DEF Increasing, u

\* The writer's hand and a refused message are queues of one.
LEMMA ElemsOne ==
  ASSUME NEW s \in Seq(Packet), Len(s) <= 1, s # <<>>
  PROVE  /\ s[1] \in Packet /\ s = <<s[1]>> /\ Elems(s) = {s[1]}
         /\ \A t \in Seq(Packet) : t \o s = Append(t, s[1])
<1>1. Len(s) = 1 /\ s[1] \in Packet /\ s = <<s[1]>> /\ DOMAIN s = {1}
  OBVIOUS
<1>2. Elems(s) = {s[1]}
  BY <1>1 DEF Elems
<1>3. ASSUME NEW t \in Seq(Packet) PROVE t \o s = Append(t, s[1])
  BY <1>1, AppendIsConcat
<1>4. QED
  BY <1>1, <1>2, <1>3

LEMMA ElemsSingle == \A x : Elems(<<x>>) = {x} /\ Increasing(<<x>>) /\ Len(<<x>>) = 1
BY DEF Elems, Increasing

LEMMA ElemsCount ==
  ASSUME NEW s \in Seq(Packet)
  PROVE  IsFiniteSet(Elems(s)) /\ Cardinality(Elems(s)) <= Len(s)
<1>1. s \in Surjection(1..Len(s), Elems(s))
  <2>1. DOMAIN s = 1..Len(s) /\ s \in [1..Len(s) -> Elems(s)]
    BY DEF Elems
  <2>2. QED
    BY <2>1 DEF Surjection, Elems
<1>2. IsFiniteSet(1..Len(s)) /\ Cardinality(1..Len(s)) = Len(s)
  <2>1. Len(s) \in Nat
    OBVIOUS
  <2>2. QED
    BY <2>1, FS_Interval
<1>3. QED
  BY <1>1, <1>2, FS_Surjection

-----------------------------------------------------------------------------
(* Types.                                                                  *)

\* Only the snowflake of a running exchange is open.
LoopTyped ==
  /\ dial \in {"check", "dialing", "exchange", "stopped"} /\ up \in 0 .. MaxDials
  /\ alive => dial = "exchange"
  /\ dial = "exchange" => up \in Carrier

Flags == closed \in BOOLEAN /\ alive \in BOOLEAN /\ waiting \in BOOLEAN /\ checked \in BOOLEAN

UpTyped ==
  /\ sendq \in Seq(Packet) /\ Len(sendq) <= QueueSize
  /\ hand \in Seq(Packet) /\ Len(hand) <= 1 /\ (checked => hand # <<>>)
  /\ nsent \in 0 .. MaxSend
  /\ served \in Seq(Packet) /\ full \in SUBSET Packet

\* The snowflakes
DriveTyped ==
  /\ drive \in [Carrier -> {"none", "runs", "late", "done"}]
  /\ outq \in [Carrier -> Seq(Packet)] /\ \A k \in Carrier : Len(outq[k]) <= OutSize
  /\ blocked \in [Carrier -> Seq(Packet)] /\ \A k \in Carrier : Len(blocked[k]) <= 1
  /\ channel \in [Carrier -> Seq(Packet)] /\ handed \in Seq(Handing)

DownTyped ==
  /\ recvq \in Seq(Packet) /\ Len(recvq) <= QueueSize
  /\ down \in Seq(Packet) /\ nserved \in 0 .. MaxServed
  /\ got \in Seq(Packet)

TypeInv == Flags /\ LoopTyped /\ UpTyped /\ DriveTyped /\ DownTyped

LEMMA FlagsNext == Flags /\ [Next]_vars => Flags'
<1> SUFFICES ASSUME Flags, [Next]_vars PROVE Flags'
  OBVIOUS
<1>1. closed' = closed \/ closed' = TRUE
  BY DEF Next, DialLoop, Driver, vars, Send, RecvStart, RecvPacket, RecvError, Close,
     DialStart, DialAborted, DialOk, DialError, ExchangeEnd, WriterTakes, WriterChecks,
     WriterSends, ReaderTakes, DriveWrites, DriveRefused, DriveRetries, DriveReturns, Die,
     ServerGets, ChannelFails, ServerSends
<1>2. alive' = alive \/ alive' = TRUE \/ alive' = FALSE
  BY DEF Next, DialLoop, Driver, vars, Send, RecvStart, RecvPacket, RecvError, Close,
     DialStart, DialAborted, DialOk, DialError, ExchangeEnd, WriterTakes, WriterChecks,
     WriterSends, ReaderTakes, DriveWrites, DriveRefused, DriveRetries, DriveReturns, Die,
     ServerGets, ChannelFails, ServerSends, loopVars
<1>3. waiting' = waiting \/ waiting' = TRUE \/ waiting' = FALSE
  BY DEF Next, DialLoop, Driver, vars, Send, RecvStart, RecvPacket, RecvError, Close,
     DialStart, DialAborted, DialOk, DialError, ExchangeEnd, WriterTakes, WriterChecks,
     WriterSends, ReaderTakes, DriveWrites, DriveRefused, DriveRetries, DriveReturns, Die,
     ServerGets, ChannelFails, ServerSends, downVars
<1>4. checked' = checked \/ checked' = TRUE \/ checked' = FALSE
  BY DEF Next, DialLoop, Driver, vars, Send, RecvStart, RecvPacket, RecvError, Close,
     DialStart, DialAborted, DialOk, DialError, ExchangeEnd, WriterTakes, WriterChecks,
     WriterSends, ReaderTakes, DriveWrites, DriveRefused, DriveRetries, DriveReturns, Die,
     ServerGets, ChannelFails, ServerSends, upVars
<1>5. QED
  BY <1>1, <1>2, <1>3, <1>4 DEF Flags

LEMMA LoopNext == LoopTyped /\ [Next]_vars => LoopTyped'
<1> SUFFICES ASSUME LoopTyped, [Next]_vars PROVE LoopTyped'
  OBVIOUS
<1>1. CASE UNCHANGED loopVars
  BY <1>1 DEF LoopTyped, loopVars
<1>2. CASE Die
  <2>1. dial' = dial /\ up' = up /\ ~alive'
    BY <1>2 DEF Die
  <2>2. QED
    BY <2>1 DEF LoopTyped
<1>3. CASE DialStart \/ DialAborted \/ DialError \/ ExchangeEnd
  <2>1. /\ up' = up /\ dial' \in {"check", "dialing", "stopped"}
        /\ ~alive'
    BY <1>3 DEF LoopTyped, DialStart, DialAborted, DialError, ExchangeEnd
  <2>2. QED
    BY <2>1 DEF LoopTyped
<1>4. CASE DialOk
  <2>1. up + 1 \in Carrier /\ up + 1 \in 0 .. MaxDials
    BY <1>4, ConnAssumption DEF DialOk, Carrier, LoopTyped
  <2>2. QED
    BY <1>4, <2>1 DEF DialOk, LoopTyped
<1>5. QED
  BY <1>1, <1>2, <1>3, <1>4 DEF Next, DialLoop, Driver, vars, Send, RecvStart, RecvPacket,
     RecvError, Close, WriterTakes, WriterChecks, WriterSends, ReaderTakes, DriveWrites,
     DriveRefused, DriveRetries, DriveReturns, ServerGets, ChannelFails, ServerSends

\* The first message of a queue, and the rest
LEMMA Heads ==
  ASSUME NEW s \in Seq(Packet), NEW n \in Nat, Len(s) <= n, s # <<>>
  PROVE  Head(s) \in Packet /\ Tail(s) \in Seq(Packet) /\ Len(Tail(s)) <= n
<1>1. Len(s) \in Nat /\ Len(Tail(s)) = Len(s) - 1
  BY ElemsTail
<1>2. QED
  BY <1>1, ElemsTail

LEMMA UpNext == LoopTyped /\ UpTyped /\ DriveTyped /\ [Next]_vars => UpTyped'
<1> SUFFICES ASSUME LoopTyped, UpTyped, DriveTyped, [Next]_vars PROVE UpTyped'
  OBVIOUS
<1>1. CASE UNCHANGED <<sendq, hand, checked, nsent, served, full>>
  BY <1>1 DEF UpTyped
<1>2. CASE Send
  <2>1. nsent + 1 \in Packet /\ nsent + 1 \in 0 .. MaxSend
    BY <1>2, ConnAssumption DEF Send, Packet, UpTyped
  <2>2. /\ Append(sendq, nsent + 1) \in Seq(Packet)
        /\ Len(Append(sendq, nsent + 1)) = Len(sendq) + 1 /\ Len(sendq) \in Nat
    BY <2>1, ElemsAppend DEF UpTyped
  <2>3. sendq' \in Seq(Packet) /\ Len(sendq') <= QueueSize /\ full' \in SUBSET Packet
    <3>1. CASE Len(sendq) < QueueSize
      <4>1. sendq' = Append(sendq, nsent + 1) /\ full' = full
        BY <1>2, <3>1 DEF Send
      <4>2. Len(sendq') <= QueueSize
        BY <2>2, <3>1, <4>1, ConnAssumption
      <4>3. QED
        BY <2>2, <4>1, <4>2 DEF UpTyped
    <3>2. CASE ~(Len(sendq) < QueueSize)
      BY <1>2, <2>1, <3>2 DEF Send, UpTyped
    <3>3. QED
      BY <3>1, <3>2
  <2>4. QED
    BY <1>2, <2>1, <2>3 DEF Send, UpTyped
<1>3. CASE ExchangeEnd \/ WriterSends
  <2>1. hand' = <<>> /\ ~checked' /\ UNCHANGED <<sendq, nsent, served, full>>
    BY <1>3 DEF ExchangeEnd, WriterSends
  <2>2. <<>> \in Seq(Packet) /\ Len(<<>>) = 0
    OBVIOUS
  <2>3. QED
    BY <2>1, <2>2, ConnAssumption DEF UpTyped
<1>4. CASE WriterTakes
  <2>1. Head(sendq) \in Packet /\ Tail(sendq) \in Seq(Packet) /\ Len(Tail(sendq)) <= QueueSize
    BY <1>4, Heads, ConnAssumption DEF WriterTakes, UpTyped
  <2>2. hand' \in Seq(Packet) /\ Len(hand') <= 1 /\ hand' # <<>>
    BY <1>4, <2>1 DEF WriterTakes
  <2>3. QED
    BY <1>4, <2>1, <2>2 DEF WriterTakes, UpTyped
<1>5. CASE WriterChecks
  BY <1>5 DEF WriterChecks, UpTyped
<1>6. ASSUME NEW k \in Carrier, ServerGets(k) PROVE UpTyped'
  <2>1. channel[k] \in Seq(Packet) /\ channel[k] # <<>>
    BY <1>6 DEF ServerGets, DriveTyped
  <2>2. served' \in Seq(Packet)
    BY <1>6, <2>1, ElemsTail, ElemsAppend DEF ServerGets, UpTyped
  <2>3. QED
    BY <1>6, <2>2 DEF ServerGets, UpTyped
<1>7. QED
  BY <1>1, <1>2, <1>3, <1>4, <1>5, <1>6 DEF Next, DialLoop, Driver, vars, upVars,
     RecvStart, RecvPacket, RecvError, Close, DialStart, DialAborted, DialOk, DialError,
     ReaderTakes, DriveWrites, DriveRefused, DriveRetries, DriveReturns, Die, ChannelFails,
     ServerSends

\* One message more for a channel
LEMMA TakesOne ==
  ASSUME DriveTyped, NEW k \in Carrier, NEW x \in Packet, Takes(k, <<x>>)
  PROVE  /\ handed' = Append(handed, [by |-> k, packet |-> x])
         /\ channel' = [channel EXCEPT ![k] = Append(@, x)]
<1>1. DOMAIN <<x>> = 1 .. 1 /\ <<x>>[1] = x
  OBVIOUS
<1>2. [i \in DOMAIN <<x>> |-> [by |-> k, packet |-> <<x>>[i]]] = <<[by |-> k, packet |-> x]>>
  BY <1>1
<1>3. [by |-> k, packet |-> x] \in Handing
  BY DEF Handing
<1>4. handed' = handed \o <<[by |-> k, packet |-> x]>>
  BY <1>2 DEF Takes
<1>5. channel[k] \in Seq(Packet) /\ channel[k] \o <<x>> = Append(channel[k], x)
  BY DEF DriveTyped
<1>6. channel' = [channel EXCEPT ![k] = Append(@, x)]
  <2>1. channel' = [channel EXCEPT ![k] = @ \o <<x>>]
    BY DEF Takes
  <2>2. QED
    BY <1>5, <2>1
<1>7. handed' = Append(handed, [by |-> k, packet |-> x])
  <2> DEFINE h == [by |-> k, packet |-> x]
  <2>1. handed \in Seq(Handing) /\ h \in Handing
    BY <1>3 DEF DriveTyped
  <2> HIDE DEF h
  <2>2. handed \o <<h>> = Append(handed, h)
    BY <2>1, AppendIsConcat
  <2>3. QED
    BY <1>4, <2>2 DEF h
<1>8. QED
  BY <1>6, <1>7

\* A message that was refused is a queue of one.
LEMMA RetriesOne ==
  ASSUME DriveTyped, NEW k \in Carrier, DriveRetries(k)
  PROVE  \E x \in Packet : blocked[k] = <<x>> /\ Takes(k, <<x>>)
<1>1. blocked[k] \in Seq(Packet) /\ Len(blocked[k]) <= 1 /\ blocked[k] # <<>>
  BY DEF DriveTyped, DriveRetries
<1>2. blocked[k][1] \in Packet /\ blocked[k] = <<blocked[k][1]>>
  BY <1>1, ElemsOne
<1>3. QED
  BY <1>2 DEF DriveRetries

LEMMA DriveNext == LoopTyped /\ UpTyped /\ DriveTyped /\ [Next]_vars => DriveTyped'
<1> SUFFICES ASSUME LoopTyped, UpTyped, DriveTyped, [Next]_vars PROVE DriveTyped'
  OBVIOUS
<1>0. /\ <<>> \in Seq(Packet) /\ Len(<<>>) = 0 /\ OutSize \in Nat
      /\ \A k \in Carrier : /\ outq[k] \in Seq(Packet) /\ Len(outq[k]) <= OutSize
                            /\ blocked[k] \in Seq(Packet) /\ Len(blocked[k]) <= 1
                            /\ channel[k] \in Seq(Packet)
  BY ConnAssumption DEF DriveTyped
<1>1. CASE UNCHANGED driveVars
  BY <1>1 DEF DriveTyped, driveVars
<1>2. CASE DialOk
  BY <1>2 DEF DialOk, DriveTyped
<1>3. CASE WriterSends
  <2>1. /\ up \in Carrier /\ hand[1] \in Packet
        /\ outq[up] \o hand = Append(outq[up], hand[1])
    <3>1. up \in Carrier /\ hand # <<>> /\ hand \in Seq(Packet) /\ Len(hand) <= 1
      BY <1>3 DEF WriterSends, LoopTyped, UpTyped
    <3>2. QED
      BY <1>0, <3>1, ElemsOne
  <2>2. Append(outq[up], hand[1]) \in Seq(Packet) /\ Len(Append(outq[up], hand[1])) <= OutSize
    <3>1. Len(outq[up]) < OutSize /\ Len(outq[up]) \in Nat
      BY <1>0, <1>3, <2>1 DEF WriterSends
    <3>2. QED
      BY <1>0, <2>1, <3>1, ElemsAppend
  <2>3. outq' \in [Carrier -> Seq(Packet)] /\ \A k \in Carrier : Len(outq'[k]) <= OutSize
    BY <1>3, <2>1, <2>2 DEF WriterSends, DriveTyped
  <2>4. QED
    BY <1>3, <2>3 DEF WriterSends, DriveTyped
<1>4. ASSUME NEW k \in Carrier, Turn(k)
      PROVE  drive' \in [Carrier -> {"none", "runs", "late", "done"}]
  BY <1>4 DEF Turn, DriveTyped
<1>5. ASSUME NEW k \in Carrier, NEW x \in Packet, Takes(k, <<x>>)
      PROVE  channel' \in [Carrier -> Seq(Packet)] /\ handed' \in Seq(Handing)
  <2>1. [by |-> k, packet |-> x] \in Handing
    BY DEF Handing
  <2>2. handed' \in Seq(Handing)
    <3> DEFINE h == [by |-> k, packet |-> x]
    <3>1. handed' = Append(handed, h) /\ handed \in Seq(Handing) /\ h \in Handing
      BY <1>5, <2>1, TakesOne DEF DriveTyped
    <3> HIDE DEF h
    <3>2. QED
      BY <3>1
  <2>3. channel' = [channel EXCEPT ![k] = Append(@, x)] /\ Append(channel[k], x) \in Seq(Packet)
    BY <1>0, <1>5, TakesOne, ElemsAppend
  <2>4. QED
    BY <2>2, <2>3 DEF DriveTyped
<1>6. ASSUME NEW k \in Carrier, outq[k] # <<>>, outq' = [outq EXCEPT ![k] = Tail(@)]
      PROVE  /\ outq' \in [Carrier -> Seq(Packet)]
             /\ \A j \in Carrier : Len(outq'[j]) <= OutSize
             /\ Head(outq[k]) \in Packet
  BY <1>0, <1>6, Heads DEF DriveTyped
<1>7. ASSUME NEW k \in Carrier, DriveWrites(k) PROVE DriveTyped'
  <2>1. /\ outq' \in [Carrier -> Seq(Packet)] /\ Head(outq[k]) \in Packet
        /\ \A j \in Carrier : Len(outq'[j]) <= OutSize
    BY <1>6, <1>7 DEF DriveWrites
  <2>2. channel' \in [Carrier -> Seq(Packet)] /\ handed' \in Seq(Handing)
    BY <1>5, <1>7, <2>1 DEF DriveWrites
  <2>3. QED
    BY <1>4, <1>7, <2>1, <2>2 DEF DriveWrites, DriveTyped
<1>8. ASSUME NEW k \in Carrier, DriveRefused(k) PROVE DriveTyped'
  <2>1. /\ outq' \in [Carrier -> Seq(Packet)] /\ Head(outq[k]) \in Packet
        /\ \A j \in Carrier : Len(outq'[j]) <= OutSize
    BY <1>6, <1>8 DEF DriveRefused
  <2>2. <<Head(outq[k])>> \in Seq(Packet) /\ Len(<<Head(outq[k])>>) = 1
    BY <2>1
  <2>3. /\ blocked' \in [Carrier -> Seq(Packet)]
        /\ \A j \in Carrier : Len(blocked'[j]) <= 1
    BY <1>8, <2>2 DEF DriveRefused, DriveTyped
  <2>4. QED
    BY <1>4, <1>8, <2>1, <2>3 DEF DriveRefused, DriveTyped
<1>9. ASSUME NEW k \in Carrier, DriveRetries(k) PROVE DriveTyped'
  <2>1. channel' \in [Carrier -> Seq(Packet)] /\ handed' \in Seq(Handing)
    BY <1>5, <1>9, RetriesOne
  <2>2. /\ blocked' \in [Carrier -> Seq(Packet)]
        /\ \A j \in Carrier : Len(blocked'[j]) <= 1
    BY <1>0, <1>9 DEF DriveRetries, DriveTyped
  <2>3. QED
    BY <1>4, <1>9, <2>1, <2>2 DEF DriveRetries, DriveTyped
<1>10. ASSUME NEW k \in Carrier, DriveReturns(k) PROVE DriveTyped'
  <2>1. /\ drive' \in [Carrier -> {"none", "runs", "late", "done"}]
        /\ outq' \in [Carrier -> Seq(Packet)] /\ blocked' \in [Carrier -> Seq(Packet)]
        /\ \A j \in Carrier : Len(outq'[j]) <= OutSize /\ Len(blocked'[j]) <= 1
    BY <1>0, <1>10 DEF DriveReturns, DriveTyped
  <2>2. QED
    BY <1>10, <2>1 DEF DriveReturns, DriveTyped
<1>11. ASSUME NEW k \in Carrier, ServerGets(k) \/ ChannelFails(k) PROVE DriveTyped'
  <2>1. Tail(channel[k]) \in Seq(Packet)
    BY <1>0, <1>11, ElemsTail DEF ServerGets, ChannelFails
  <2>2. channel' \in [Carrier -> Seq(Packet)]
    BY <1>0, <1>11, <2>1 DEF ServerGets, ChannelFails, DriveTyped
  <2>3. QED
    BY <1>11, <2>2 DEF ServerGets, ChannelFails, DriveTyped
<1>12. QED
  BY <1>1, <1>2, <1>3, <1>7, <1>8, <1>9, <1>10, <1>11 DEF Next, DialLoop, Driver, vars,
     upVars, Send, RecvStart, RecvPacket, RecvError, Close, DialStart, DialAborted, DialError,
     ExchangeEnd, WriterTakes, WriterChecks, ReaderTakes, Die, ServerSends

LEMMA DownNext == DownTyped /\ [Next]_vars => DownTyped'
<1> SUFFICES ASSUME DownTyped, [Next]_vars PROVE DownTyped'
  OBVIOUS
<1>1. CASE UNCHANGED downVars
  BY <1>1 DEF DownTyped, downVars
<1>2. CASE RecvStart \/ RecvError
  BY <1>2 DEF RecvStart, RecvError, DownTyped
<1>3. CASE RecvPacket
  <2>1. /\ Head(recvq) \in Packet /\ Tail(recvq) \in Seq(Packet)
        /\ Len(Tail(recvq)) = Len(recvq) - 1 /\ Len(recvq) \in Nat
    BY <1>3, ElemsTail DEF RecvPacket, DownTyped
  <2>2. got' \in Seq(Packet)
    BY <1>3, <2>1, ElemsAppend DEF RecvPacket, DownTyped
  <2>3. Len(recvq') <= QueueSize
    BY <1>3, <2>1, ConnAssumption DEF RecvPacket, DownTyped
  <2>4. QED
    BY <1>3, <2>1, <2>2, <2>3 DEF RecvPacket, DownTyped
<1>4. CASE ReaderTakes
  <2>1. Head(down) \in Packet /\ Tail(down) \in Seq(Packet)
    BY <1>4, ElemsTail DEF ReaderTakes, DownTyped
  <2>2. /\ Append(recvq, Head(down)) \in Seq(Packet)
        /\ Len(Append(recvq, Head(down))) = Len(recvq) + 1 /\ Len(recvq) \in Nat
    BY <2>1, ElemsAppend DEF DownTyped
  <2>3. recvq' \in Seq(Packet) /\ Len(recvq') <= QueueSize
    BY <1>4, <2>2, ConnAssumption DEF ReaderTakes, DownTyped
  <2>4. QED
    BY <1>4, <2>1, <2>3 DEF ReaderTakes, DownTyped
<1>5. CASE ExchangeEnd
  <2>1. <<>> \in Seq(Packet)
    OBVIOUS
  <2>2. QED
    BY <1>5, <2>1 DEF ExchangeEnd, DownTyped
<1>6. CASE ServerSends
  <2>1. nserved + 1 \in Packet /\ nserved + 1 \in 0 .. MaxServed
    BY <1>6, ConnAssumption DEF ServerSends, Packet, DownTyped
  <2>2. down' \in Seq(Packet)
    BY <1>6, <2>1, ElemsAppend DEF ServerSends, DownTyped
  <2>3. QED
    BY <1>6, <2>1, <2>2 DEF ServerSends, DownTyped
<1>7. QED
  BY <1>1, <1>2, <1>3, <1>4, <1>5, <1>6 DEF Next, DialLoop, Driver, vars, Send, Close,
     DialStart, DialAborted, DialOk, DialError, WriterTakes, WriterChecks, WriterSends,
     DriveWrites, DriveRefused, DriveRetries, DriveReturns, Die, ServerGets, ChannelFails

LEMMA TypeNext == TypeInv /\ [Next]_vars => TypeInv'
BY FlagsNext, LoopNext, UpNext, DriveNext, DownNext DEF TypeInv

LEMMA TypeInit == Init => TypeInv
<1> SUFFICES ASSUME Init PROVE TypeInv
  OBVIOUS
<1>1. <<>> \in Seq(Packet) /\ <<>> \in Seq(Handing) /\ Len(<<>>) = 0
  OBVIOUS
<1>2. LoopTyped
  <2>1. dial = "check" /\ up = 0 /\ ~alive
    BY DEF Init
  <2>2. QED
    BY <2>1, ConnAssumption DEF LoopTyped
<1>3. UpTyped
  BY <1>1, ConnAssumption DEF Init, UpTyped
<1>4. DriveTyped
  <2>1. /\ \A k \in Carrier : outq[k] = <<>> /\ blocked[k] = <<>>
        /\ outq \in [Carrier -> Seq(Packet)] /\ blocked \in [Carrier -> Seq(Packet)]
        /\ channel \in [Carrier -> Seq(Packet)]
        /\ drive \in [Carrier -> {"none", "runs", "late", "done"}]
    BY <1>1 DEF Init
  <2>2. QED
    BY <1>1, <2>1, ConnAssumption DEF Init, DriveTyped
<1>5. DownTyped
  <2>1. recvq = <<>> /\ down = <<>> /\ got = <<>> /\ nserved = 0
    BY DEF Init
  <2>2. QED
    BY <1>1, <2>1, ConnAssumption DEF DownTyped
<1>6. Flags
  BY DEF Init, Flags
<1>7. QED
  BY <1>2, <1>3, <1>4, <1>5, <1>6 DEF TypeInv

\* turbotunnel.rs: the queues never pass their sizes, whatever the order of the
\* two halves of an exchange, the drivers of the snowflakes and the redials.
THEOREM TypeCorrect == Spec => []TypeOK
<1>1. TypeInv => TypeOK
  BY DEF TypeInv, Flags, LoopTyped, UpTyped, DriveTyped, DownTyped, TypeOK
<1>2. QED
  BY <1>1, TypeInit, TypeNext, PTL DEF Spec

-----------------------------------------------------------------------------
(* Order.                                                                  *)

\* What a snowflake's channel took, and what it may still take
By(k) == {handed[i].packet : i \in {j \in DOMAIN handed : handed[j].by = k}}
Pending(k) == Elems(blocked[k]) \cup Elems(outq[k])
Held(k) == By(k) \cup Pending(k)

\* The packets on their way up: within a snowflake from the oldest to the
\* youngest, then those of the next one, then those no snowflake has.
EachOrder ==
  /\ \A i, j \in DOMAIN handed :
       handed[i].by = handed[j].by /\ i < j => handed[i].packet < handed[j].packet
  /\ \A k \in Carrier :
       /\ Under(By(k), Pending(k))
       /\ Under(Elems(blocked[k]), Elems(outq[k])) /\ Increasing(outq[k])
       /\ k > up => Held(k) = {}

AllOrder ==
  /\ \A j, k \in Carrier : j < k => Under(Held(j), Held(k))
  /\ \A k \in Carrier : /\ Under(Held(k), Elems(hand) \cup Elems(sendq))
                        /\ Held(k) \subseteq 1 .. nsent
  /\ Under(Elems(hand), Elems(sendq)) /\ Increasing(sendq)
  /\ Elems(hand) \cup Elems(sendq) \subseteq 1 .. nsent

UpOrder == EachOrder /\ AllOrder

\* A task that still runs has let nothing through late.
LateInv ==
  /\ \A i \in DOMAIN handed : handed[i].by <= up
  /\ \A k \in Carrier : k > up => drive[k] = "none"
  /\ \A k \in Carrier : drive[k] = "runs" => Late(k) = {}
  /\ OneLate

\* What the data channels took is at the server, on its way or lost.
Delivery ==
  /\ \A k \in Carrier :
       /\ Elems(channel[k]) \subseteq By(k) /\ Increasing(channel[k])
       /\ Elems(channel[k]) \cap Elems(served) = {}
  /\ Elems(served) \subseteq Handed

DownOrder ==
  /\ Increasing(got) /\ Increasing(recvq) /\ Increasing(down)
  /\ Under(Elems(got), Elems(recvq) \cup Elems(down))
  /\ Under(Elems(recvq), Elems(down))
  /\ Elems(got) \cup Elems(recvq) \cup Elems(down) \subseteq 1 .. nserved

\* What one message more means for what the channels took
LEMMA TakesBy ==
  ASSUME DriveTyped, NEW k \in Carrier, NEW x \in Packet, Takes(k, <<x>>)
  PROVE  /\ Len(handed) \in Nat /\ DOMAIN handed = 1 .. Len(handed)
         /\ DOMAIN handed' = 1 .. Len(handed) + 1
         /\ \A i \in DOMAIN handed : handed'[i] = handed[i]
         /\ handed'[Len(handed) + 1].by = k /\ handed'[Len(handed) + 1].packet = x
         /\ By(k)' = By(k) \cup {x} /\ Handed' = Handed \cup {x}
         /\ \A j \in Carrier : j # k => By(j)' = By(j)
<1> DEFINE h == [by |-> k, packet |-> x]
<1>1. /\ handed' = Append(handed, h) /\ handed \in Seq(Handing) /\ h \in Handing
      /\ h.by = k /\ h.packet = x
  BY TakesOne DEF DriveTyped, Handing
<1> HIDE DEF h
<1>2. /\ Len(handed) \in Nat /\ DOMAIN handed = 1 .. Len(handed)
      /\ DOMAIN handed' = 1 .. Len(handed) + 1
      /\ \A i \in DOMAIN handed : handed'[i] = handed[i]
      /\ handed'[Len(handed) + 1] = h
  BY <1>1
<1>3. /\ \A i \in DOMAIN handed' : i \in DOMAIN handed \/ i = Len(handed) + 1
      /\ \A i \in DOMAIN handed : i \in DOMAIN handed'
      /\ Len(handed) + 1 \in DOMAIN handed' /\ Len(handed) + 1 \notin DOMAIN handed
  BY <1>2
<1> DEFINE n == Len(handed) + 1
<1> HIDE DEF n
<1>4. /\ \A i \in DOMAIN handed' : i \in DOMAIN handed \/ i = n
      /\ \A i \in DOMAIN handed : i \in DOMAIN handed' /\ handed'[i] = handed[i]
      /\ n \in DOMAIN handed' /\ handed'[n].by = k /\ handed'[n].packet = x
  BY <1>1, <1>2, <1>3 DEF n
<1>5. By(k)' = By(k) \cup {x}
  BY <1>4 DEF By
<1>6. Handed' = Handed \cup {x}
  BY <1>4 DEF Handed
<1>7. ASSUME NEW j \in Carrier, j # k PROVE By(j)' = By(j)
  BY <1>4, <1>7 DEF By
<1>8. QED
  BY <1>1, <1>2, <1>5, <1>6, <1>7

LEMMA HandedBy ==
  ASSUME DriveTyped
  PROVE  Handed = UNION {By(k) : k \in Carrier}
<1>1. \A i \in DOMAIN handed : handed[i] \in Handing
  BY DEF DriveTyped
<1>2. QED
  BY <1>1 DEF Handed, By, Handing

\* A packet a channel may still take was not taken by any.
LEMMA Fresh ==
  ASSUME TypeInv, UpOrder, NEW k \in Carrier, NEW x \in Pending(k)
  PROVE  x \notin Handed
<1> SUFFICES ASSUME NEW j \in Carrier, x \in By(j) PROVE FALSE
  BY HandedBy DEF TypeInv
<1>1. x \in Held(k) /\ x \in Held(j)
  BY DEF Held
<1>2. ~(x < x)
  <2>1. Held(k) \subseteq 1 .. nsent
    BY DEF UpOrder, AllOrder
  <2>2. nsent \in Nat
    BY ConnAssumption DEF TypeInv, UpTyped
  <2>3. QED
    BY <1>1, <2>1, <2>2
<1>3. j = k \/ j < k \/ k < j
  BY ConnAssumption DEF Carrier
<1>4. QED
  BY <1>1, <1>2, <1>3 DEF UpOrder, EachOrder, AllOrder, Under

\* What a step of a snowflake's task does to the packets of the snowflakes
LEMMA WritesHeld ==
  ASSUME TypeInv, UpOrder, NEW k \in Carrier, DriveWrites(k)
  PROVE  \E x \in Packet :
           /\ Takes(k, <<x>>) /\ x \in Pending(k) /\ Under({x}, Pending(k)')
           /\ Pending(k) = {x} \cup Pending(k)' /\ Increasing(outq'[k])
           /\ Elems(blocked[k])' = {}
           /\ \A j \in Carrier : j # k => Pending(j)' = Pending(j) /\ outq'[j] = outq[j]
<1> DEFINE x == Head(outq[k])
<1>1. /\ outq[k] \in Seq(Packet) /\ outq[k] # <<>> /\ blocked[k] = <<>> /\ blocked' = blocked
      /\ outq'[k] = Tail(outq[k]) /\ Takes(k, <<x>>)
      /\ \A j \in Carrier : j # k => outq'[j] = outq[j]
  BY DEF DriveWrites, TypeInv, DriveTyped
<1>2. /\ x \in Packet /\ Elems(outq[k]) = {x} \cup Elems(outq'[k])
      /\ Increasing(outq'[k]) /\ Under({x}, Elems(outq'[k]))
  BY <1>1, ElemsTail DEF UpOrder, EachOrder
<1> HIDE DEF x
<1>3. Elems(blocked[k]) = {} /\ Elems(blocked[k])' = {}
  BY <1>1, ElemsEmpty
<1>4. Pending(k) = Elems(outq[k]) /\ Pending(k)' = Elems(outq'[k])
  BY <1>3 DEF Pending
<1>5. \A j \in Carrier : j # k => Pending(j)' = Pending(j)
  BY <1>1 DEF Pending
<1>6. QED
  BY <1>1, <1>2, <1>3, <1>4, <1>5

LEMMA RetriesHeld ==
  ASSUME TypeInv, UpOrder, NEW k \in Carrier, DriveRetries(k)
  PROVE  \E x \in Packet :
           /\ Takes(k, <<x>>) /\ x \in Pending(k) /\ Under({x}, Pending(k)')
           /\ Pending(k) = {x} \cup Pending(k)' /\ Increasing(outq'[k])
           /\ Elems(blocked[k])' = {}
           /\ \A j \in Carrier : j # k => Pending(j)' = Pending(j) /\ outq'[j] = outq[j]
<1>1. PICK x \in Packet : blocked[k] = <<x>> /\ Takes(k, <<x>>)
  BY RetriesOne DEF TypeInv
<1>2. /\ blocked'[k] = <<>> /\ outq' = outq
      /\ \A j \in Carrier : j # k => blocked'[j] = blocked[j]
  BY DEF DriveRetries, TypeInv, DriveTyped
<1>3. Elems(blocked[k]) = {x} /\ Elems(blocked[k])' = {}
  BY <1>1, <1>2, ElemsEmpty, ElemsSingle
<1>4. Pending(k) = {x} \cup Pending(k)' /\ Pending(k)' = Elems(outq[k])
  BY <1>2, <1>3 DEF Pending
<1>5. Under({x}, Elems(outq[k])) /\ Increasing(outq[k])
  BY <1>3 DEF UpOrder, EachOrder
<1>6. \A j \in Carrier : j # k => Pending(j)' = Pending(j)
  BY <1>2 DEF Pending
<1>7. QED
  BY <1>1, <1>2, <1>3, <1>4, <1>5, <1>6

LEMMA EachTakes ==
  ASSUME TypeInv, UpOrder, NEW k \in Carrier, NEW x \in Packet, Takes(k, <<x>>),
         x \in Pending(k), Pending(k) = {x} \cup Pending(k)', Under({x}, Pending(k)'),
         Increasing(outq'[k]), Elems(blocked[k])' = {}, up' = up,
         \A j \in Carrier : j # k => /\ Pending(j)' = Pending(j) /\ outq'[j] = outq[j]
                                     /\ blocked'[j] = blocked[j]
  PROVE  EachOrder' /\ \A j \in Carrier : Held(j)' = Held(j)
<1>1. /\ Len(handed) \in Nat /\ DOMAIN handed = 1 .. Len(handed)
      /\ DOMAIN handed' = 1 .. Len(handed) + 1
      /\ \A i \in DOMAIN handed : handed'[i] = handed[i]
      /\ handed'[Len(handed) + 1].by = k /\ handed'[Len(handed) + 1].packet = x
      /\ By(k)' = By(k) \cup {x} /\ \A j \in Carrier : j # k => By(j)' = By(j)
  BY TakesBy DEF TypeInv
<1>2. ASSUME NEW i \in DOMAIN handed', NEW j \in DOMAIN handed',
             handed'[i].by = handed'[j].by, i < j
      PROVE  handed'[i].packet < handed'[j].packet
  <2>1. i \in DOMAIN handed /\ handed'[i] = handed[i]
    BY <1>1, <1>2
  <2>2. CASE j \in DOMAIN handed
    BY <1>1, <1>2, <2>1, <2>2 DEF UpOrder, EachOrder
  <2>3. CASE j = Len(handed) + 1
    <3>1. handed[i].by = k
      BY <1>1, <1>2, <2>1, <2>3
    <3>2. handed[i].packet \in By(k)
      BY <2>1, <3>1 DEF By
    <3>3. QED
      BY <1>1, <2>1, <2>3, <3>2 DEF UpOrder, EachOrder, Under
  <2>4. QED
    BY <1>1, <2>2, <2>3
<1>3. \A j \in Carrier : Held(j)' = Held(j)
  BY <1>1 DEF Held
<1>4. ASSUME NEW j \in Carrier
      PROVE  /\ Under(By(j), Pending(j))'
             /\ Under(Elems(blocked[j]), Elems(outq[j]))' /\ Increasing(outq[j])'
             /\ (j > up => Held(j) = {})'
  <2>1. (j > up => Held(j) = {})'
    BY <1>3 DEF UpOrder, EachOrder
  <2>2. CASE j = k
    <3>1. Under(By(k), Pending(k))
      BY DEF UpOrder, EachOrder
    <3>2. Under(By(k), Pending(k))'
      BY <1>1, <3>1 DEF Under
    <3>3. Under(Elems(blocked[k]), Elems(outq[k]))'
      BY DEF Under
    <3>4. QED
      BY <2>1, <2>2, <3>2, <3>3
  <2>3. CASE j # k
    <3>1. /\ By(j)' = By(j) /\ Pending(j)' = Pending(j)
          /\ blocked'[j] = blocked[j] /\ outq'[j] = outq[j]
      BY <1>1, <2>3
    <3>2. /\ Under(By(j), Pending(j)) /\ Under(Elems(blocked[j]), Elems(outq[j]))
          /\ Increasing(outq[j])
      BY DEF UpOrder, EachOrder
    <3>3. QED
      BY <2>1, <3>1, <3>2 DEF Under, Increasing, Elems
  <2>4. QED
    BY <2>2, <2>3
<1>5. QED
  BY <1>2, <1>3, <1>4 DEF EachOrder

LEMMA UpOrderNext == TypeInv /\ UpOrder /\ [Next]_vars => UpOrder'
<1> SUFFICES ASSUME TypeInv, UpOrder, [Next]_vars PROVE UpOrder'
  OBVIOUS
<1>0. /\ nsent \in Nat /\ sendq \in Seq(Packet) /\ hand \in Seq(Packet) /\ Len(hand) <= 1
      /\ up \in Nat
      /\ \A k \in Carrier : outq[k] \in Seq(Packet) /\ blocked[k] \in Seq(Packet)
  BY ConnAssumption DEF TypeInv, UpTyped, DriveTyped, LoopTyped
<1>a. ASSUME NEW S, S \subseteq 1 .. nsent
      PROVE  Under(S, {nsent + 1}) /\ S \subseteq 1 .. nsent + 1
  <2>1. \A s \in 1 .. nsent : s < nsent + 1 /\ s \in 1 .. nsent + 1
    BY <1>0
  <2>2. QED
    BY <1>a, <2>1 DEF Under
\* The packets of the snowflakes stay where they are.
<1>b. ASSUME UNCHANGED <<handed, blocked, outq>>
      PROVE  /\ \A k : By(k)' = By(k) /\ Pending(k)' = Pending(k) /\ Held(k)' = Held(k)
             /\ up' = up \/ up' = up + 1 => EachOrder'
  <2>1. \A k : By(k)' = By(k) /\ Pending(k)' = Pending(k) /\ Held(k)' = Held(k)
    BY <1>b DEF Held, By, Pending
  <2>2. ASSUME up' = up \/ up' = up + 1 PROVE EachOrder'
    <3>1. \A k \in Carrier : k > up' => k > up
      BY <1>0, <2>2, ConnAssumption DEF Carrier
    <3>2. QED
      BY <1>b, <2>1, <3>1 DEF UpOrder, EachOrder
  <2>3. QED
    BY <2>1, <2>2
<1>1. CASE UNCHANGED <<handed, blocked, outq, hand, sendq, nsent>> /\ (up' = up \/ up' = up + 1)
  BY <1>1, <1>b DEF UpOrder, AllOrder
<1>2. CASE Send
  <2>1. nsent + 1 \in Packet /\ nsent' = nsent + 1 /\ UNCHANGED <<handed, blocked, outq, hand, up>>
    BY <1>0, <1>2, ConnAssumption DEF Send, Packet, driveVars, loopVars
  <2>2. /\ Increasing(sendq') /\ Elems(sendq') \subseteq Elems(sendq) \cup {nsent + 1}
    <3>1. CASE sendq' = sendq
      BY <3>1 DEF UpOrder, AllOrder
    <3>2. CASE sendq' = Append(sendq, nsent + 1)
      <4>1. Under(Elems(sendq), {nsent + 1}) /\ Increasing(sendq)
        BY <1>a DEF UpOrder, AllOrder
      <4>2. QED
        BY <1>0, <2>1, <3>2, <4>1, ElemsAppend
    <3>3. QED
      BY <1>2, <3>1, <3>2 DEF Send
  <2>3. Elems(hand) \cup Elems(sendq') \subseteq 1 .. nsent' /\ Under(Elems(hand), Elems(sendq'))
    <3>1. /\ Elems(hand) \subseteq 1 .. nsent /\ Elems(sendq) \subseteq 1 .. nsent
          /\ Under(Elems(hand), Elems(sendq))
      BY DEF UpOrder, AllOrder
    <3>2. nsent + 1 \in 1 .. nsent'
      BY <1>0, <2>1
    <3>3. QED
      BY <1>a, <2>1, <2>2, <3>1, <3>2 DEF Under
  <2>4. ASSUME NEW k \in Carrier
        PROVE  Under(Held(k), Elems(hand) \cup Elems(sendq')) /\ Held(k) \subseteq 1 .. nsent'
    <3>1. Held(k) \subseteq 1 .. nsent /\ Under(Held(k), Elems(hand) \cup Elems(sendq))
      BY DEF UpOrder, AllOrder
    <3>2. QED
      BY <1>a, <2>1, <2>2, <3>1 DEF Under
  <2>5. QED
    BY <1>b, <2>1, <2>2, <2>3, <2>4 DEF UpOrder, AllOrder
<1>3. CASE ExchangeEnd
  <2>1. hand' = <<>> /\ UNCHANGED <<handed, blocked, outq, sendq, nsent, up>>
    BY <1>3 DEF ExchangeEnd, driveVars
  <2>2. QED
    BY <1>b, <2>1, ElemsEmpty DEF UpOrder, AllOrder, Under
<1>4. CASE WriterTakes
  <2>1. /\ hand' = <<Head(sendq)>> /\ sendq' = Tail(sendq) /\ sendq # <<>>
        /\ UNCHANGED <<handed, blocked, outq, nsent, up>>
    BY <1>4 DEF WriterTakes, driveVars, loopVars
  <2>2. Elems(hand') = {Head(sendq)}
    BY <2>1, ElemsSingle
  <2>3. /\ Elems(sendq) = {Head(sendq)} \cup Elems(sendq') /\ Increasing(sendq')
        /\ Under({Head(sendq)}, Elems(sendq'))
    BY <1>0, <2>1, ElemsTail DEF UpOrder, AllOrder
  <2>4. QED
    BY <1>b, <2>1, <2>2, <2>3 DEF UpOrder, AllOrder, Under
<1>5. CASE WriterSends
  <2> DEFINE x == hand[1]
  <2>1. /\ up \in Carrier /\ hand # <<>> /\ hand' = <<>>
        /\ UNCHANGED <<handed, blocked, sendq, nsent, up>>
        /\ outq'[up] = outq[up] \o hand /\ \A k \in Carrier : k # up => outq'[k] = outq[k]
    BY <1>5 DEF WriterSends, TypeInv, LoopTyped, UpTyped, DriveTyped, loopVars
  <2>2. /\ x \in Packet /\ Elems(hand) = {x} /\ outq'[up] = Append(outq[up], x)
        /\ Elems(hand') = {}
    BY <1>0, <2>1, ElemsOne, ElemsEmpty
  <2> HIDE DEF x
  <2>3. Under(Held(up), {x}) /\ Increasing(outq[up])
    BY <2>1, <2>2 DEF UpOrder, EachOrder, AllOrder, Under
  <2>4. Elems(outq'[up]) = Elems(outq[up]) \cup {x} /\ Increasing(outq'[up])
    BY <1>0, <2>1, <2>2, <2>3, ElemsAppend DEF Under, Held, Pending
  <2>5. /\ \A k \in Carrier : By(k)' = By(k) /\ blocked'[k] = blocked[k]
        /\ \A k \in Carrier : k # up => Pending(k)' = Pending(k) /\ Held(k)' = Held(k)
        /\ Pending(up)' = Pending(up) \cup {x} /\ Held(up)' = Held(up) \cup {x}
    BY <2>1, <2>4 DEF By, Pending, Held
  <2>6. EachOrder'
    <3>1. ASSUME NEW k \in Carrier
          PROVE  /\ Under(By(k), Pending(k))'
                 /\ Under(Elems(blocked[k]), Elems(outq[k]))' /\ Increasing(outq[k])'
                 /\ (k > up => Held(k) = {})'
      <4>1. /\ Under(By(k), Pending(k)) /\ Under(Elems(blocked[k]), Elems(outq[k]))
            /\ Increasing(outq[k]) /\ (k > up => Held(k) = {})
        BY DEF UpOrder, EachOrder
      <4>2. CASE k # up
        <5>1. /\ By(k)' = By(k) /\ Pending(k)' = Pending(k) /\ Held(k)' = Held(k)
              /\ outq'[k] = outq[k] /\ blocked'[k] = blocked[k]
          BY <2>1, <2>5, <4>2
        <5>2. QED
          BY <2>1, <4>1, <5>1
      <4>3. CASE k = up
        <5>1. ~(k > up')
          BY <1>0, <2>1, <4>3
        <5>2. Under(By(up), Pending(up) \cup {x}) /\ Under(Elems(blocked[up]), {x})
          BY <2>3, <4>1, <4>3 DEF Under, Held, Pending
        <5>3. Under(By(k), Pending(k))'
          BY <2>1, <2>5, <4>3, <5>2
        <5>4. Under(Elems(blocked'[up]), Elems(outq'[up]))
          BY <2>1, <2>4, <4>1, <4>3, <5>2 DEF Under
        <5>5. QED
          BY <2>1, <2>4, <4>3, <5>1, <5>3, <5>4
      <4>4. QED
        BY <4>2, <4>3
    <3>2. \A i, j \in DOMAIN handed' :
             handed'[i].by = handed'[j].by /\ i < j => handed'[i].packet < handed'[j].packet
      BY <2>1 DEF UpOrder, EachOrder
    <3>3. QED
      BY <3>1, <3>2 DEF EachOrder
  <2>7. AllOrder'
    <3>1. ASSUME NEW j \in Carrier, NEW k \in Carrier, j < k PROVE Under(Held(j)', Held(k)')
      <4>1. Under(Held(j), Held(k))
        BY <3>1 DEF UpOrder, AllOrder
      <4>2. CASE j # up /\ k # up
        BY <2>5, <4>1, <4>2
      <4>3. CASE k = up
        <5>1. j # up /\ Held(j)' = Held(j) /\ Held(k)' = Held(up) \cup {x}
          <6>1. j # up
            BY <3>1, <4>3 DEF Carrier
          <6>2. QED
            BY <2>1, <2>5, <4>3, <6>1
        <5>2. Under(Held(j), {x})
          BY <2>2 DEF UpOrder, AllOrder, Under
        <5>3. QED
          BY <4>1, <4>3, <5>1, <5>2 DEF Under
      <4>4. CASE j = up
        <5>1. k # up /\ Held(k)' = Held(k) /\ Held(k) = {}
          BY <1>0, <2>5, <3>1, <4>4 DEF UpOrder, EachOrder, Carrier
        <5>2. QED
          BY <5>1 DEF Under
      <4>5. QED
        BY <4>2, <4>3, <4>4
    <3>2. ASSUME NEW k \in Carrier
          PROVE  Under(Held(k)', Elems(hand') \cup Elems(sendq')) /\ Held(k)' \subseteq 1 .. nsent'
      <4>1. /\ Under(Held(k), Elems(hand) \cup Elems(sendq)) /\ Held(k) \subseteq 1 .. nsent
            /\ Under({x}, Elems(sendq)) /\ x \in 1 .. nsent
        BY <2>2 DEF UpOrder, AllOrder
      <4>2. Held(k)' \subseteq Held(k) \cup {x}
        <5>1. CASE k = up
          BY <2>1, <2>5, <5>1
        <5>2. CASE k # up
          BY <2>5, <5>2
        <5>3. QED
          BY <5>1, <5>2
      <4>3. QED
        BY <2>1, <2>2, <4>1, <4>2 DEF Under
    <3>3. QED
      BY <2>1, <2>2, <3>1, <3>2 DEF UpOrder, AllOrder, Under
  <2>8. QED
    BY <2>6, <2>7 DEF UpOrder
<1>6. ASSUME NEW k \in Carrier, DriveWrites(k) PROVE UpOrder'
  <2>1. EachOrder' /\ \A j \in Carrier : Held(j)' = Held(j)
    BY <1>6, WritesHeld, EachTakes DEF DriveWrites, loopVars
  <2>2. UNCHANGED <<hand, sendq, nsent>>
    BY <1>6 DEF DriveWrites
  <2>3. QED
    BY <2>1, <2>2 DEF UpOrder, AllOrder
<1>7. ASSUME NEW k \in Carrier, DriveRetries(k) PROVE UpOrder'
  <2>1. \A j \in Carrier : j # k => blocked'[j] = blocked[j]
    BY <1>7 DEF DriveRetries, TypeInv, DriveTyped
  <2>2. EachOrder' /\ \A j \in Carrier : Held(j)' = Held(j)
    BY <1>7, <2>1, RetriesHeld, EachTakes DEF DriveRetries, loopVars
  <2>3. UNCHANGED <<hand, sendq, nsent>>
    BY <1>7 DEF DriveRetries
  <2>4. QED
    BY <2>2, <2>3 DEF UpOrder, AllOrder
<1>8. ASSUME NEW k \in Carrier, DriveRefused(k) \/ DriveReturns(k) PROVE UpOrder'
  <2>1. /\ handed' = handed /\ UNCHANGED <<hand, sendq, nsent, up>>
        /\ \A j \in Carrier : j # k => outq'[j] = outq[j] /\ blocked'[j] = blocked[j]
    BY <1>8 DEF DriveRefused, DriveReturns, TypeInv, DriveTyped, loopVars
  <2>2. /\ Pending(k)' \subseteq Pending(k) /\ Increasing(outq'[k])
        /\ Under(Elems(blocked'[k]), Elems(outq'[k]))
    <3>1. CASE DriveRefused(k)
      <4>1. /\ outq[k] # <<>> /\ outq'[k] = Tail(outq[k]) /\ blocked'[k] = <<Head(outq[k])>>
        BY <3>1 DEF DriveRefused, TypeInv, DriveTyped
      <4>2. /\ Elems(outq[k]) = {Head(outq[k])} \cup Elems(outq'[k])
            /\ Increasing(outq'[k]) /\ Under({Head(outq[k])}, Elems(outq'[k]))
        BY <1>0, <4>1, ElemsTail DEF UpOrder, EachOrder
      <4>3. Elems(blocked'[k]) = {Head(outq[k])}
        BY <4>1, ElemsSingle
      <4>4. QED
        BY <4>2, <4>3 DEF Pending
    <3>2. CASE DriveReturns(k)
      <4>1. outq'[k] = <<>> /\ blocked'[k] = <<>>
        BY <3>2 DEF DriveReturns, TypeInv, DriveTyped
      <4>2. QED
        BY <4>1, ElemsEmpty DEF Pending, Under
    <3>3. QED
      BY <1>8, <3>1, <3>2
  <2>3. \A j \in Carrier : By(j)' = By(j) /\ (j # k => Pending(j)' = Pending(j))
    BY <2>1 DEF By, Pending
  <2>4. \A j \in Carrier : Held(j)' \subseteq Held(j) /\ Pending(j)' \subseteq Pending(j)
    BY <2>2, <2>3 DEF Held
  <2>5. ASSUME NEW j \in Carrier
        PROVE  /\ Under(By(j), Pending(j))'
               /\ Under(Elems(blocked[j]), Elems(outq[j]))' /\ Increasing(outq[j])'
               /\ (j > up => Held(j) = {})'
    <3>1. /\ Under(By(j), Pending(j)) /\ Under(Elems(blocked[j]), Elems(outq[j]))
          /\ Increasing(outq[j]) /\ (j > up => Held(j) = {})
      BY DEF UpOrder, EachOrder
    <3>2. Under(Elems(blocked'[j]), Elems(outq'[j])) /\ Increasing(outq'[j])
      BY <2>1, <2>2, <3>1
    <3>3. Under(By(j)', Pending(j)')
      BY <2>3, <2>4, <3>1 DEF Under
    <3>4. j > up' => Held(j)' = {}
      BY <2>1, <2>4, <3>1
    <3>5. QED
      BY <3>2, <3>3, <3>4
  <2>6. EachOrder'
    <3>1. \A i, j \in DOMAIN handed' :
             handed'[i].by = handed'[j].by /\ i < j => handed'[i].packet < handed'[j].packet
      BY <2>1 DEF UpOrder, EachOrder
    <3>2. QED
      BY <2>5, <3>1 DEF EachOrder
  <2>7. AllOrder'
    <3>1. \A i, j \in Carrier : i < j => Under(Held(i)', Held(j)')
      BY <2>4 DEF UpOrder, AllOrder, Under
    <3>2. \A j \in Carrier : Under(Held(j)', Elems(hand) \cup Elems(sendq)) /\ Held(j)' \subseteq 1 .. nsent
      BY <2>4 DEF UpOrder, AllOrder, Under
    <3>3. QED
      BY <2>1, <3>1, <3>2 DEF UpOrder, AllOrder
  <2>8. QED
    BY <2>6, <2>7 DEF UpOrder
<1>9. QED
  BY <1>1, <1>2, <1>3, <1>4, <1>5, <1>6, <1>7, <1>8 DEF Next, DialLoop, Driver, vars,
     upVars, driveVars, loopVars, RecvStart, RecvPacket, RecvError, Close, DialStart,
     DialAborted, DialOk, DialError, WriterChecks, ReaderTakes, Die, ServerGets,
     ChannelFails, ServerSends

\* What a channel takes is late for no other, and never while its snowflake is
\* the current one.
LEMMA LateTakes ==
  ASSUME TypeInv, LateInv, NEW k \in Carrier, NEW x \in Packet, Takes(k, <<x>>),
         drive[k] = "runs", Turn(k), up' = up
  PROVE  LateInv'
<1> DEFINE n == Len(handed)
<1>1. /\ n \in Nat /\ DOMAIN handed = 1 .. n /\ DOMAIN handed' = 1 .. n + 1
      /\ \A i \in DOMAIN handed : handed'[i] = handed[i]
      /\ handed'[n + 1].by = k
  BY TakesBy DEF TypeInv
<1>2. up \in Nat /\ k \in Nat /\ (Open(k) => k = up)
  BY ConnAssumption DEF TypeInv, LoopTyped, Carrier, Open
<1> HIDE DEF n
<1>3. /\ \A j \in 1 .. n + 1 : j \in 1 .. n \/ j = n + 1
      /\ \A j \in 1 .. n : \A i \in 1 .. j - 1 : i \in 1 .. n
      /\ \A i \in 1 .. (n + 1) - 1 : i \in 1 .. n
  BY <1>1
<1>4. \A c \in Carrier : c # k => Late(c)' = Late(c)
  BY <1>1, <1>3 DEF Late
<1>5. Late(k)' \subseteq {n + 1}
  <2>1. Late(k) = {}
    BY DEF LateInv
  <2>2. \A j \in Late(k)' : j \in Late(k) \/ j = n + 1
    BY <1>1, <1>3 DEF Late
  <2>3. QED
    BY <2>1, <2>2
<1>6. k <= up
  <2>1. CASE Open(k)
    BY <1>2, <2>1
  <2>2. CASE ~Open(k)
    BY <1>2 DEF LateInv
  <2>3. QED
    BY <2>1, <2>2
<1>7. Open(k) => Late(k)' = {}
  <2>1. ASSUME Open(k) PROVE n + 1 \notin Late(k)'
    <3>1. \A i \in 1 .. n : ~(handed'[i].by > k)
      <4>1. \A i \in 1 .. n : handed[i].by <= up /\ handed[i].by \in Nat
        <5>1. \A i \in 1 .. n : handed[i] \in Handing
          BY <1>1 DEF TypeInv, DriveTyped
        <5>2. QED
          BY <1>1, <5>1 DEF LateInv, Handing, Carrier
      <4>2. QED
        BY <1>1, <1>2, <2>1, <4>1
    <3>2. QED
      BY <1>3, <3>1 DEF Late
  <2>2. QED
    BY <1>5, <2>1
<1>8. \A i \in DOMAIN handed' : handed'[i].by <= up'
  BY <1>1, <1>3, <1>6 DEF LateInv
<1>9. ASSUME NEW c \in Carrier, drive'[c] = "runs" PROVE Late(c)' = {}
  <2>1. CASE c = k
    <3>1. Open(k)
      BY <1>9, <2>1 DEF Turn, TypeInv, DriveTyped
    <3>2. QED
      BY <1>7, <2>1, <3>1
  <2>2. CASE c # k
    <3>1. drive[c] = "runs"
      BY <1>9, <2>2 DEF Turn, TypeInv, DriveTyped
    <3>2. QED
      BY <1>4, <2>2, <3>1 DEF LateInv
  <2>3. QED
    BY <2>1, <2>2
<1>10. OneLate'
  <2> SUFFICES ASSUME NEW c \in Carrier, NEW i \in Late(c)', NEW j \in Late(c)' PROVE i = j
    BY DEF OneLate
  <2>1. CASE c = k
    BY <1>5, <2>1
  <2>2. CASE c # k
    BY <1>4, <2>2 DEF LateInv, OneLate
  <2>3. QED
    BY <2>1, <2>2
<1>11. ASSUME NEW c \in Carrier, c > up' PROVE drive'[c] = "none"
  <2>1. c # k /\ c > up
    BY <1>2, <1>6, <1>11 DEF Carrier
  <2>2. QED
    BY <2>1 DEF LateInv, Turn, TypeInv, DriveTyped
<1>12. QED
  BY <1>8, <1>9, <1>10, <1>11 DEF LateInv

LEMMA LateNext == TypeInv /\ LateInv /\ [Next]_vars => LateInv'
<1> SUFFICES ASSUME TypeInv, LateInv, [Next]_vars PROVE LateInv'
  OBVIOUS
<1>1. ASSUME handed' = handed, up' = up,
             \A k \in Carrier : drive'[k] \in {"runs", "none"} => drive'[k] = drive[k],
             \A k \in Carrier : drive[k] = "none" => drive'[k] = "none"
      PROVE  LateInv'
  BY <1>1 DEF LateInv, OneLate, Late
<1>2. CASE UNCHANGED <<handed, up, drive>>
  BY <1>1, <1>2
<1>3. ASSUME NEW k \in Carrier, DriveRefused(k) \/ DriveReturns(k) PROVE LateInv'
  BY <1>1, <1>3 DEF DriveRefused, DriveReturns, Turn, TypeInv, DriveTyped, loopVars
<1>4. ASSUME NEW k \in Carrier, DriveWrites(k) PROVE LateInv'
  <2>1. Head(outq[k]) \in Packet
    <3>1. outq[k] \in Seq(Packet) /\ outq[k] # <<>>
      BY <1>4 DEF DriveWrites, TypeInv, DriveTyped
    <3>2. QED
      BY <3>1, ElemsTail
  <2>2. QED
    BY <1>4, <2>1, LateTakes DEF DriveWrites, loopVars
<1>5. ASSUME NEW k \in Carrier, DriveRetries(k) PROVE LateInv'
  <2>1. PICK x \in Packet : Takes(k, <<x>>)
    BY <1>5, RetriesOne DEF TypeInv
  <2>2. QED
    BY <1>5, <2>1, LateTakes DEF DriveRetries, loopVars
<1>6. CASE DialOk
  <2>1. /\ up' = up + 1 /\ handed' = handed /\ up \in Nat
        /\ \A k \in Carrier : k # up + 1 => drive'[k] = drive[k]
    BY <1>6, ConnAssumption DEF DialOk, TypeInv, LoopTyped, DriveTyped
  <2>2. \A i \in DOMAIN handed : handed[i].by <= up /\ handed[i].by \in Nat
    <3>1. \A i \in DOMAIN handed : handed[i] \in Handing
      BY DEF TypeInv, DriveTyped
    <3>2. QED
      BY <3>1 DEF LateInv, Handing, Carrier
  <2>3. \A i \in DOMAIN handed : handed[i].by <= up' /\ handed[i].by # up + 1
    BY <2>1, <2>2
  <2>4. Late(up + 1) = {} /\ \A k : Late(k)' = Late(k)
    BY <2>1, <2>3 DEF Late
  <2>5. \A k \in Carrier : drive'[k] = "runs" => Late(k)' = {}
    BY <2>1, <2>4 DEF LateInv
  <2>6. OneLate'
    BY <2>4 DEF LateInv, OneLate
  <2>7. ASSUME NEW k \in Carrier, k > up' PROVE drive'[k] = "none"
    <3>1. k # up + 1 /\ k > up
      BY <2>1, <2>7 DEF Carrier
    <3>2. QED
      BY <2>1, <3>1 DEF LateInv
  <2>8. QED
    BY <2>1, <2>3, <2>5, <2>6, <2>7 DEF LateInv
<1>7. QED
  BY <1>2, <1>3, <1>4, <1>5, <1>6 DEF Next, DialLoop, Driver, vars, upVars, driveVars,
     loopVars, Send, RecvStart, RecvPacket, RecvError, Close, DialStart, DialAborted,
     DialError, ExchangeEnd, WriterTakes, WriterChecks, WriterSends, ReaderTakes, Die,
     ServerGets, ChannelFails, ServerSends

LEMMA ChannelTakes ==
  ASSUME TypeInv, UpOrder, Delivery, NEW k \in Carrier, NEW x \in Pending(k), x \in Packet,
         Takes(k, <<x>>), served' = served
  PROVE  Delivery'
<1>1. /\ By(k)' = By(k) \cup {x} /\ \A j \in Carrier : j # k => By(j)' = By(j)
      /\ Handed' = Handed \cup {x}
  BY TakesBy DEF TypeInv
<1>2. /\ channel[k] \in Seq(Packet) /\ channel'[k] = Append(channel[k], x)
      /\ \A j \in Carrier : j # k => channel'[j] = channel[j]
  <2>1. channel' = [channel EXCEPT ![k] = Append(@, x)]
    BY TakesOne DEF TypeInv
  <2>2. channel \in [Carrier -> Seq(Packet)]
    BY DEF TypeInv, DriveTyped
  <2>3. QED
    BY <2>1, <2>2
<1>3. x \notin Handed /\ x \notin Elems(served)
  BY Fresh DEF Delivery
<1>4. Elems(channel'[k]) = Elems(channel[k]) \cup {x} /\ Increasing(channel'[k])
  <2>1. Under(Elems(channel[k]), {x}) /\ Increasing(channel[k])
    BY DEF Delivery, UpOrder, EachOrder, Under
  <2>2. QED
    BY <1>2, <2>1, ElemsAppend
<1>5. ASSUME NEW j \in Carrier
      PROVE  /\ Elems(channel'[j]) \subseteq By(j)' /\ Increasing(channel'[j])
             /\ Elems(channel'[j]) \cap Elems(served') = {}
  <2>1. /\ Elems(channel[j]) \subseteq By(j) /\ Increasing(channel[j])
        /\ Elems(channel[j]) \cap Elems(served) = {}
    BY DEF Delivery
  <2>2. CASE j = k
    BY <1>1, <1>3, <1>4, <2>1, <2>2
  <2>3. CASE j # k
    BY <1>1, <1>2, <2>1, <2>3
  <2>4. QED
    BY <2>2, <2>3
<1>6. Elems(served') \subseteq Handed'
  BY <1>1 DEF Delivery
<1>7. QED
  BY <1>5, <1>6 DEF Delivery

LEMMA DeliveryNext == TypeInv /\ UpOrder /\ Delivery /\ [Next]_vars => Delivery'
<1> SUFFICES ASSUME TypeInv, UpOrder, Delivery, [Next]_vars PROVE Delivery'
  OBVIOUS
<1>0. ASSUME handed' = handed PROVE Handed' = Handed /\ \A k : By(k)' = By(k)
  BY <1>0 DEF Handed, By
<1>1. CASE UNCHANGED <<handed, channel, served>>
  BY <1>0, <1>1 DEF Delivery
<1>2. ASSUME NEW k \in Carrier, DriveWrites(k) PROVE Delivery'
  <2>1. PICK x \in Packet : Takes(k, <<x>>) /\ x \in Pending(k)
    BY <1>2, WritesHeld
  <2>2. QED
    BY <1>2, <2>1, ChannelTakes DEF DriveWrites
<1>3. ASSUME NEW k \in Carrier, DriveRetries(k) PROVE Delivery'
  <2>1. PICK x \in Packet : Takes(k, <<x>>) /\ x \in Pending(k)
    BY <1>3, RetriesHeld
  <2>2. QED
    BY <1>3, <2>1, ChannelTakes DEF DriveRetries
<1>4. ASSUME NEW n \in Carrier, ServerGets(n) PROVE Delivery'
  <2> DEFINE p == Head(channel[n])
  <2>1. /\ channel[n] \in Seq(Packet) /\ channel[n] # <<>> /\ handed' = handed
        /\ channel'[n] = Tail(channel[n])
        /\ \A k \in Carrier : k # n => channel'[k] = channel[k]
        /\ served' = Append(served, p)
    BY <1>4 DEF ServerGets, TypeInv, DriveTyped
  <2>2. /\ p \in Packet /\ Elems(channel[n]) = {p} \cup Elems(channel'[n])
        /\ Increasing(channel'[n]) /\ Under({p}, Elems(channel'[n]))
    <3>1. Increasing(channel[n])
      BY DEF Delivery
    <3>2. QED
      BY <2>1, <3>1, ElemsTail
  <2> HIDE DEF p
  <2>3. p \notin Elems(channel'[n]) /\ p \in By(n) /\ p \in Handed
    <3>1. ~(p < p)
      BY <2>2 DEF Packet
    <3>2. p \in By(n)
      BY <2>2 DEF Delivery
    <3>3. QED
      BY <2>2, <3>1, <3>2, HandedBy DEF Under, TypeInv
  <2>4. Elems(served') = Elems(served) \cup {p}
    BY <2>1, <2>2, ElemsAppend DEF TypeInv, UpTyped
  <2>5. ASSUME NEW k \in Carrier, k # n PROVE p \notin By(k)
    <3>1. k < n \/ n < k
      BY <2>5 DEF Carrier
    <3>2. ~(p < p)
      BY <2>2 DEF Packet
    <3>3. p \in Held(n) /\ (p \in By(k) => p \in Held(k))
      BY <2>3 DEF Held
    <3>4. QED
      BY <3>1, <3>2, <3>3 DEF UpOrder, AllOrder, Under
  <2>6. ASSUME NEW k \in Carrier
        PROVE  /\ Elems(channel'[k]) \subseteq By(k)' /\ Increasing(channel'[k])
               /\ Elems(channel'[k]) \cap Elems(served') = {}
    <3>1. /\ Elems(channel[k]) \subseteq By(k) /\ Increasing(channel[k])
          /\ Elems(channel[k]) \cap Elems(served) = {} /\ By(k)' = By(k)
      BY <1>0, <2>1 DEF Delivery
    <3>2. CASE k = n
      BY <2>2, <2>3, <2>4, <3>1, <3>2
    <3>3. CASE k # n
      BY <2>1, <2>4, <2>5, <3>1, <3>3
    <3>4. QED
      BY <3>2, <3>3
  <2>7. Elems(served') \subseteq Handed'
    BY <1>0, <2>1, <2>3, <2>4 DEF Delivery
  <2>8. QED
    BY <2>6, <2>7 DEF Delivery
<1>5. ASSUME NEW n \in Carrier, ChannelFails(n) PROVE Delivery'
  <2>1. /\ \A k \in Carrier : channel'[k] = channel[k] \/ channel'[k] = <<>>
        /\ handed' = handed /\ served' = served
    BY <1>5 DEF ChannelFails, TypeInv, DriveTyped
  <2>2. ASSUME NEW k \in Carrier
        PROVE  /\ Elems(channel'[k]) \subseteq By(k)' /\ Increasing(channel'[k])
               /\ Elems(channel'[k]) \cap Elems(served') = {}
    BY <1>0, <2>1, ElemsEmpty DEF Delivery
  <2>3. QED
    BY <1>0, <2>1, <2>2 DEF Delivery
<1>6. QED
  BY <1>1, <1>2, <1>3, <1>4, <1>5 DEF Next, DialLoop, Driver, vars, upVars, driveVars,
     Send, WriterTakes, WriterChecks, WriterSends, DriveRefused, DriveReturns, ExchangeEnd,
     RecvStart, RecvPacket, RecvError, Close, DialStart, DialAborted, DialOk, DialError,
     ReaderTakes, Die, ServerSends

LEMMA DownOrderNext == TypeInv /\ DownOrder /\ [Next]_vars => DownOrder'
<1> SUFFICES ASSUME TypeInv, DownOrder, [Next]_vars PROVE DownOrder'
  OBVIOUS
<1>0. DownTyped /\ nserved \in Nat
  BY ConnAssumption DEF TypeInv, DownTyped
<1>1. CASE UNCHANGED <<got, recvq, down, nserved>>
  BY <1>1 DEF DownOrder
<1>2. CASE RecvPacket
  <2>1. /\ got' = Append(got, Head(recvq)) /\ recvq' = Tail(recvq) /\ recvq # <<>>
        /\ UNCHANGED <<down, nserved>>
    BY <1>2 DEF RecvPacket
  <2>2. /\ Head(recvq) \in Packet /\ Elems(recvq) = {Head(recvq)} \cup Elems(recvq')
        /\ Increasing(recvq') /\ Under({Head(recvq)}, Elems(recvq'))
    BY <1>0, <2>1, ElemsTail DEF DownTyped, DownOrder
  <2>3. Elems(got') = Elems(got) \cup {Head(recvq)} /\ Increasing(got')
    BY <1>0, <2>1, <2>2, ElemsAppend DEF DownTyped, DownOrder, Under
  <2>4. QED
    BY <2>1, <2>2, <2>3 DEF DownOrder, Under
<1>3. CASE ReaderTakes
  <2>1. /\ down' = Tail(down) /\ down # <<>> /\ UNCHANGED <<got, nserved>>
        /\ recvq' = recvq \/ recvq' = Append(recvq, Head(down))
    BY <1>3 DEF ReaderTakes
  <2>2. /\ Head(down) \in Packet /\ Elems(down) = {Head(down)} \cup Elems(down')
        /\ Increasing(down') /\ Under({Head(down)}, Elems(down'))
    BY <1>0, <2>1, ElemsTail DEF DownTyped, DownOrder
  <2>3. Elems(recvq') \subseteq Elems(recvq) \cup {Head(down)} /\ Increasing(recvq')
    <3>1. Increasing(recvq) /\ Under(Elems(recvq), {Head(down)}) /\ recvq \in Seq(Packet)
      BY <1>0, <2>2 DEF DownTyped, DownOrder, Under
    <3>2. QED
      BY <2>1, <2>2, <3>1, ElemsAppend
  <2>4. QED
    BY <2>1, <2>2, <2>3 DEF DownOrder, Under
<1>4. CASE ExchangeEnd
  BY <1>4, ElemsEmpty DEF ExchangeEnd, DownOrder, Under
<1>5. CASE ServerSends
  <2>1. /\ nserved + 1 \in Packet /\ nserved' = nserved + 1
        /\ down' = Append(down, nserved + 1) /\ UNCHANGED <<got, recvq>>
    BY <1>0, <1>5, ConnAssumption DEF ServerSends, Packet
  <2>2. \A X : X \subseteq 1 .. nserved =>
                 Under(X, {nserved + 1}) /\ X \subseteq 1 .. nserved'
    BY <1>0, <2>1 DEF Under
  <2>3. Elems(down') = Elems(down) \cup {nserved + 1} /\ Increasing(down')
    BY <1>0, <2>1, <2>2, ElemsAppend DEF DownTyped, DownOrder
  <2>4. nserved + 1 \in 1 .. nserved'
    BY <1>0, <2>1
  <2>5. QED
    BY <2>1, <2>2, <2>3, <2>4 DEF DownOrder, Under
<1>6. QED
  BY <1>1, <1>2, <1>3, <1>4, <1>5 DEF Next, DialLoop, Driver, vars, downVars, Send,
     RecvStart, RecvError, Close, DialStart, DialAborted, DialOk, DialError, WriterTakes,
     WriterChecks, WriterSends, DriveWrites, DriveRefused, DriveRetries, DriveReturns, Die,
     ServerGets, ChannelFails

OrderInv == TypeInv /\ UpOrder /\ LateInv /\ Delivery /\ DownOrder

LEMMA OrderNext == OrderInv /\ [Next]_vars => OrderInv'
BY TypeNext, UpOrderNext, LateNext, DeliveryNext, DownOrderNext DEF OrderInv

LEMMA OrderInit == Init => OrderInv
<1> SUFFICES ASSUME Init PROVE OrderInv
  OBVIOUS
<1>1. TypeInv
  BY TypeInit
<1>2. /\ handed = <<>> /\ hand = <<>> /\ sendq = <<>> /\ served = <<>> /\ DOMAIN handed = {}
      /\ \A k \in Carrier : /\ outq[k] = <<>> /\ blocked[k] = <<>> /\ channel[k] = <<>>
                            /\ drive[k] = "none"
  BY DEF Init
<1>3. \A k \in Carrier : Held(k) = {} /\ By(k) = {} /\ Pending(k) = {} /\ Late(k) = {}
  BY <1>2, ElemsEmpty DEF Held, By, Pending, Late
<1>4. UpOrder
  <2>1. EachOrder
    BY <1>2, <1>3, ElemsEmpty DEF EachOrder, Under
  <2>2. AllOrder
    BY <1>2, <1>3, ElemsEmpty DEF AllOrder, Under
  <2>3. QED
    BY <2>1, <2>2 DEF UpOrder
<1>5. LateInv
  BY <1>2, <1>3 DEF LateInv, OneLate
<1>6. Delivery
  BY <1>2, ElemsEmpty DEF Delivery
<1>7. DownOrder
  BY ElemsEmpty DEF Init, DownOrder, Under
<1>8. QED
  BY <1>1, <1>4, <1>5, <1>6, <1>7 DEF OrderInv

\* turbotunnel.rs, webrtc.rs: packets keep their order in both directions across
\* redials and refused messages, but for one message of every snowflake that was
\* replaced, for every size of the queues.
THEOREM KeepsOrder == Spec => []InOrder
<1>1. OrderInv => UpInOrder
  <2> SUFFICES ASSUME OrderInv, NEW i \in DOMAIN handed, NEW j \in DOMAIN handed,
                      \/ handed[i].by < handed[j].by
                      \/ handed[i].by = handed[j].by /\ i < j
               PROVE  handed[i].packet < handed[j].packet
    BY DEF UpInOrder
  <2>1. CASE handed[i].by = handed[j].by /\ i < j
    BY <2>1 DEF OrderInv, UpOrder, EachOrder
  <2>2. CASE handed[i].by < handed[j].by
    <3>1. handed[i] \in Handing /\ handed[j] \in Handing
      BY DEF OrderInv, TypeInv, DriveTyped
    <3>2. handed[i].by \in Carrier /\ handed[j].by \in Carrier
      BY <3>1 DEF Handing
    <3>3. handed[i].packet \in Held(handed[i].by) /\ handed[j].packet \in Held(handed[j].by)
      BY DEF Held, By
    <3>4. QED
      BY <2>2, <3>2, <3>3 DEF OrderInv, UpOrder, AllOrder, Under
  <2>3. QED
    BY <2>1, <2>2
<1>2. OrderInv => DownInOrder
  <2> SUFFICES ASSUME OrderInv PROVE DownInOrder
    OBVIOUS
  <2>1. /\ got \in Seq(Packet) /\ recvq \in Seq(Packet) /\ down \in Seq(Packet)
        /\ DownOrder
    BY DEF OrderInv, TypeInv, DownTyped
  <2>2. /\ got \o recvq \in Seq(Packet) /\ Increasing(got \o recvq)
        /\ Elems(got \o recvq) = Elems(got) \cup Elems(recvq)
    BY <2>1, ElemsConcat DEF DownOrder, Under
  <2>3. Under(Elems(got \o recvq), Elems(down))
    BY <2>1, <2>2 DEF DownOrder, Under
  <2>4. Increasing((got \o recvq) \o down)
    BY <2>1, <2>2, <2>3, ElemsConcat DEF DownOrder
  <2>5. QED
    BY <2>1, <2>4 DEF DownInOrder
<1>3. OrderInv => OneLate
  BY DEF OrderInv, LateInv
<1>4. OrderInv => InOrder
  BY <1>1, <1>2, <1>3 DEF InOrder
<1>5. QED
  BY <1>4, OrderInit, OrderNext, PTL DEF Spec

\* turbotunnel.rs under KCP: every step of the connection is a step of a
\* datagram service or none, so that nothing is invented and nothing arrives
\* twice, for any number of snowflakes.
THEOREM ImplementsDatagrams == Spec => UpDatagrams
<1>1. Init => UpLink!Init
  BY DEF Init, UpLink!Init
<1>2. OrderInv /\ [Next]_vars => [UpLink!Next]_(UpLink!vars)
  <2> SUFFICES ASSUME OrderInv, [Next]_vars PROVE [UpLink!Next]_(UpLink!vars)
    OBVIOUS
  <2>0. nsent \in Nat /\ UpTyped
    BY ConnAssumption DEF OrderInv, TypeInv, UpTyped
  <2>1. CASE UNCHANGED <<nsent, served>>
    BY <2>1 DEF UpLink!vars
  <2>2. CASE Send
    <3>1. nsent + 1 \in Packet /\ nsent' = nsent + 1 /\ served' = served
      BY <2>0, <2>2, ConnAssumption DEF Send, Packet
    <3>2. nsent + 1 \notin 1 .. nsent /\ 1 .. nsent' = (1 .. nsent) \cup {nsent + 1}
      BY <2>0, <3>1
    <3>3. UpLink!Send(nsent + 1)
      BY <3>1, <3>2 DEF UpLink!Send
    <3>4. QED
      BY <3>1, <3>3 DEF UpLink!Next
  <2>3. ASSUME NEW k \in Carrier, ServerGets(k) PROVE UpLink!Next
    <3> DEFINE p == Head(channel[k])
    <3>1. /\ channel[k] \in Seq(Packet) /\ channel[k] # <<>>
          /\ served' = Append(served, p) /\ nsent' = nsent
      BY <2>3 DEF ServerGets, OrderInv, TypeInv, DriveTyped
    <3>2. p \in Packet /\ p \in Elems(channel[k])
      BY <3>1, ElemsTail
    <3>3. p \in Held(k) /\ p \notin Elems(served)
      BY <3>2 DEF OrderInv, Delivery, Held
    <3>a. p \in 1 .. nsent
      BY <3>3 DEF OrderInv, UpOrder, AllOrder
    <3> HIDE DEF p
    <3>4. UpLink!Deliver(p)
      BY <3>1, <3>3, <3>a DEF UpLink!Deliver, UpLink!Delivered, Elems
    <3>5. QED
      BY <3>2, <3>4 DEF UpLink!Next
  <2>4. QED
    BY <2>1, <2>2, <2>3 DEF Next, DialLoop, Driver, vars, upVars, WriterTakes, WriterChecks,
       WriterSends, DriveWrites, DriveRetries, DriveRefused, DriveReturns, ExchangeEnd,
       RecvStart, RecvPacket, RecvError, Close, DialStart, DialAborted, DialOk, DialError,
       ReaderTakes, Die, ServerSends, ChannelFails
<1>3. QED
  BY <1>1, <1>2, OrderInit, OrderNext, PTL DEF Spec, UpDatagrams, UpLink!Spec

-----------------------------------------------------------------------------
(* What a lost snowflake costs.                                            *)

\* What is still queued somewhere, or was taken by a channel
Kept == full \cup Elems(sendq) \cup Elems(hand) \cup Handed \cup UNION {Pending(k) : k \in Carrier}

LEMMA LostNext ==
  ASSUME OrderInv, [Next]_vars, ~ExchangeEnd, ~(\E k \in Carrier : DriveReturns(k))
  PROVE  Lost' \subseteq Lost
<1>0. /\ TypeInv /\ UpOrder /\ nsent \in Nat /\ sendq \in Seq(Packet) /\ hand \in Seq(Packet)
      /\ \A k \in Carrier : outq[k] \in Seq(Packet) /\ blocked[k] \in Seq(Packet)
  BY ConnAssumption DEF OrderInv, TypeInv, UpTyped, DriveTyped
<1>1. ASSUME nsent' = nsent, Kept \subseteq Kept' PROVE Lost' \subseteq Lost
  <2>1. Lost' = (1 .. nsent') \ Kept' /\ Lost = (1 .. nsent) \ Kept
    BY DEF Lost, Kept, Pending
  <2>2. QED
    BY <1>1, <2>1
<1>2. CASE UNCHANGED <<handed, blocked, outq, hand, sendq, nsent, full>>
  <2>1. Kept' = Kept
    BY <1>2 DEF Kept, Handed, Pending
  <2>2. QED
    BY <1>1, <1>2, <2>1
<1>3. CASE Send
  <2>1. /\ nsent + 1 \in Packet /\ nsent' = nsent + 1 /\ hand' = hand
        /\ handed' = handed /\ outq' = outq /\ blocked' = blocked
    BY <1>0, <1>3, ConnAssumption DEF Send, Packet, driveVars
  <2>2. full' \cup Elems(sendq') = full \cup Elems(sendq) \cup {nsent + 1}
    <3>1. Elems(Append(sendq, nsent + 1)) = Elems(sendq) \cup {nsent + 1}
      BY <1>0, <2>1, ElemsAppend
    <3>2. \/ sendq' = Append(sendq, nsent + 1) /\ full' = full
          \/ sendq' = sendq /\ full' = full \cup {nsent + 1}
      BY <1>3 DEF Send
    <3>3. QED
      BY <3>1, <3>2
  <2>3. 1 .. nsent' = (1 .. nsent) \cup {nsent + 1}
    BY <1>0, <2>1
  <2>4. Kept' = Kept \cup {nsent + 1}
    <3>1. Handed' = Handed /\ \A k : Pending(k)' = Pending(k)
      BY <2>1 DEF Handed, Pending
    <3>2. QED
      BY <2>1, <2>2, <3>1 DEF Kept
  <2>5. Lost' = (1 .. nsent') \ Kept' /\ Lost = (1 .. nsent) \ Kept
    BY DEF Lost, Kept, Pending
  <2>6. QED
    BY <2>3, <2>4, <2>5
<1>4. CASE WriterTakes
  <2>1. Elems(hand') \cup Elems(sendq') = Elems(sendq) /\ Elems(hand) = {}
    <3>1. Elems(sendq) = {Head(sendq)} \cup Elems(Tail(sendq))
      BY <1>0, <1>4, ElemsTail DEF WriterTakes
    <3>2. Elems(hand') = {Head(sendq)}
      BY <1>4, ElemsSingle DEF WriterTakes
    <3>3. QED
      BY <1>4, <3>1, <3>2, ElemsEmpty DEF WriterTakes
  <2>2. UNCHANGED <<handed, blocked, outq, nsent, full>>
    BY <1>4 DEF WriterTakes, driveVars
  <2>3. Handed' = Handed /\ \A k : Pending(k)' = Pending(k)
    BY <2>2 DEF Handed, Pending
  <2>4. Kept \subseteq Kept'
    BY <2>1, <2>2, <2>3 DEF Kept
  <2>5. QED
    BY <1>1, <2>2, <2>4
<1>5. CASE WriterSends
  <2>1. /\ up \in Carrier /\ UNCHANGED <<handed, blocked, sendq, nsent, full>>
        /\ outq'[up] = outq[up] \o hand /\ \A k \in Carrier : k # up => outq'[k] = outq[k]
    BY <1>5 DEF WriterSends, OrderInv, TypeInv, LoopTyped, DriveTyped
  <2>2. Elems(outq'[up]) = Elems(outq[up]) \cup Elems(hand)
    BY <1>0, <2>1, ElemsConcat
  <2>3. Handed' = Handed /\ \A k \in Carrier : Pending(k) \subseteq Pending(k)'
    BY <2>1, <2>2 DEF Handed, Pending
  <2>4. \E k \in Carrier : Elems(hand) \subseteq Pending(k)'
    <3>1. Elems(hand) \subseteq Elems(blocked'[up]) \cup Elems(outq'[up])
      BY <2>2
    <3>2. QED
      BY <2>1, <3>1 DEF Pending
  <2>5. Kept \subseteq Kept'
    BY <2>1, <2>3, <2>4 DEF Kept
  <2>6. QED
    BY <1>1, <2>1, <2>5
\* A packet moves from its snowflake's queue into the channel.
<1>6. ASSUME NEW k \in Carrier, DriveWrites(k) \/ DriveRetries(k) PROVE Lost' \subseteq Lost
  <2>1. PICK x \in Packet :
           /\ Takes(k, <<x>>) /\ Pending(k) = {x} \cup Pending(k)'
           /\ \A j \in Carrier : j # k => Pending(j)' = Pending(j)
    BY <1>0, <1>6, WritesHeld, RetriesHeld
  <2>2. Handed' = Handed \cup {x}
    BY <1>0, <2>1, TakesBy DEF TypeInv
  <2>3. UNCHANGED <<hand, sendq, nsent, full>>
    BY <1>6 DEF DriveWrites, DriveRetries
  <2>4. \A j \in Carrier : Pending(j) \subseteq Pending(j)' \cup {x}
    BY <2>1
  <2>5. Kept \subseteq Kept'
    BY <2>2, <2>3, <2>4 DEF Kept
  <2>6. QED
    BY <1>1, <2>3, <2>5
<1>7. ASSUME NEW k \in Carrier, DriveRefused(k) PROVE Lost' \subseteq Lost
  <2>1. /\ outq[k] # <<>> /\ outq'[k] = Tail(outq[k]) /\ blocked'[k] = <<Head(outq[k])>>
        /\ blocked[k] = <<>> /\ UNCHANGED <<handed, hand, sendq, nsent, full>>
        /\ \A j \in Carrier : j # k => outq'[j] = outq[j] /\ blocked'[j] = blocked[j]
    BY <1>7 DEF DriveRefused, OrderInv, TypeInv, DriveTyped
  <2>2. Elems(outq[k]) = Elems(blocked'[k]) \cup Elems(outq'[k]) /\ Elems(blocked[k]) = {}
    <3>1. Elems(outq[k]) = {Head(outq[k])} \cup Elems(outq'[k])
      BY <1>0, <2>1, ElemsTail
    <3>2. Elems(blocked'[k]) = {Head(outq[k])} /\ Elems(blocked[k]) = {}
      BY <2>1, ElemsSingle, ElemsEmpty
    <3>3. QED
      BY <3>1, <3>2
  <2>3. Handed' = Handed /\ \A j \in Carrier : Pending(j)' = Pending(j)
    BY <2>1, <2>2 DEF Handed, Pending
  <2>4. Kept \subseteq Kept'
    BY <2>1, <2>3 DEF Kept
  <2>5. QED
    BY <1>1, <2>1, <2>4
<1>8. QED
  BY <1>2, <1>3, <1>4, <1>5, <1>6, <1>7 DEF Next, DialLoop, Driver, vars, upVars,
     driveVars, RecvStart, RecvPacket, RecvError, Close, DialStart, DialAborted, DialOk,
     DialError, WriterChecks, ReaderTakes, Die, ServerGets, ChannelFails, ServerSends

LEMMA LostFinite ==
  ASSUME TypeInv
  PROVE  IsFiniteSet(Lost) /\ Cardinality(Lost) \in Nat
<1>1. nsent \in Nat
  BY ConnAssumption DEF TypeInv, UpTyped
<1>2. IsFiniteSet(1 .. nsent)
  BY <1>1, FS_Interval
<1>3. Lost \subseteq 1 .. nsent
  BY DEF Lost
<1>4. QED
  BY <1>2, <1>3, FS_Subset, FS_CardinalityType

\* What a set grows by, at most
LEMMA Grows ==
  ASSUME NEW X, NEW Y, NEW Z, IsFiniteSet(X), IsFiniteSet(Y), Z \subseteq X \cup Y
  PROVE  /\ IsFiniteSet(X \cup Y) /\ IsFiniteSet(Z)
         /\ Cardinality(Z) <= Cardinality(X) + Cardinality(Y)
         /\ Cardinality(X) \in Nat /\ Cardinality(Y) \in Nat /\ Cardinality(Z) \in Nat
<1>1. Cardinality(X) \in Nat /\ Cardinality(Y) \in Nat /\ Cardinality(X \cap Y) \in Nat
  BY FS_CardinalityType, FS_Intersection
<1>2. /\ IsFiniteSet(X \cup Y)
      /\ Cardinality(X \cup Y) = Cardinality(X) + Cardinality(Y) - Cardinality(X \cap Y)
  BY FS_Union
<1>3. /\ IsFiniteSet(Z) /\ Cardinality(Z) <= Cardinality(X \cup Y)
      /\ Cardinality(Z) \in Nat /\ Cardinality(X \cup Y) \in Nat
  BY <1>2, FS_Subset, FS_CardinalityType
<1>4. QED
  BY <1>1, <1>2, <1>3

\* The end of an exchange costs the packet in the writer's hand.
LEMMA LostAtEnd ==
  ASSUME TypeInv, ExchangeEnd
  PROVE  Cardinality(Lost') <= Cardinality(Lost) + 1
<1>1. /\ hand \in Seq(Packet) /\ Len(hand) <= 1 /\ Len(hand) \in Nat
      /\ IsFiniteSet(Lost)
  BY LostFinite DEF TypeInv, UpTyped
<1>2. Lost' \subseteq Lost \cup Elems(hand)
  <2>1. UNCHANGED <<handed, outq, blocked, sendq, nsent, full>>
    BY DEF ExchangeEnd, driveVars
  <2>2. QED
    BY <2>1 DEF Lost, Handed
<1>3. IsFiniteSet(Elems(hand)) /\ Cardinality(Elems(hand)) <= Len(hand)
  BY <1>1, ElemsCount
<1>4. /\ Cardinality(Lost') <= Cardinality(Lost) + Cardinality(Elems(hand))
      /\ Cardinality(Lost) \in Nat /\ Cardinality(Elems(hand)) \in Nat
      /\ Cardinality(Lost') \in Nat
  BY <1>1, <1>2, <1>3, Grows
<1>5. QED
  BY <1>1, <1>3, <1>4

\* The end of a snowflake's task costs its queue and the message refused.
LEMMA LostAtReturn ==
  ASSUME TypeInv, NEW k \in Carrier, DriveReturns(k)
  PROVE  Cardinality(Lost') <= Cardinality(Lost) + (OutSize + 1)
<1> DEFINE O == Elems(outq[k])
           B == Elems(blocked[k])
<1>1. /\ IsFiniteSet(O) /\ Cardinality(O) <= OutSize
      /\ IsFiniteSet(B) /\ Cardinality(B) <= 1
      /\ Cardinality(O) \in Nat /\ Cardinality(B) \in Nat
  <2>1. \A s \in Seq(Packet) : IsFiniteSet(Elems(s)) /\ Cardinality(Elems(s)) \in Nat
                               /\ Cardinality(Elems(s)) <= Len(s) /\ Len(s) \in Nat
    BY ElemsCount, FS_CardinalityType
  <2>2. /\ outq[k] \in Seq(Packet) /\ blocked[k] \in Seq(Packet)
        /\ Len(outq[k]) <= OutSize /\ Len(blocked[k]) <= 1
    BY DEF TypeInv, DriveTyped
  <2>3. QED
    BY <2>1, <2>2, ConnAssumption
<1>2. Lost' \subseteq Lost \cup (O \cup B)
  <2>1. /\ UNCHANGED <<handed, hand, sendq, nsent, full>>
        /\ \A j \in Carrier : j # k => outq'[j] = outq[j] /\ blocked'[j] = blocked[j]
    BY DEF DriveReturns, TypeInv, DriveTyped
  <2>2. Handed' = Handed /\ \A j \in Carrier : j # k => Pending(j)' = Pending(j)
    BY <2>1 DEF Handed, Pending
  <2>3. Pending(k) = O \cup B
    BY DEF Pending
  <2>4. Kept \subseteq Kept' \cup (O \cup B)
    BY <2>1, <2>2, <2>3 DEF Kept
  <2>5. Lost' = (1 .. nsent') \ Kept' /\ Lost = (1 .. nsent) \ Kept
    BY DEF Lost, Kept, Pending
  <2>6. QED
    BY <2>1, <2>4, <2>5
<1> HIDE DEF O, B
<1>3. IsFiniteSet(O \cup B) /\ Cardinality(O \cup B) <= Cardinality(O) + Cardinality(B)
  BY <1>1, Grows
<1>4. /\ Cardinality(Lost') <= Cardinality(Lost) + Cardinality(O \cup B)
      /\ Cardinality(Lost) \in Nat /\ Cardinality(O \cup B) \in Nat
      /\ Cardinality(Lost') \in Nat
  BY <1>2, <1>3, LostFinite, Grows
<1>5. QED
  BY <1>1, <1>3, <1>4, ConnAssumption

LEMMA LossNext == OrderInv /\ LossPerRedial /\ [Next]_vars => LossPerRedial'
<1> SUFFICES ASSUME OrderInv, LossPerRedial, [Next]_vars PROVE LossPerRedial'
  OBVIOUS
<1> DEFINE c == OutSize + 1
           R == Cardinality(Returned)
           L == Cardinality(Lost)
<1>1. TypeInv /\ TypeInv' /\ LoopTyped /\ c \in Nat
  BY TypeNext, ConnAssumption DEF OrderInv, TypeInv
<1>2. IsFiniteSet(Returned) /\ R \in Nat
  <2>1. IsFiniteSet(1 .. MaxDials) /\ Returned \subseteq 1 .. MaxDials
    BY FS_Interval, ConnAssumption DEF Returned, Carrier
  <2>2. QED
    BY <2>1, FS_Subset, FS_CardinalityType
<1>3. /\ IsFiniteSet(Lost) /\ L \in Nat
      /\ IsFiniteSet(Lost') /\ Cardinality(Lost') \in Nat
  <2>1. nsent' \in Nat
    BY <1>1, ConnAssumption DEF TypeInv, UpTyped
  <2>2. IsFiniteSet(1 .. nsent')
    BY <2>1, FS_Interval
  <2>3. Lost' \subseteq 1 .. nsent'
    BY DEF Lost
  <2>4. QED
    BY <1>1, <2>2, <2>3, LostFinite, FS_Subset, FS_CardinalityType
<1>4. L <= Ended + R * c
  BY DEF LossPerRedial
<1>5. Ended \in Int /\ R * c \in Int
  BY <1>1, <1>2 DEF Ended, LoopTyped
<1> HIDE DEF c, L
<1>6. CASE ExchangeEnd
  <2>1. Ended' = Ended + 1
    BY <1>1, <1>6 DEF ExchangeEnd, Ended, LoopTyped, Carrier
  <2>2. Returned' = Returned
    BY <1>6 DEF ExchangeEnd, Returned, driveVars
  <2>3. Cardinality(Lost') <= L + 1
    BY <1>1, <1>6, LostAtEnd DEF L
  <2> HIDE DEF R
  <2>4. Cardinality(Lost') <= (Ended + 1) + R * c
    BY <1>3, <1>4, <1>5, <2>3
  <2>5. Cardinality(Returned') = R
    BY <2>2 DEF R
  <2>6. QED
    BY <2>1, <2>4, <2>5 DEF LossPerRedial, c
<1>7. ASSUME NEW k \in Carrier, DriveReturns(k) PROVE LossPerRedial'
  <2>1. Ended' = Ended
    BY <1>7 DEF DriveReturns, Ended, loopVars
  <2>2. Returned' = Returned \cup {k} /\ k \notin Returned
    <3>1. /\ drive[k] # "done" /\ drive'[k] = "done"
          /\ \A j \in Carrier : j # k => drive'[j] = drive[j]
      BY <1>1, <1>7 DEF DriveReturns, TypeInv, DriveTyped
    <3>2. QED
      BY <3>1 DEF Returned
  <2>3. Cardinality(Returned') = R + 1
    BY <1>2, <2>2, FS_AddElement
  <2>4. Cardinality(Lost') <= L + c
    BY <1>1, <1>7, LostAtReturn DEF L, c
  <2> HIDE DEF R
  <2>5. (R + 1) * c = R * c + c
    BY <1>1, <1>2
  <2>6. Cardinality(Lost') <= Ended + (R * c + c)
    BY <1>1, <1>3, <1>4, <1>5, <2>4
  <2>7. Cardinality(Lost') <= Ended + (R + 1) * c
    BY <2>5, <2>6
  <2>8. QED
    BY <2>1, <2>3, <2>7 DEF LossPerRedial, c
<1>8. CASE ~ExchangeEnd /\ ~(\E k \in Carrier : DriveReturns(k))
  <2>1. Ended' = Ended
    <3>1. CASE DialOk
      BY <1>1, <3>1 DEF DialOk, Ended, LoopTyped
    <3>2. CASE (dial = "exchange") = (dial = "exchange")' /\ up' = up
      BY <3>2 DEF Ended
    <3>3. QED
      BY <1>8, <3>1, <3>2 DEF Next, DialLoop, Driver, vars, loopVars, Send, RecvStart,
         RecvPacket, RecvError, Close, DialStart, DialAborted, DialError, WriterTakes,
         WriterChecks, WriterSends, ReaderTakes, DriveWrites, DriveRefused, DriveRetries, Die,
         ServerGets, ChannelFails, ServerSends
  <2>2. Returned' = Returned
    <3>1. CASE drive' = drive
      BY <3>1 DEF Returned
    <3>2. CASE DialOk
      <4>1. /\ drive[up + 1] # "done" /\ drive'[up + 1] = "runs"
            /\ \A k \in Carrier : k # up + 1 => drive'[k] = drive[k]
        <5>1. up + 1 \in Carrier /\ up + 1 > up
          BY <1>1, <3>2, ConnAssumption DEF DialOk, LoopTyped, Carrier
        <5>2. QED
          BY <1>1, <3>2, <5>1 DEF DialOk, OrderInv, LateInv, TypeInv, DriveTyped
      <4>2. QED
        BY <4>1 DEF Returned
    <3>3. ASSUME NEW k \in Carrier, drive[k] = "runs", Turn(k) PROVE Returned' = Returned
      <4>1. /\ drive[k] # "done" /\ drive'[k] # "done"
            /\ \A j \in Carrier : j # k => drive'[j] = drive[j]
        BY <1>1, <3>3 DEF Turn, TypeInv, DriveTyped
      <4>2. QED
        BY <4>1 DEF Returned
    <3>4. ASSUME NEW k \in Carrier, DriveWrites(k) \/ DriveRefused(k) \/ DriveRetries(k)
          PROVE  Returned' = Returned
      BY <3>3, <3>4 DEF DriveWrites, DriveRefused, DriveRetries
    <3>5. QED
      BY <1>8, <3>1, <3>2, <3>4 DEF Next, DialLoop, Driver, vars, upVars, driveVars, Send,
         RecvStart, RecvPacket, RecvError, Close, DialStart, DialAborted, DialError,
         WriterTakes, WriterChecks, WriterSends, ReaderTakes, Die, ServerGets, ChannelFails,
         ServerSends
  <2>3. Cardinality(Lost') <= L
    BY <1>3, <1>8, LostNext, FS_Subset DEF L
  <2>4. Cardinality(Returned') = R
    BY <2>2
  <2> HIDE DEF R
  <2>5. Cardinality(Lost') <= Ended + R * c
    BY <1>3, <1>4, <1>5, <2>3
  <2>6. QED
    BY <2>1, <2>4, <2>5 DEF LossPerRedial, c
<1>9. QED
  BY <1>6, <1>7, <1>8

\* turbotunnel.rs: the end of an exchange costs at most the packet in the
\* writer's hand, the end of a snowflake's task its outgoing queue and the
\* refused message, for every size of the queues and every number of redials.
THEOREM LossBounded == Spec => []LossPerRedial
<1>1. Init => LossPerRedial
  <2> SUFFICES ASSUME Init PROVE LossPerRedial
    OBVIOUS
  <2>1. Lost = {} /\ Ended = 0 /\ Returned = {}
    BY DEF Init, Lost, Ended, Returned
  <2>2. Cardinality(Lost) = 0 /\ Cardinality(Returned) = 0
    BY <2>1, FS_EmptySet
  <2>3. QED
    BY <2>1, <2>2, ConnAssumption DEF LossPerRedial
<1>2. QED
  BY <1>1, OrderInit, OrderNext, LossNext, PTL DEF Spec
=============================================================================
