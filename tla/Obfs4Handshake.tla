--------------------------- MODULE Obfs4Handshake ---------------------------
(***************************************************************************)
(* The obfs4 handshake between the clients and one bridge, with the replay *)
(* filter that all connections of the bridge share.  A handshake message   *)
(* is named by the client that generated it: anybody may send a copy on    *)
(* any connection, any number of times.  The bridge runs one task per      *)
(* connection; a task reads the clock before it takes the filter's lock,   *)
(* so tasks may present their times out of order.  Bytes, padding, marks   *)
(* and keys are abstracted to "the complete message of client m arrived"   *)
(* or "what arrived is no handshake".                                      *)
(***************************************************************************)
EXTENDS ReplayFilter

CONSTANTS
  Conn,        \* the connections the bridge accepts
  HourLength,  \* the ticks of the clock in an hour (3600 s in the code)
  MaxClock,    \* bound on the bridge's clock
  ClockSteps   \* whether the bridge's clock may be set back

Client == Digest

ASSUME HandshakeAssumption == /\ HourLength \in Nat \ {0}
                              /\ MaxClock \in Nat
                              /\ ClockSteps \in BOOLEAN
                              /\ Ttl = 3 * HourLength  \* REPLAY_TTL

VARIABLES
  clock,    \* SystemTime of the bridge
  client,   \* where each client is in its dial
  epoch,    \* the epoch hour a client put under its MAC
  fifo,     \* Inner.fifo of the replay filter
  filter,   \* the keys of Inner.filter
  stage,    \* where each connection is in wrap_conn
  hello,    \* the client whose handshake arrived on the connection
  now,      \* the clock as the connection's task read it
  verdict,  \* what parse_client made of the handshake
  reply,    \* the epoch hour of the reply the connection generated
  latest,   \* history: the latest time presented to the filter
  ordered,  \* history: times were presented in order so far
  roomy     \* history: the queue never reached MAX_FILTER_SIZE

filterVars  == <<fifo, filter, latest, ordered, roomy>>
clientVars  == <<client, epoch>>
connVars    == <<stage, hello, now, verdict, reply>>
handshakeVars == <<clock, clientVars, filterVars, connVars>>

\* epoch_hour.
EpochHour(t) == t \div HourLength

Hours == 0 .. EpochHour(MaxClock)

None == "none"   \* no client yet
NoHour == -2     \* no epoch hour yet

ClientStages == {"idle", "waiting", "established", "rejected", "failed"}
ConnStages == {"idle", "reading", "parsing", "replying", "established",
               "holding", "closed"}
Verdicts == {"none", "accepted", "recorded", "replayed", "refused"}

HandshakeTypeOK ==
  /\ clock \in Nat
  /\ client \in [Client -> ClientStages]
  /\ epoch \in [Client -> Hours \cup {NoHour}]
  /\ fifo \in Seq(Entry)
  /\ filter \in SUBSET Digest
  /\ stage \in [Conn -> ConnStages]
  /\ hello \in [Conn -> Client \cup {None}]
  /\ now \in [Conn -> Nat]
  /\ verdict \in [Conn -> Verdicts]
  /\ reply \in [Conn -> Hours \cup {NoHour}]
  /\ latest \in Nat
  /\ ordered \in BOOLEAN
  /\ roomy \in BOOLEAN

HandshakeInit ==
  /\ clock \in 0 .. MaxClock
  /\ client = [m \in Client |-> "idle"]
  /\ epoch = [m \in Client |-> NoHour]
  /\ fifo = <<>>
  /\ filter = {}
  /\ stage = [c \in Conn |-> "idle"]
  /\ hello = [c \in Conn |-> None]
  /\ now = [c \in Conn |-> 0]
  /\ verdict = [c \in Conn |-> "none"]
  /\ reply = [c \in Conn |-> NoHour]
  /\ latest = 0
  /\ ordered = TRUE
  /\ roomy = TRUE

-----------------------------------------------------------------------------
(* The bridge's clock.                                                     *)

Tick ==
  /\ clock < MaxClock
  /\ clock' = clock + 1
  /\ UNCHANGED <<clientVars, filterVars, connVars>>

SetBack ==
  /\ ClockSteps
  /\ clock' \in 0 .. clock - 1
  /\ UNCHANGED <<clientVars, filterVars, connVars>>

-----------------------------------------------------------------------------
(* The client.                                                             *)

\* client_handshake: the message carries the hour of the client's own clock,
\* which may differ from the bridge's.
Generate(m) ==
  /\ client[m] = "idle"
  /\ client' = [client EXCEPT ![m] = "waiting"]
  /\ \E h \in Hours : epoch' = [epoch EXCEPT ![m] = h]
  /\ UNCHANGED <<clock, filterVars, connVars>>

\* parse_server: a complete reply to this client's message arrived (the bridge
\* wrote it whole, even if the connection has closed since).
ParseServer(m) ==
  /\ client[m] = "waiting"
  /\ \E c \in Conn :
       /\ stage[c] = "established"
       /\ hello[c] = m
       /\ client' = [client EXCEPT ![m] =
                       IF reply[c] = epoch[m] THEN "established" ELSE "rejected"]
  /\ UNCHANGED <<clock, epoch, filterVars, connVars>>

\* CLIENT_HANDSHAKE_TIMEOUT, an I/O error or the end of the stream.
ClientFails(m) ==
  /\ client[m] = "waiting"
  /\ client' = [client EXCEPT ![m] = "failed"]
  /\ UNCHANGED <<clock, epoch, filterVars, connVars>>

-----------------------------------------------------------------------------
(* The bridge's task for a connection.                                     *)

Accept(c) ==
  /\ stage[c] = "idle"
  /\ stage' = [stage EXCEPT ![c] = "reading"]
  /\ UNCHANGED <<clock, clientVars, filterVars, hello, now, verdict, reply>>

\* The read that completes the message of m; parse_client is called with
\* SystemTime::now().  Before that, every read ends in MarkNotFoundYet and the
\* loop reads again: a step that changes nothing.
ReadHandshake(c, m) ==
  /\ stage[c] = "reading"
  /\ client[m] # "idle"
  /\ stage' = [stage EXCEPT ![c] = "parsing"]
  /\ hello' = [hello EXCEPT ![c] = m]
  /\ now' = [now EXCEPT ![c] = clock]
  /\ UNCHANGED <<clock, clientVars, filterVars, verdict, reply>>

\* No mark in MAX_HANDSHAKE_LENGTH bytes, the end of the stream, an I/O error
\* or SERVER_HANDSHAKE_TIMEOUT: the connection is held open for a while.
ReadFails(c) ==
  /\ stage[c] = "reading"
  /\ stage' = [stage EXCEPT ![c] = "holding"]
  /\ UNCHANGED <<clock, clientVars, filterVars, hello, now, verdict, reply>>

\* The MAC matches under the bridge's hour, the one before or the one after.
MacFound(c) == epoch[hello[c]] - EpochHour(now[c]) \in {0, -1, 1}

\* test_and_set is about to run for c; its compact starts from this queue.
Present(c) ==
  /\ latest' = IF now[c] > latest THEN now[c] ELSE latest
  /\ ordered' = (ordered /\ now[c] >= latest)
  /\ roomy' = (roomy /\ Len(fifo) < MaxFilterSize)

\* No candidate hour verifies: InvalidHandshake, the filter is not consulted.
RefuseMac(c) ==
  /\ stage[c] = "parsing"
  /\ ~MacFound(c)
  /\ stage' = [stage EXCEPT ![c] = "holding"]
  /\ verdict' = [verdict EXCEPT ![c] = "refused"]
  /\ UNCHANGED <<clock, clientVars, filterVars, hello, now, reply>>

\* test_and_set found the digest: ReplayedHandshake.  The compaction stays.
RefuseReplay(c) ==
  /\ stage[c] = "parsing"
  /\ MacFound(c)
  /\ hello[c] \in CompactFilter(filter, fifo, now[c])
  /\ fifo' = CompactFifo(fifo, now[c])
  /\ filter' = CompactFilter(filter, fifo, now[c])
  /\ Present(c)
  /\ stage' = [stage EXCEPT ![c] = "holding"]
  /\ verdict' = [verdict EXCEPT ![c] = "replayed"]
  /\ UNCHANGED <<clock, clientVars, hello, now, reply>>

\* test_and_set records the digest.
Record(c) ==
  /\ stage[c] = "parsing"
  /\ MacFound(c)
  /\ hello[c] \notin CompactFilter(filter, fifo, now[c])
  /\ fifo' = Append(CompactFifo(fifo, now[c]),
                    [digest |-> hello[c], at |-> now[c]])
  /\ filter' = CompactFilter(filter, fifo, now[c]) \cup {hello[c]}
  /\ Present(c)

\* Mutant: bytes after the MAC make the message incomplete, and the next read
\* parses the same buffer again.
RecordAndReread(c) ==
  /\ Record(c)
  /\ UNCHANGED <<clock, clientVars, connVars>>

\* Bytes follow the MAC, or ntor fails: refused, but the MAC stays recorded.
RecordAndRefuse(c) ==
  /\ Record(c)
  /\ stage' = [stage EXCEPT ![c] = "holding"]
  /\ verdict' = [verdict EXCEPT ![c] = "recorded"]
  /\ UNCHANGED <<clock, clientVars, hello, now, reply>>

\* Mutant: the reply is keyed with the bridge's own hour.
ReplyHourOwn(c) == EpochHour(now[c])

\* self.epoch_hour: the candidate the client's MAC verified under, which is
\* the client's own hour.
ReplyHour(c) == epoch[hello[c]]

RecordAndAccept(c) ==
  /\ Record(c)
  /\ stage' = [stage EXCEPT ![c] = "replying"]
  /\ verdict' = [verdict EXCEPT ![c] = "accepted"]
  /\ reply' = [reply EXCEPT ![c] = ReplyHour(c)]
  /\ UNCHANGED <<clock, clientVars, hello, now>>

Reply(c) ==
  /\ stage[c] = "replying"
  /\ stage' = [stage EXCEPT ![c] = "established"]
  /\ UNCHANGED <<clock, clientVars, filterVars, hello, now, verdict, reply>>

\* write_all failed: wrap_conn returns the error and drops the stream at once.
ReplyFails(c) ==
  /\ stage[c] = "replying"
  /\ stage' = [stage EXCEPT ![c] = "closed"]
  /\ UNCHANGED <<clock, clientVars, filterVars, hello, now, verdict, reply>>

\* close_after_delay is over: its deadline, or the peer stopped sending.
HoldOver(c) ==
  /\ stage[c] = "holding"
  /\ stage' = [stage EXCEPT ![c] = "closed"]
  /\ UNCHANGED <<clock, clientVars, filterVars, hello, now, verdict, reply>>

Judge(c) == RefuseMac(c) \/ RefuseReplay(c) \/ RecordAndRefuse(c) \/ RecordAndAccept(c)

HandshakeNext ==
  \/ Tick
  \/ SetBack
  \/ \E m \in Client : Generate(m) \/ ParseServer(m) \/ ClientFails(m)
  \/ \E c \in Conn :
       \/ Accept(c) \/ ReadFails(c)
       \/ \E m \in Client : ReadHandshake(c, m)
       \/ Judge(c)
       \/ Reply(c) \/ ReplyFails(c) \/ HoldOver(c)

HandshakeSpec == HandshakeInit /\ [][HandshakeNext]_handshakeVars

-----------------------------------------------------------------------------
(* Properties.                                                             *)

Recorded(c) == verdict[c] \in {"accepted", "recorded"}

\* The map and the queue of the filter hold the same digests, each once: an
\* entry leaves both together (compact, test_and_set).
MapIsQueue ==
  /\ filter = Digests(fifo)
  /\ \A i, j \in DOMAIN fifo : fifo[i].digest = fifo[j].digest => i = j

\* compact keeps the filter within MAX_FILTER_SIZE, whatever the load.
Bounded == Len(fifo) <= MaxFilterSize

\* While the tasks reach the filter in the order of their clock readings and it
\* never fills up, no handshake is accepted (or recorded) on two connections:
\* the three hours of REPLAY_TTL outlast the three hours its MAC verifies.
RecordedOnce ==
  ordered /\ roomy =>
    \A c, d \in Conn : Recorded(c) /\ Recorded(d) /\ hello[c] = hello[d] => c = d

\* "True if `buf` was seen within the TTL; otherwise records it": no MAC is
\* recorded twice by readings of the clock less than the TTL apart.  It fails: a
\* task that read the clock before another recorded its MAC makes the filter
\* start over.
SeenWithinTtl ==
  \A c, d \in Conn :
    Recorded(c) /\ Recorded(d) /\ hello[c] = hello[d] /\ c # d =>
      now[c] - now[d] >= Ttl \/ now[d] - now[c] >= Ttl

\* A handshake is called a replay only if another connection presented it: what
\* parse_client refuses after it recorded the MAC is not parsed again, so no
\* connection meets its own record, and a message that failed its MAC left none.
ReplayHasOriginal ==
  \A c \in Conn : verdict[c] = "replayed" =>
    \E d \in Conn \ {c} : Recorded(d) /\ hello[d] = hello[c]

\* A client never rejects the bridge's reply to its own message, even when the
\* two clocks are an hour apart or the hour changes while they talk.
ReplyVerifies == \A m \in Client : client[m] # "rejected"

-----------------------------------------------------------------------------
(* The inductive invariant behind RecordedOnce.                            *)

\* A recorded MAC verified when it was recorded, and it is still in the queue
\* unless the filter has seen a time a TTL later.
Remembered ==
  \A c \in Conn : Recorded(c) =>
    /\ hello[c] \in Client
    /\ epoch[hello[c]] # NoHour
    /\ epoch[hello[c]] <= EpochHour(now[c]) + 1
    /\ epoch[hello[c]] >= EpochHour(now[c]) - 1
    /\ \/ latest - now[c] >= Ttl
       \/ \E i \in DOMAIN fifo : /\ fifo[i].digest = hello[c]
                                 /\ fifo[i].at = now[c]

\* The queue holds no time later than the latest presented.
NoFuture == \A i \in DOMAIN fifo : fifo[i].at <= latest

\* A connection has a client's message once it is parsed, and only then a verdict.
Staged ==
  \A c \in Conn :
    /\ stage[c] \in {"idle", "reading"} => verdict[c] = "none"
    /\ stage[c] = "parsing" => /\ verdict[c] = "none"
                               /\ hello[c] \in Client
                               /\ epoch[hello[c]] # NoHour

\* An epoch hour is set once, when the client generates its message.
Generated == \A m \in Client : client[m] = "idle" <=> epoch[m] = NoHour

HandshakeInv ==
  /\ HandshakeTypeOK
  /\ MapIsQueue
  /\ Staged
  /\ Generated
  /\ NoFuture
  /\ (ordered /\ roomy => Remembered)
  /\ RecordedOnce
=============================================================================
