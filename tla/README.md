# Verification of lyrebird-rs in TLA+

lyrebird-rs is a Rust pluggable-transport program for tor: obfs4 (client and
bridge), webtunnel (client) and snowflake (client). This directory models its
concurrent and stateful core in TLA+, model-checks the models with TLC and
proves the central results with TLAPS. Paths below are relative to the
repository's `src/`; PROJECT.json lists the source lines of every definition
("map"), what can go wrong at which line ("hazards"), and how the code was
mutated to show that each property can fail ("mutants").

## 1. The system

| Component | Source | State it keeps | Operations | What makes it correct |
|---|---|---|---|---|
| lifecycle | `main.rs`, `app/{mod,client,server,termmon}.rs`, `shared/adapters/signals.rs` | listeners, handler count, signal channel | launch, report to tor, accept, handle, drain, exit | the count is exact on every return path; what tor is told is true; shutdown ends |
| relay | `app/relay.rs` | two copies, two writers | copy, close | nothing read is lost on a clean end; the close cannot hang |
| tor IPC | `shared/domain/pt/*`, `shared/adapters/{process_env,stdout}.rs` | none | parse environment, print control lines | lines in order, nothing that breaks a line |
| SOCKS5 server, ExtORPort | `shared/adapters/{socks5,extorport}.rs` | position in the handshake, deadline | negotiate, authenticate, reply | one reply, in time, after a full request |
| outbound proxies | `shared/domain/proxy.rs`, `shared/adapters/proxy.rs` | position in the handshake | HTTP CONNECT, SOCKS4a, SOCKS5 | no byte of the tunnel is taken for the reply |
| HTTP client | `shared/adapters/httpc.rs`, `shared/domain/http.rs` | one idle connection | round trip, retry, reuse | a response belongs to its request |
| crypto | `shared/domain/crypto/*` | DRBG state, replay filter | sample, hash, test-and-set | test vectors; the filter forgets only what is old |
| obfs4 handshake | `transports/obfs4/domain/{handshake,client,server}.rs` | messages, replay filter, clocks | generate, parse, reply, hold over | no replay accepted, no honest client refused, no connection held for ever |
| obfs4 connection | `transports/obfs4/domain/{conn,framing,packet,buf}.rs` | burst, frames, decoder, length table | write, pad, pace, read, re-seed | both ends agree on frames; lengths are the table's; writes return |
| obfs4 bridge state | `transports/obfs4/{domain/state,adapters/fs_state_store}.rs` | two files | load, create, save | an identity is lost only in a save that was cut short, and is then not replaced |
| webtunnel | `transports/webtunnel/*` | position in the server names | dial, upgrade, reroll | one failed dial moves on by one name |
| snowflake pool | `transports/snowflake/domain/{client,peer}.rs` | active list, channel, melt flag | collect, pop, end | capacity, no leak on teardown |
| snowflake turbotunnel | `.../domain/turbotunnel.rs`, `.../adapters/webrtc.rs` | packet queues, closed flag, refused message | dial loop, exchange, drive, send, recv | packets in order but for one late message per replaced snowflake, none twice, bounded loss |
| snowflake encapsulation | `.../domain/encapsulation.rs` | none | read, write, pad | data out is data in |
| snowflake KCP | `.../domain/{kcp,kcp_session}.rs` | windows, timers | send, recv, input, flush | a reliable, ordered stream over lossy packets |
| snowflake smux | `.../domain/smux.rs` | streams, tokens, windows | open, accept, read, write, close | streams do not mix; no token is lost |
| snowflake rendezvous | `.../domain/{broker,nat}.rs`, `.../adapters/{rendezvous,amp,sqs,stun}.rs` | NAT type and policy | negotiate, probe | an unrestricted NAT is recognised, a wrong guess corrected |

How they interact: `main` builds the ports and calls `app::run`, which starts
one accept loop per transport. Each accepted connection is a task holding a
`TermMonitor` guard; it dials through a transport (or, on a bridge, wraps the
connection and dials the ORPort) and relays bytes. The snowflake transport
builds a tower per connection: an smux stream over a KCP session over a
`RedialPacketConn` over one snowflake at a time, popped from a pool that a
connect loop refills through the broker. An obfs4 bridge shares one replay
filter among its connections; a connection's two halves share its length
tables.

What is hard: tasks on several threads, `select!` between branches that are
ready at once, state read before an await and used after it, queues that fill,
teardown racing set-up, lossy and reordering networks, clocks that are read
before a lock, padding arithmetic at its boundaries, a crash between two
writes.

## 2. The modules

| Module | Models | Depends on |
|---|---|---|
| `PoolSize`, `Peers` | the pool: `Peers`, `connect_loop`, the life of a `Peer` | |
| `SnowflakeSession` | pool, dial loop, teardown of one session | implements `Peers` |
| `HttpClient` | one HTTP connection at a time: reuse, retry, framings, deadline | |
| `NatType` | the STUN probe and the claim made while it runs | |
| `Rendezvous` | one offer for one answer, over HTTP, AMP or SQS | extends `HttpClient`, `NatType` |
| `Datagrams` | abstract: packets that may be lost or reordered, none invented or repeated | |
| `RedialPacketConn` | packet queues, exchange, a snowflake's queue, `drive`, redials | implements `Datagrams` |
| `ReliableStream` | abstract: the bytes read are a prefix of the bytes written | |
| `Kcp` | both ends of a KCP session over packets | implements `ReliableStream`, once per direction |
| `Smux` | both ends of an smux session over reliable streams | |
| `ReplayFilter` | the filter's queue and map, `compact` | |
| `Obfs4Handshake` | clients, connections of a bridge, clocks, replay | extends `ReplayFilter` |
| `Obfs4Conn` | one direction of an established obfs4 connection | |
| `BridgeIdentity` | abstract: a bridge has one identity and serves no other | |
| `BridgeState` | the state file and the bridge line, start by start, with crashes | implements `BridgeIdentity` |
| `Tunnel` | the set-up of a connection: SOCKS5, proxies, TLS, webtunnel upgrade, ORPorts | |
| `Lifecycle` | run, listeners, handlers, signals, drain | |
| `CopyLoop` | the relay of one connection | |

`MC...` modules give them values for TLC. The proofs are in `SnowflakeProofs`
(pool, session, rendezvous), `RedialPacketConnProofs`, `SmuxProofs`,
`KcpProofs`, `Obfs4Proofs` (handshake, bridge state, connection), `TunnelProofs`
and `AppProofs` (lifecycle, relay). `Sums` adds up sequences of numbers, and
`SumTheorems` says what that gives.
The snowflake modules are the floors of one tower, each checked over the
abstraction of the floor below: `Rendezvous` fills `Peers`, `SnowflakeSession`
takes snowflakes from it, `RedialPacketConn` carries packets over them and
implements `Datagrams`; `Kcp` takes packets that may be lost or overtake one
another and implements `ReliableStream`; `Smux` takes reliable streams.
`Lifecycle` contains a connection's handler as a sequence of awaits that succeed
or fail; `Tunnel` is the inside of its set-up and `CopyLoop` of its relay.

**Peers.** `active` and `chan` are the two collections of `Peers`; a snowflake
is referred to by identity and `link` is its life: connecting, open, closed.
`collector` and `hand` are where `connect_loop` stands inside `collect` and the
snowflake it holds. Every await of `collect` is a step boundary; `end()` is
three steps (melt, drain, close) because it takes no lock that `collect` holds.
A rendezvous and an open fail or succeed nondeterministically.

**SnowflakeSession** adds the only user of the pool: the dial closure (pop,
write the token, write the client id), `dial_loop`, and
`Drop for SnowflakeConn`. `carrier` is the snowflake in use. Each session step
is a pool step or leaves the pool alone.

**HttpClient, NatType, Rendezvous.** A piece of a response is one value: an
interim head, half a head, a head with its status and framing, a body. `line`
and `in` are the socket, `rbuf` the client's read buffer, `trip` numbers the
calls and `of` in an answer says which it belongs to. `http` is where
`round_trip` stands. The server may answer at any time, early, late or unasked,
close and reset. `op`, `attempt` and `try` are where an SQS exchange stands.
`probe` and `replies` are the STUN probe; a response under way stays so, and may
be received late and more than once. `spoofs` counts the claims that failed.

**RedialPacketConn** numbers packets in the order they are sent and follows
them through every queue up and down; the history variables `handed`, `served`
and `got` are what the data channels took (and which one did), and what reached
the server and KCP. `drive[k]` is the task of snowflake `k`. The end of an exchange
closes the snowflake and loses the packet in the writer's hand; the task learns of
it only at its next turn, because it reads the closed flag once per turn
(`webrtc.rs:253`) and its `select!` then takes any branch that is ready. So it may
hand on one more message (`Turn`: from "runs" to "late") while the next
snowflake's task is at work; when it returns, its queue and the refused message go
with it. What an old channel took may arrive later still, after packets of the new
one. `checked` splits `Peer::write` at its look at the flag.

**Kcp.** `kcp[e]` is the engine of one end (`queue`, `buf`, `rbuf`, `rq`, `una`,
`nxt`, `rnxt`, `rmt`, `acks`), `sess[e]` the tasks and calls around it, `net[e]`
the packets on their way to it. Sequence numbers live modulo `SnModulus` and are
compared as signed differences. When a segment is sent again depends on timers
and on counts of acknowledgements; a flush of the model sends any part of what
is outstanding again, which covers them all.

**Smux** (version 2). `sess[s]` holds an end's send heap, the token bucket and
the receive loop; `str[s][i]` a stream with its reader, writer, opener and
closer, each of which waits for the result of its frame, the session's end or an
error. `charge` is what the receive loop has buffered but not yet taken from the
bucket, `owed` what was written before a close. A frame that arrives between a
SYN's result and the insertion of its stream (`smux.rs:298`) would be dropped;
the model assumes the other end speaks on a stream only when it has heard data
on it (`Spoken`), as a snowflake server does.

**ReplayFilter, Obfs4Handshake.** A MAC is the client's identity plus the epoch
hour in its message; it verifies for three hours. Connections read the clock
(`ReadHandshake`), then reach the filter (`Judge`): between the two, other
connections may do both. `latest`, `ordered` and `roomy` are history: the
latest time the filter saw, whether times came in order, whether it was never
full.

**Obfs4Conn** counts bytes. `frames` are the frames the reader has not decoded;
their bytes lie, in order, in `recv`, `sock` and `burst`. `Packets` and
`PadBurst` are the code's arithmetic with `Seg` and `Header` as constants.
`Sample` is one round of the paranoid loop. `Damage` is the network's; the
decoder notices it after the frame or after a random number of bytes.

**BridgeState.** A file is absent, torn or whole. `pc` walks through a start:
load (or create and save), take the mode from the arguments, parse, write the
bridge line, save the state.
Each write is a truncation and a writing; a crash or an error of the file system
may come before, between and after. `begun` is the state file at the start.

**Tunnel.** `stage[c]` is the await a handler is at; `nearIn`, `farIn` the
sockets, `farBuf` what a dial has read beyond the reply it wanted. A read takes
any number of the messages that have arrived. An argument of a bridge line may be
absent (`Absent`) or present and empty, which `config.rs` tells apart; a name that
rustls refuses ends the dial before TLS begins (`Prepares`), and the generator stays
at that name. `given[c]` and `advances[s]` relate
the name a dial used to how often the shared generator moved.

**Lifecycle.** A handler counts from its first poll: between `Accept` and
`HandlerStart` it is spawned and unknown to the monitor. The stages of a handler
are the awaits of `client::handle` and `server::handle`; every early return is a
`Return`, which drops the guard.

**CopyLoop.** Bytes of each direction pass from the source through copy's
buffer, a TLS writer's buffer and the socket to the peer; the close shuts the
writer to tor first, then the other, one second each.

## 3. What the runs show

Each run finishes within about four minutes on two workers. Deadlock is not
checked where the modelled program really stops: a session that is over, an
exited process, a closed connection, or a bound that is used up.

| Run | Instance | Shows |
|---|---|---|
| `lifecycle` | two connections, up to two methods, two signals | `HandlersCounted`, `ExitMatchesReport`, `ReplyTruth`; fair: `RunEnds` |
| `copy` | three bytes each way, buffers of 2, sockets of 1, TLS one way | `CleanClose`; fair: `RelayMoves` |
| `conn` | segments of 5, headers of 2, tables {0} and {0, 5}, one write of up to 4 bytes, all modes | `Conserved`, `Shaped`; fair: `WriteEnds`, `DataArrives` |
| `handshake` | two clients, three connections, symmetric, clock 0..3 that may be set back | `RecordedOnce`, `ReplayHasOriginal`, `ReplyVerifies` |
| `bridge_state` | two fresh and two given identities, one of them bad, two faults | `ServedIsStored`, `RefusedKeeps`, `Identity` |
| `session` | capacity 1 (the default), three snowflakes | `CarrierExclusive`, `StoppedIsClosed`, `PoolSpec`; fair: `SessionMoves` |
| `rendezvous` | four plans: a broker with two STUN servers and three calls, an AMP cache with two stray messages, an SQS queue, a refused line | `AnswerMatches`, `ResentUnanswered`, `NatReported`; fair: `NegotiationEnds` |
| `packets` | queues of 1, up to three packets up and two down, four together, two snowflakes | `InOrder`, `LossPerRedial`, `UpDatagrams`; fair: `NothingHangs` |
| `kcp` | numbers modulo 16 from 14, window 2, segments of 2 bytes, six bytes in three writes of a header and a body, one fault | `FreedHasArrived`, `Bounded`, `StreamSpec`; fair: `NothingStalls` |
| `smux` | one stream, three bytes, frames of 1, first window 1, buffers of 2, one close and one event | `TokensConserved`, `WholeStream`, `WindowKept`; fair: `CallsReturn` |
| `tunnel` | five SOCKS dialogues, twelve bridge lines with absent, empty and refused names, four kinds of proxy, both ORPorts, and three dials sharing two names | `TunnelWhole`, `TunnelReal`, `AdvanceOnce`; fair: `SetupsEnd` |

Why the bounds are enough. Two connections can race for one MAC; the third lets
another one's time come between; three clock steps pass the TTL of three hours
scaled to hour length 1. One place per queue makes full queues and drops the
normal case; three packets fill the hand, the queue and the refused message of one
snowflake, or leave one for a late turn with the next snowflake's before it; two
snowflakes give one redial with packets and tasks of both about. Segments of 5 and headers of 2
give a packet of three bytes, so that a write of four needs two frames, every
size of padding gap (none, smaller than a packet, larger) occurs, and frames are
cut by sampled lengths and by the socket. Two handlers are enough for a count to
be off. KCP's numbers wrap after the second segment, a window of two shuts and
must be probed open, and six bytes are more than both windows hold, so a later
segment meets acknowledgements of an earlier one that was sent twice; the
modulus is above four windows, as 2^32 is. Three bytes pass the first window of
one and the buffer of two, so a writer stalls on both. Two faults let a bridge
crash in one start and fail in the next. Three calls use a kept connection, find
it dead and dial again; two attempts and two tries are one repetition of each
kind. Three dials over two names let one of them see the generator go round.
The pool's own invariants have no run: they are proved for every capacity, and
`PoolSpec` makes them true of every session.

One run is expected to fail, and shows a disagreement between the code and the
repository's tests (PROJECT.json "findings" quotes them): `conn_padding`. With a
length table of a single value that the padding of the rest of a write always
misses by less than a header, a paranoid write sends padding for ever.

Other known counterexamples, found with variants of these modules and not kept
as runs:

- `KeptToppedUp` with a capacity of two: spares that die in the channel keep
  their places, and the pool stays below its capacity ("kept topped up").
- A handshake connection reads the clock before it takes the filter's lock. A
  reading that arrives late looks like a clock set back, the filter starts over,
  and a MAC is recorded twice within the TTL. A full filter forgets MACs
  younger than the TTL too. So `RecordedOnce` speaks of times that arrive in
  order and of a filter with room (`SeenWithinTtl` is the claim that fails).
- The relay never flushes. Over a TLS writer the last bytes before a pause stay
  in the writer's buffer when the socket was full (`CopyLoop.Delivered`).
- `Smux.EofMeansFin`, from the comment at `smux.rs:693`: a session that dies
  ends its readers with `Ok(0)` as a FIN does. A stream that `open_stream`
  inserts after the session was closed leaves its reader waiting.
- `kcp_session.rs:142`: a `write_buffers` that saw the session open and takes the
  lock (146) after a `close`. The close has forgotten what the window did not yet
  admit, the call queues later data, and if an acknowledgement came in between that
  data goes out under the next number: the peer reads past the gap. `Kcp` leaves such
  a call out, so `StreamSpec` and its theorem say nothing of a session where one is
  under way at the close.
- `httpc.rs:164` says a request is not sent again "once any response byte
  arrived"; an interim head that was read and dropped does not count.
- `servername.rs:67`: one failing name may move the generator twice when names
  are repeated, or when other dials moved it all the way round meanwhile.
- A snowflake that closes between `pop` and the first write ends the whole
  session instead of being redialed (`dial_loop` treats a dial error as final); a
  snowflake pushed after `end()` drained the pool is closed only by its staleness
  timer; a connection accepted but not yet polled at SIGINT is not waited for.

## 4. Fairness

Safety is checked and proved without fairness. For liveness each module has a
`FairSpec`, justified by the code's scheduling:

- A task that can run is polled (tokio): weak fairness of each task's steps. In
  `Smux`, and for deliveries in `Kcp`, it is written out as "infinitely often
  not able to, or infinitely often does it", which TLC checks faster.
- `Stop` of the connect loop is strongly fair: its `select!` chooses at random
  between a melt and a timer that are ready together.
- Timers fire: the one-second shutdown (`Close`), the staleness check of a
  snowflake, KCP's `LateTick`, the HTTP header deadline (`HeaderTimeout`), the
  deadlines of the SOCKS handshake and of the ORPort (`TimesOut`).
- `CatchFairness`: some proxy is found again and again. It is used only where a
  property says what happens if catching goes on succeeding.
- `DialOk`: a dial has no deadline of its own (`pop` waits for a snowflake), so it is
  assumed that one comes, up to `MaxDials`.
- `DriveRetries \/ Die`, when an open snowflake's channel refused a message: SCTP
  accepts it later, or the snowflake dies. A task whose snowflake was closed returns
  (`DriveReturns`); nothing obliges it to hand on a late message. In `Kcp` packets under way are delivered; how often they
  are lost is bounded by `MaxFaults`, as no protocol gets through otherwise.
- Sampled lengths (`Sample`, `SampleZero`): draws are independent, so each
  length comes up again and again with probability 1. This is weaker than what
  randomness gives when a table has several lengths (every finite sequence comes
  up), so the table of run `conn` has one length besides zero.
- A peer that reads goes on reading what its socket holds.
- Where the code sets no deadline, the far end must move: a server that has
  begun a body ends it or closes (`read_body`), and a proxy or bridge that was
  asked answers or closes (proxy exchange, TLS, upgrade).

Nothing else is assumed of tor, the ORPorts, the broker, the network, or of when
calls start, streams open and close, signals, pings and failures come.

## 5. What is proved

Each theorem holds for every value of the constants under the module's named
assumptions (`...Assumption`), without fairness.

**SnowflakeProofs: the pool** (finite set of snowflakes, positive capacity):
`PoolTypeCorrect`, and `PoolInvariance` of `IInv`. `Capacity` alone is not
inductive: a catch adds a snowflake many steps after the count was taken, so
`RoomInv` says that room stays reserved while a catch is under way, `HandInv`
that collect holds at most one, `LiveCounted` that the count misses none,
`PushedInv` and `SurvivorInv` what is left after `end()`. `CapacityRespected`,
`CountSeesAll` and `EndLeavesOne` follow.

**The session**: `SessionImplementsPool`, the refinement: initial states map to
initial states and each step to a pool step or a stutter, so the pool's theorems
hold of every session's pool. `CarrierAlone` and `StoppedClosed` from invariants
on where the dial loop stands with its carrier (`DialInv`) and on the places of
the channel, the hand and the carrier (`PlacesInv`).

**The rendezvous**: `NatTold`, from `ProbeInv` (the second request of a probe is
out only when the first was seen) and `ClaimInv`. `AnswersMatch` and
`SentTwiceUnanswered` from `HttpInv`. What the client will read is its buffer and
then the socket (`Stream`); `Owed` says what a server that owes something can
still add to it, `Matched` to which call each piece of it belongs at each stage
of `round_trip`, in particular that a connection is kept for the next call only
with an empty buffer, and `Resend` what a second sending presupposes.

**RedialPacketConnProofs** (positive queue sizes): `TypeCorrect`, that is, no
queue passes its size; `KeepsOrder`, from `OrderInv`: what one snowflake took,
holds refused and has queued increases (`EachOrder`), all of a later snowflake's
packets are later than all of an earlier one's, and what waits is later than both
(`AllOrder`), though their tasks run side by side; a task that has handed on a
message late is not in "runs" any more, so there is one such message per replaced
snowflake at most (`LateInv`); `DownOrder` is the other direction.
`ImplementsDatagrams` is the refinement, from `Delivery`: what a channel took
reaches the server once at most. `LossBounded` counts: the end of an exchange loses
at most the packet in the hand, the return of a task at most its queue and the
refused message, and no other step loses any.

**SmuxProofs** (two ends, any number of streams, positive windows, frames and
buffers, a stream's buffer no larger than the session's): `SmuxInvariant` of
`IInv`, and from it `TokensAreConserved`, `StreamsAreWhole` and `WindowsAreKept`.
None of the three is inductive. A read ends a file, and a window update frees a
writer, because of frames that were asked for long before; so `IInv` follows, for
each stream and direction, the path from the writer: the peer's buffers, the pipe,
the send loop's hand, the heap. The data along it are consecutive bytes, from what
was read to what was asked for (`Chained`, `Stretch`); a FIN comes after all that
its writer is owed, although control frames overtake (`FinsLast`, in `Bears`); the
updates along it rise and never pass what was read (`Updates`); the SYN comes
first, and the server's table has the stream from then on (`Intro`). `Stages` is
the life of a stream, `Writes` the writer's part of the window, `Loops` the
accounts of the bucket with the receive loop's late charge. The frames of the
heap are taken in the order of `HeapTop`; lemmas say what taking one out does to
each of these. Every action then changes one stream at one end (`Moving`), or asks
for one frame (`Asking`), or takes one in (`Arriving`), and each of these
keeps the invariant of all the others.

**KcpProofs** (any windows, segments, writes, first numbers and network, under
`KcpAssumption` and `SessionAssumption`): `KcpInvariant` of `IInv`, and from it
`NothingFreedEarly`, `WindowsBoundMemory` and the refinement
`SessionsImplementStreams`: each direction of a session is a `ReliableStream`. The
code compares numbers by signed differences and bounds no packet's lifetime, so
one that comes after half of the numbers were used would be taken for a new one;
hence `SessionAssumption`, that a direction sends fewer bytes than half the
numbers, less a window. The code's numbers are of 32 bits, so that is a little under
2^31 bytes, which suffices even if every segment carries a single byte. The first
number is any, so they may still wrap.

The invariant numbers the segments of a direction from 0, without a modulus, in
the order in which they were cut, whose data are consecutive bytes (`Chain`).
`EndOk` says for each end where it stands in that numbering: `Sends` (the numbers
below `una` have arrived, `buf` holds segments from `una` up to the next number),
`Receives` (what was put in order is a prefix, what waits in `rbuf` lies in the
window behind it), `Owes` (the acknowledgements it will send are of arrived
segments), `Writer` and `Reader` (what the session above has handed over and
taken). A packet under way is one its sender could have sent at some time
(`Sendable`): it may be old, but it never acknowledges what has not arrived and
its segments are of the numbering. `DiffFew` turns a comparison modulo
`SnModulus` into one of absolute numbers (`Abs`). Each action is then a change at
one end (`EndMoves`), which may only add to what has arrived, and the other end
and the packets keep their part (`Moved`): `TickKeeps`, `DeliverKeeps`,
`ReadKeeps`, `WriteKeeps` and `CloseKeeps`.

**Obfs4Proofs: the handshake** (positive hour length and filter size, a TTL
of three hours): `HandshakeTypeCorrect`, `FilterInStep`, `FilterBounded` and
`NoReplay`. The argument of `NoReplay`: a recorded MAC stays in the queue until
the filter has seen a time a TTL later (`Remembered`); a MAC that verifies at hour
h was made for h-1, h or h+1; two recordings a TTL apart are three hours apart
(`ThreeHours`) and cannot both verify; two closer ones find the first still in
the queue. `NoFuture` and `Staged` complete the inductive invariant, whose
`HandshakeInvariance` is stated by itself. `ReplaysHaveOriginals` (no connection
meets its own record) and `RepliesVerify` rest on it.

**The bridge's state** (fresh identities are none of the given ones): `Served`,
`Refusals` and `Tearing`, from an invariant on what the files hold at each point
of a start; `KeepsIdentity`, the refinement of `BridgeIdentity`, in which a save
under way counts as done, so that a crash in it is what loses the identity.

**The obfs4 connection** (a header shorter than half a segment, any tables, writes and
socket): `ConnInvariant`, and from it `BytesConserved`. Both halves of `Conserved`
are sums over the frames under way (`Line`); that a step keeps them needs that the
padding of `PadBurst` never asks for a frame longer than a segment (`Typed`), that
a writer at rest has written its burst (`Quiet`), and that the end of the file is
seen after everything the socket had and given after all that could be decoded
(`Ending`).
`WritesShaped` is proved apart: the cuts from the step that makes them, and from
`Typed` that no padding asks `make_packet` for more than a frame, where it panics.

**TunnelProofs** (any handlers, plans, lines, names, certificates, messages):
`TunnelInvariant`, then `TunnelKeepsWhole`, `TunnelIsReal` and
`GeneratorAdvancesOnce`. `NearInv` counts the SOCKS messages a handler has taken at
each stage, because it read exactly one at a time, and says that the rest is in
the tunnel and the socket; `FarInv` says for each stage what the far end can still
have sent, down to the replies to an upgrade, whose final one and the first
messages of the tunnel may be in one read (`UpgradeReplies`). `Trusting` keeps what
the hops before answered, so that the certificate that was verified is still known
when tor hears Succeeded. `NameInv` places a dial's name in the turns that the
shared generator has made since: with different names, it compares equal only
before the first turn or after a whole round.

**AppProofs: the lifecycle** (finitely many connections): `TypeCorrect`,
`HandlersInvariant`, `CountExact`, `RepliesTrue` and `ReportsTrue`. Whether the
relay owes a "Succeeded" depends on the side its handler runs on, so `HandlerInv`
adds that no handler is at a stage of the other side (`Sides`), and what each
stage says of the replies already sent (`Told`). The count is exact because every
step moves one handler: it stays on its side of the guard (`CountKept`), takes
the guard (`CountUp`) or drops it (`CountDown`). `ReplyTruth` is then `Told` of
every connection, so that theorem's strength lies in `Sides`. `ReportsTrue`
relates the control lines written so far, the phase and the exit code.

**The relay** (positive sizes): `CopyTypeCorrect`, `LineInvariant` and
`NothingLost`. Bytes are conserved along the line of one direction (`Line`), each
buffer keeps its size (`Sizes`), and a copy or a shutdown ends well only with the
buffers before it empty (`Ended`); a step moves bytes of one direction only.

**SumTheorems**: what `SumOf` gives for a concatenation, an appended element, a
tail and a changed element. The recursive function `Sums` is shown to exist by
induction over a set of numbers, which has a least element outside it or none
(`LeastNatural`, from the library's facts about finite sets); the library's own
induction theorems take an operator as a parameter and cannot be cited.

Only model-checked: the liveness properties `RunEnds`, `RelayMoves`, `WriteEnds`,
`DataArrives`, `NothingStalls`, `NothingHangs`, `SessionMoves`, `NegotiationEnds`,
`CallsReturn` and `SetupsEnd`, since fairness and ENABLED are
beyond the prover. Every invariant, action property and refinement that a passing
run checks is stated by a theorem.

## 6. Not modelled, and what is left

Left out for good: cryptography and its arithmetic, formats (AMP, SQS, STUN,
HTTP headers, JSON, escaping, URLs), logging, the command line, TLS, ICE and
SCTP. They appear as success or failure, or as abstract values. Snowflake's
packet encapsulation is a pure codec between two queues that are modelled; its
packets are whole values in `RedialPacketConn`. Delays between paranoid writes
and the choice of padding bytes are not modelled.

Left out of a modelled component: version 1 of smux's writes, malformed frames
and the limit of the accept queue; a melt that cancels a rendezvous half way, and
a NAT that changes its binding during a probe; bodies that run until the end of
the connection and are cut short cannot be told from whole ones, in the code as
in the model; the client's exchange that `Lifecycle` treats as one success or
failure per stage, and `SnowflakeSession` per dial.

What is left to do: compose `Kcp` with
`RedialPacketConn` in one instance, in place of the abstract packets between
them; a second stream in run `smux`, which today exceeds the time of a run.
