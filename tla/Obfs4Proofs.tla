----------------------------- MODULE Obfs4Proofs -----------------------------
(***************************************************************************)
(* Proofs about obfs4.                                                     *)
(* BridgeState, for any identities, any crashes and any number of starts:  *)
(* its invariants, and that it implements BridgeIdentity.                  *)
(* The handshake with its replay filter, for any number of clients and     *)
(* connections, any filter size and any clock.                             *)
(* One direction of a connection, for every segment and header length,     *)
(* socket size, set of length tables and number and size of writes: no     *)
(* byte is lost or invented between the two ends, and what is written has  *)
(* a length the tables allow.                                              *)
(* The three modules share no variable.                                    *)
(***************************************************************************)
EXTENDS BridgeState, Obfs4Handshake, Obfs4Conn, SumTheorems

\* Where the start is, against the files and its history
Under == {"mode", "parse", "line", "lining", "state"}

Known ==
  /\ pc = "load" => args.keys = "none"
  /\ pc \in {"create", "creating"} => /\ args.keys = "none"
                                      /\ js.id \in FreshIds
                                      /\ begun = Absent
  /\ pc = "create" => stateFile = Absent
  /\ Saving => stateFile = Torn
  /\ pc \in Under => \/ args.keys = "none" /\ stateFile \in Stored /\ stateFile.id = js.id
                     \/ js.id \in ArgIds
  /\ pc \in {"load", "mode", "parse"} => stateFile = begun \/ begun = Absent
  /\ pc \in {"state", "saving"} => lineFile = js

Whole ==
  faults = 0 => /\ stateFile = Torn => Saving
                /\ lineFile = Torn => pc = "lining"

StateInv == StateTypeOK /\ Known /\ Whole /\ ServedIsStored /\ RefusedKeeps

LEMMA Contents == Absent \notin Stored /\ Torn \notin Stored
  BY BridgeAssumption DEF Stored, Ids

LEMMA StateInvInit == StateInit => StateInv
  BY Contents, BridgeAssumption
  DEF StateInit, StateInv, StateTypeOK, Known, Whole, ServedIsStored, RefusedKeeps, File, PC,
      Under, Saving

\* Every step keeps the invariant.
LEMMA StateInvStep == StateInv /\ [StateNext]_stateVars => StateInv'
<1> SUFFICES ASSUME StateInv, [StateNext]_stateVars PROVE StateInv'
  OBVIOUS
<1> USE Contents, BridgeAssumption
     DEF StateInv, StateTypeOK, Known, Whole, ServedIsStored, RefusedKeeps, Under, Saving,
         PC, files
<1>1. ASSUME NEW a \in Args, Start(a) PROVE StateInv'
  BY <1>1 DEF Start, Args, Stored, Ids, File
<1>2. CASE Load
  BY <1>2 DEF Load, Stored, Ids, File
<1>3. CASE Mode
  <2>1. js' \in Stored /\ js'.id = js.id
    BY <1>3 DEF Mode, Stored, Args
  <2> QED BY <1>3, <2>1 DEF Mode
<1>4. CASE Parse
  BY <1>4 DEF Parse
<1>5. CASE OpenState
  BY <1>5 DEF OpenState, File
<1>6. CASE WriteState
  BY <1>6 DEF WriteState, File
<1>7. CASE OpenLine
  BY <1>7 DEF OpenLine, File
<1>8. CASE WriteLine
  BY <1>8 DEF WriteLine, File
<1>9. CASE FileFails
  BY <1>9 DEF FileFails, Fault
<1>10. CASE Crash
  BY <1>10 DEF Crash, Fault
<1>11. CASE Exit
  BY <1>11 DEF Exit
<1>12. CASE UNCHANGED stateVars
  BY <1>12 DEF stateVars
<1> QED BY <1>1, <1>2, <1>3, <1>4, <1>5, <1>6, <1>7, <1>8, <1>9, <1>10, <1>11,
           <1>12 DEF StateNext

LEMMA StateInvariant == StateSpec => []StateInv
  BY StateInvInit, StateInvStep, PTL DEF StateSpec

-----------------------------------------------------------------------------
\* A serving bridge's state and bridge line are in the files, whatever crashed
\* or was refused before (BridgeState.ServedIsStored).
THEOREM Served == StateSpec => []ServedIsStored
<1>1. StateInv => ServedIsStored
  BY DEF StateInv
<1> QED BY <1>1, StateInvariant, PTL

\* A refused start keeps the bridge's identity (BridgeState.RefusedKeeps).
THEOREM Refusals == StateSpec => []RefusedKeeps
<1>1. StateInv => RefusedKeeps
  BY DEF StateInv
<1> QED BY <1>1, StateInvariant, PTL

\* Files are torn by crashes and failures only (BridgeState.TornByFault).
THEOREM Tearing == StateSpec => []TornByFault
<1>1. StateInv => TornByFault
  BY DEF StateInv, Whole, TornByFault, Saving
<1> QED BY <1>1, StateInvariant, PTL

-----------------------------------------------------------------------------
(* BridgeState implements BridgeIdentity.                                  *)

LEMMA InitMaps == StateInit => Abstract!Init
  BY Contents DEF StateInit, Abstract!Init, Saving

\* Steps that neither begin nor end a save, and do not serve, change nothing.
LEMMA Stutters ==
  ASSUME stateFile' = stateFile, ~Saving, ~Saving', pc # "serving", pc' # "serving"
  PROVE  UNCHANGED Abstract!vars
  BY DEF Abstract!vars, Saving

\* A crash or a failure of a file loses the identity during a save, and
\* otherwise changes nothing.
LEMMA LossMaps ==
  ASSUME StateTypeOK, UNCHANGED files, js' = js, pc # "serving",
         pc' \in {"down", "failed"}, Saving => stateFile = Torn
  PROVE  [Abstract!Next]_(Abstract!vars)
<1>1. CASE Saving
  BY <1>1, Contents, BridgeAssumption
  DEF files, StateTypeOK, Saving, Stored, Ids, Abstract!Next, Abstract!Lose
<1>2. CASE ~Saving
  BY <1>2, Stutters DEF files, Saving
<1> QED BY <1>1, <1>2

\* Every step maps to a step of BridgeIdentity or to none.
LEMMA StepMaps == StateInv /\ [StateNext]_stateVars => [Abstract!Next]_(Abstract!vars)
<1> SUFFICES ASSUME StateInv, [StateNext]_stateVars PROVE [Abstract!Next]_(Abstract!vars)
  OBVIOUS
<1> USE DEF StateInv
<1>a. StateTypeOK /\ Known
  OBVIOUS
<1>1. ASSUME NEW a \in Args, Start(a) PROVE UNCHANGED Abstract!vars
  BY <1>1, Stutters DEF Start, Saving, files
<1>2. CASE Load
  BY <1>2, Stutters DEF Load, Saving, files
<1>3. CASE Mode
  BY <1>3, Stutters DEF Mode, Saving, files
<1>4. CASE Parse
  BY <1>4, Stutters DEF Parse, Saving, files
<1>5. CASE OpenState
  <2>1. Saving' /\ ~Saving /\ js' = js /\ pc # "serving" /\ pc' # "serving"
    BY <1>5 DEF OpenState, Saving
  <2>2. CASE pc = "create"
    <3>1. stateFile = Absent /\ js.id \in FreshIds
      BY <2>2 DEF Known
    <3> QED BY <2>1, <3>1, Contents DEF Abstract!Next, Abstract!Create
  <2>3. CASE pc = "state" /\ js.id \in ArgIds
    BY <2>1, <2>3 DEF Abstract!Next, Abstract!Adopt
  <2>4. CASE pc = "state" /\ stateFile \in Stored /\ stateFile.id = js.id
    BY <2>1, <2>4 DEF Abstract!vars
  <2> QED BY <1>5, <2>2, <2>3, <2>4 DEF OpenState, Known, Under
<1>6. CASE WriteState
  <2>1. js \in Stored /\ js' = js /\ stateFile' = js /\ Saving /\ ~Saving'
    BY <1>6 DEF WriteState, StateTypeOK, Saving
  <2>2. CASE pc = "creating"
    BY <1>6, <2>1, <2>2 DEF WriteState, Abstract!vars
  <2>3. CASE pc = "saving"
    <3>1. pc' = "serving"
      BY <1>6, <2>3 DEF WriteState
    <3>2. js.id \notin {Absent, Torn}
      BY <2>1, BridgeAssumption DEF Stored, Ids
    <3> QED BY <2>1, <2>3, <3>1, <3>2 DEF Abstract!Next, Abstract!Serve
  <2> QED BY <2>1, <2>2, <2>3 DEF Saving
<1>7. CASE OpenLine
  BY <1>7, Stutters DEF OpenLine, Saving
<1>8. CASE WriteLine
  BY <1>8, Stutters DEF WriteLine, Saving
<1>9. CASE FileFails
  BY <1>9, <1>a, LossMaps DEF FileFails, Known
<1>10. CASE Crash
  BY <1>10, <1>a, LossMaps DEF Crash, Known
<1>11. CASE Exit
  BY <1>11 DEF Exit, Saving, files, Abstract!Next, Abstract!Stop
<1>12. CASE UNCHANGED stateVars
  BY <1>12 DEF stateVars, Saving, Abstract!vars
<1> QED BY <1>1, <1>2, <1>3, <1>4, <1>5, <1>6, <1>7, <1>8, <1>9, <1>10, <1>11,
           <1>12 DEF StateNext

\* Starts, crashes and arguments, whatever they are, leave a bridge with the
\* identity it has, or with none that it would serve (BridgeState.Identity).
THEOREM KeepsIdentity == StateSpec => Identity
  BY InitMaps, StepMaps, StateInvariant, PTL DEF StateSpec, Identity, Abstract!Spec

-----------------------------------------------------------------------------

-----------------------------------------------------------------------------
(* The compaction of the queue.                                            *)

\* The loop of compact ends: after at most Len(f) pops, at the first front it
\* keeps.
LEMMA PopsLeast ==
  ASSUME NEW f \in Seq(Entry), NEW t \in Nat
  PROVE  /\ Pops(f, t) \in 0 .. Len(f)
         /\ Pops(f, t) < Len(f) => Kept(f, Pops(f, t), t)
         /\ \A j \in 0 .. Pops(f, t) - 1 : ~ Kept(f, j, t)
<1>1. Len(f) \in Stops(f, t) /\ Stops(f, t) \in SUBSET Nat
  BY DEF Stops
<1>2. \E k \in Stops(f, t) : \A j \in Stops(f, t) : k <= j
  BY <1>1, LeastNatural
<1>3. /\ Pops(f, t) \in Stops(f, t)
      /\ \A j \in Stops(f, t) : Pops(f, t) <= j
  BY <1>2 DEF Pops
<1>4. \A j \in 0 .. Pops(f, t) - 1 : ~ Kept(f, j, t)
  BY <1>3 DEF Stops
<1>5. QED
  BY <1>3, <1>4 DEF Stops

\* The compacted queue is empty or a suffix of the queue, below the bound.
LEMMA Compacted ==
  ASSUME NEW f \in Seq(Entry), NEW t \in Nat
  PROVE  /\ CompactFifo(f, t) \in Seq(Entry)
         /\ Len(CompactFifo(f, t)) < MaxFilterSize
         /\ StartsOver(f, t) => CompactFifo(f, t) = <<>>
         /\ ~ StartsOver(f, t) =>
              /\ Len(CompactFifo(f, t)) = Len(f) - Pops(f, t)
              /\ \A i \in 1 .. Len(f) - Pops(f, t) :
                   CompactFifo(f, t)[i] = f[i + Pops(f, t)]
<1> DEFINE k == Pops(f, t)
<1>1. /\ k \in 0 .. Len(f)
      /\ k < Len(f) => Kept(f, k, t)
  BY PopsLeast
<1>2. MaxFilterSize \in Nat \ {0}
  BY FilterAssumption
<1>3. CASE StartsOver(f, t)
  BY <1>2, <1>3 DEF CompactFifo
<1>4. CASE ~ StartsOver(f, t)
  <2>1. CompactFifo(f, t) = SubSeq(f, k + 1, Len(f))
    BY <1>4 DEF CompactFifo
  <2> HIDE DEF k
  <2>2. /\ SubSeq(f, k + 1, Len(f)) \in Seq(Entry)
        /\ Len(SubSeq(f, k + 1, Len(f))) = Len(f) - k
        /\ \A i \in 1 .. Len(f) - k : SubSeq(f, k + 1, Len(f))[i] = f[i + k]
    BY <1>1
  <2>3. Len(f) - k < MaxFilterSize
    BY <1>1, <1>2 DEF Kept
  <2>4. QED
    BY <1>4, <2>1, <2>2, <2>3 DEF k
<1>5. QED
  BY <1>3, <1>4

\* Compaction keeps the map and the queue in step and the digests distinct.
LEMMA CompactInStep ==
  ASSUME NEW f \in Seq(Entry), NEW t \in Nat,
         \A i, j \in DOMAIN f : f[i].digest = f[j].digest => i = j
  PROVE  LET g == CompactFifo(f, t)
         IN /\ CompactFilter(Digests(f), f, t) = Digests(g)
            /\ \A i, j \in DOMAIN g : g[i].digest = g[j].digest => i = j
<1> DEFINE k == Pops(f, t)
           g == CompactFifo(f, t)
<1>1. k \in 0 .. Len(f)
  BY PopsLeast
<1>2. CASE StartsOver(f, t)
  <2>1. g = <<>>
    BY <1>2, Compacted
  <2>2. QED
    BY <1>2, <2>1 DEF CompactFilter, Digests
<1>3. CASE ~ StartsOver(f, t)
  <2>1. /\ g \in Seq(Entry)
        /\ Len(g) = Len(f) - k
        /\ \A i \in 1 .. Len(f) - k : g[i] = f[i + k]
    BY <1>3, Compacted
  <2>2. CompactFilter(Digests(f), f, t) = Digests(f) \ {f[i].digest : i \in 1 .. k}
    BY <1>3 DEF CompactFilter
  <2> HIDE DEF k, g
  <2>3. \A i, j \in DOMAIN g : g[i].digest = g[j].digest => i = j
    <3>1. Len(f) \in Nat /\ DOMAIN f = 1 .. Len(f) /\ k \in Nat /\ k <= Len(f)
      BY <1>1
    <3>2. DOMAIN g = 1 .. Len(f) - k
      BY <2>1
    <3>3. ASSUME NEW i \in DOMAIN g
          PROVE  /\ i \in Nat /\ i + k \in DOMAIN f
                 /\ g[i].digest = f[i + k].digest
      BY <2>1, <3>1, <3>2, <3>3
    <3>4. ASSUME NEW i \in DOMAIN g, NEW j \in DOMAIN g, g[i].digest = g[j].digest
          PROVE  i = j
      <4>1. i + k = j + k
        BY <3>3, <3>4
      <4>2. QED
        BY <3>1, <3>3, <4>1
    <3>5. QED
      BY <3>4
  <2>4. DOMAIN g = 1 .. Len(f) - k /\ DOMAIN f = 1 .. Len(f) /\ Len(f) \in Nat
    BY <2>1
  <2>5. ASSUME NEW d \in Digests(f), d \notin {f[i].digest : i \in 1 .. k}
        PROVE  d \in Digests(g)
    <3>1. PICK i \in DOMAIN f : d = f[i].digest
      BY DEF Digests
    <3>2. i \in k + 1 .. Len(f)
      BY <1>1, <2>4, <2>5, <3>1
    <3>3. i - k \in DOMAIN g /\ g[i - k] = f[i]
      BY <1>1, <2>1, <2>4, <3>2
    <3>4. QED
      BY <3>1, <3>3 DEF Digests
  <2>6. ASSUME NEW d \in Digests(g)
        PROVE  d \in Digests(f) /\ d \notin {f[i].digest : i \in 1 .. k}
    <3>1. PICK i \in DOMAIN g : d = g[i].digest
      BY DEF Digests
    <3>2. i + k \in DOMAIN f /\ d = f[i + k].digest /\ i >= 1
      BY <1>1, <2>1, <2>4, <3>1
    <3>3. \A j \in 1 .. k : f[j].digest # d
      BY <1>1, <2>4, <3>2
    <3>4. QED
      BY <3>2, <3>3 DEF Digests
  <2>7. QED
    BY <2>2, <2>3, <2>5, <2>6 DEF k, g
<1>4. QED
  BY <1>2, <1>3

\* A queue below the bound whose times do not exceed t loses only entries that
\* are at least a TTL old, and is never started over.
LEMMA OnlyExpired ==
  ASSUME NEW f \in Seq(Entry), NEW t \in Nat, Len(f) < MaxFilterSize,
         \A i \in DOMAIN f : f[i].at <= t
  PROVE  \A i \in DOMAIN f :
           \/ t - f[i].at >= Ttl
           \/ \E j \in DOMAIN CompactFifo(f, t) : CompactFifo(f, t)[j] = f[i]
<1> DEFINE k == Pops(f, t)
           g == CompactFifo(f, t)
<1>1. /\ k \in 0 .. Len(f)
      /\ \A j \in 0 .. k - 1 : ~ Kept(f, j, t)
  BY PopsLeast
<1>2. /\ MaxFilterSize \in Nat /\ Ttl \in Nat /\ Ttl > 0
  BY FilterAssumption, HandshakeAssumption
<1>3. /\ \A i \in DOMAIN f : f[i] \in Entry /\ f[i].at \in Nat
      /\ DOMAIN f = 1 .. Len(f) /\ Len(f) \in Nat
  <2>1. DOMAIN f = 1 .. Len(f) /\ Len(f) \in Nat
    OBVIOUS
  <2>2. ASSUME NEW i \in DOMAIN f PROVE f[i] \in Entry
    BY <2>1
  <2>3. \A e \in Entry : e.at \in Nat
    BY DEF Entry
  <2>4. QED
    BY <2>1, <2>2, <2>3
<1>4. ~ StartsOver(f, t)
  BY <1>1, <1>3 DEF StartsOver
<1>5. /\ g \in Seq(Entry)
      /\ Len(g) = Len(f) - k
      /\ \A i \in 1 .. Len(f) - k : g[i] = f[i + k]
  BY <1>4, Compacted
<1> HIDE DEF k, g
<1>6. ASSUME NEW i \in DOMAIN f, i <= k
      PROVE  t - f[i].at >= Ttl
  <2>1. i - 1 \in 0 .. k - 1
    BY <1>1, <1>3, <1>6
  <2>2. ~ Kept(f, i - 1, t)
    BY <1>1, <2>1
  <2>3. Len(f) - (i - 1) < MaxFilterSize
    BY <1>2, <1>3
  <2>4. f[(i - 1) + 1] = f[i]
    BY <1>3
  <2>5. QED
    BY <1>2, <1>3, <2>2, <2>3, <2>4 DEF Kept
<1>7. ASSUME NEW i \in DOMAIN f, ~ (i <= k)
      PROVE  \E j \in DOMAIN g : g[j] = f[i]
  <2>1. i \in 1 .. Len(f) /\ Len(f) \in Nat /\ k \in Nat
    BY <1>1, <1>7
  <2>2. i - k \in 1 .. Len(f) - k /\ (i - k) + k = i
    BY <1>7, <2>1
  <2>3. DOMAIN g = 1 .. Len(f) - k
    BY <1>5
  <2>4. g[i - k] = f[(i - k) + k]
    BY <1>5, <2>2
  <2>5. QED
    BY <2>2, <2>3, <2>4
<1>8. QED
  BY <1>6, <1>7 DEF g

-----------------------------------------------------------------------------
(* Hours.                                                                  *)

\* A time a TTL later is at least three epoch hours later.
LEMMA ThreeHours ==
  ASSUME NEW s \in Nat, NEW t \in Nat, t - s >= Ttl
  PROVE  EpochHour(t) >= EpochHour(s) + 3
<1> DEFINE a == s \div HourLength
           b == t \div HourLength
<1>1. HourLength \in Nat \ {0} /\ Ttl = 3 * HourLength
  BY HandshakeAssumption
<1>2. a \in Nat /\ b \in Nat
  BY <1>1
<1>3. /\ HourLength * a <= s
      /\ t < HourLength * b + HourLength
  BY <1>1
<1> HIDE DEF a, b
<1>4. HourLength * a + 3 * HourLength < HourLength * b + HourLength
  BY <1>1, <1>2, <1>3
<1>5. HourLength * (a + 2) < HourLength * b
  BY <1>1, <1>2, <1>4
<1>6. a + 2 < b
  BY <1>1, <1>2, <1>5
<1>7. QED
  BY <1>2, <1>6 DEF EpochHour, a, b

\* Epoch hours are naturals.
LEMMA HourType == \A t \in Nat : EpochHour(t) \in Nat
  BY HandshakeAssumption DEF EpochHour

-----------------------------------------------------------------------------
(* Type correctness.                                                       *)

LEMMA InitType == HandshakeInit => HandshakeTypeOK
<1> SUFFICES ASSUME HandshakeInit PROVE HandshakeTypeOK
  OBVIOUS
<1> USE DEF HandshakeInit
<1>1. clock \in Nat
  BY HandshakeAssumption
<1>2. /\ client \in [Client -> ClientStages]
      /\ stage \in [Conn -> ConnStages]
      /\ verdict \in [Conn -> Verdicts]
  BY DEF ClientStages, ConnStages, Verdicts
<1>3. /\ epoch \in [Client -> Hours \cup {NoHour}]
      /\ reply \in [Conn -> Hours \cup {NoHour}]
      /\ hello \in [Conn -> Client \cup {None}]
      /\ now \in [Conn -> Nat]
  OBVIOUS
<1>4. fifo \in Seq(Entry) /\ filter \in SUBSET Digest
  OBVIOUS
<1>5. QED
  BY <1>1, <1>2, <1>3, <1>4 DEF HandshakeTypeOK

\* The type of what a presentation to the filter writes.
LEMMA PresentType ==
  ASSUME HandshakeTypeOK, NEW c \in Conn, hello[c] \in Client,
         Present(c),
         filter' = CompactFilter(filter, fifo, now[c]) \/
           filter' = CompactFilter(filter, fifo, now[c]) \cup {hello[c]},
         fifo' = CompactFifo(fifo, now[c]) \/
           fifo' = Append(CompactFifo(fifo, now[c]),
                          [digest |-> hello[c], at |-> now[c]])
  PROVE  /\ fifo' \in Seq(Entry)
         /\ filter' \in SUBSET Digest
         /\ latest' \in Nat
         /\ ordered' \in BOOLEAN
         /\ roomy' \in BOOLEAN
<1>1. now[c] \in Nat /\ fifo \in Seq(Entry) /\ filter \in SUBSET Digest /\ latest \in Nat
  BY DEF HandshakeTypeOK
<1>2. CompactFifo(fifo, now[c]) \in Seq(Entry)
  BY <1>1, Compacted
<1>3. [digest |-> hello[c], at |-> now[c]] \in Entry
  BY <1>1 DEF Entry, Client
<1>4. CompactFilter(filter, fifo, now[c]) \in SUBSET Digest
  BY <1>1 DEF CompactFilter
<1>5. hello[c] \in Digest
  BY DEF Client
<1>6. fifo' \in Seq(Entry)
  BY <1>2, <1>3
<1>7. filter' \in SUBSET Digest
  BY <1>4, <1>5
<1>8. latest' \in Nat /\ ordered' \in BOOLEAN /\ roomy' \in BOOLEAN
  BY <1>1 DEF Present
<1>9. QED
  BY <1>6, <1>7, <1>8

\* In the parsing stage a connection's message is known and was generated.
LEMMA ParsingKnown ==
  ASSUME HandshakeTypeOK, Staged, NEW c \in Conn, stage[c] = "parsing"
  PROVE  /\ hello[c] \in Client
         /\ epoch[hello[c]] \in Hours
  BY DEF HandshakeTypeOK, Staged

LEMMA NextType == HandshakeTypeOK /\ Staged /\ [HandshakeNext]_handshakeVars => HandshakeTypeOK'
<1> SUFFICES ASSUME HandshakeTypeOK, Staged, [HandshakeNext]_handshakeVars PROVE HandshakeTypeOK'
  OBVIOUS
<1> USE DEF ClientStages, ConnStages, Verdicts
<1>1. CASE Tick
  BY <1>1 DEF HandshakeTypeOK, Tick, clientVars, filterVars, connVars
<1>2. CASE SetBack
  BY <1>2 DEF HandshakeTypeOK, SetBack, clientVars, filterVars, connVars
<1>3. ASSUME NEW m \in Client, Generate(m) PROVE HandshakeTypeOK'
  BY <1>3 DEF HandshakeTypeOK, Generate, filterVars, connVars
<1>4. ASSUME NEW m \in Client, ParseServer(m) PROVE HandshakeTypeOK'
  BY <1>4 DEF HandshakeTypeOK, ParseServer, filterVars, connVars
<1>5. ASSUME NEW m \in Client, ClientFails(m) PROVE HandshakeTypeOK'
  BY <1>5 DEF HandshakeTypeOK, ClientFails, filterVars, connVars
<1>6. ASSUME NEW c \in Conn, Accept(c) PROVE HandshakeTypeOK'
  BY <1>6 DEF HandshakeTypeOK, Accept, clientVars, filterVars
<1>7. ASSUME NEW c \in Conn, ReadFails(c) PROVE HandshakeTypeOK'
  BY <1>7 DEF HandshakeTypeOK, ReadFails, clientVars, filterVars
<1>8. ASSUME NEW c \in Conn, NEW m \in Client, ReadHandshake(c, m) PROVE HandshakeTypeOK'
  BY <1>8 DEF HandshakeTypeOK, ReadHandshake, clientVars, filterVars
<1>9. ASSUME NEW c \in Conn, RefuseMac(c) PROVE HandshakeTypeOK'
  BY <1>9 DEF HandshakeTypeOK, RefuseMac, clientVars, filterVars
<1>10. ASSUME NEW c \in Conn, RefuseReplay(c) PROVE HandshakeTypeOK'
  <2>1. hello[c] \in Client
    BY <1>10, ParsingKnown DEF RefuseReplay
  <2>2. fifo' \in Seq(Entry) /\ filter' \in SUBSET Digest /\ latest' \in Nat
        /\ ordered' \in BOOLEAN /\ roomy' \in BOOLEAN
    BY <1>10, <2>1, PresentType DEF RefuseReplay
  <2>3. QED
    BY <1>10, <2>2 DEF HandshakeTypeOK, RefuseReplay, clientVars
<1>11. ASSUME NEW c \in Conn, RecordAndRefuse(c) PROVE HandshakeTypeOK'
  <2>1. hello[c] \in Client
    BY <1>11, ParsingKnown DEF RecordAndRefuse, Record
  <2>2. fifo' \in Seq(Entry) /\ filter' \in SUBSET Digest /\ latest' \in Nat
        /\ ordered' \in BOOLEAN /\ roomy' \in BOOLEAN
    BY <1>11, <2>1, PresentType DEF RecordAndRefuse, Record
  <2>3. QED
    BY <1>11, <2>2 DEF HandshakeTypeOK, RecordAndRefuse, clientVars
<1>12. ASSUME NEW c \in Conn, RecordAndAccept(c) PROVE HandshakeTypeOK'
  <2>1. hello[c] \in Client /\ epoch[hello[c]] \in Hours
    BY <1>12, ParsingKnown DEF RecordAndAccept, Record
  <2>2. fifo' \in Seq(Entry) /\ filter' \in SUBSET Digest /\ latest' \in Nat
        /\ ordered' \in BOOLEAN /\ roomy' \in BOOLEAN
    BY <1>12, <2>1, PresentType DEF RecordAndAccept, Record
  <2>3. QED
    BY <1>12, <2>1, <2>2 DEF HandshakeTypeOK, RecordAndAccept, ReplyHour, clientVars
<1>13. ASSUME NEW c \in Conn, Reply(c) PROVE HandshakeTypeOK'
  BY <1>13 DEF HandshakeTypeOK, Reply, clientVars, filterVars
<1>14. ASSUME NEW c \in Conn, ReplyFails(c) PROVE HandshakeTypeOK'
  BY <1>14 DEF HandshakeTypeOK, ReplyFails, clientVars, filterVars
<1>15. ASSUME NEW c \in Conn, HoldOver(c) PROVE HandshakeTypeOK'
  BY <1>15 DEF HandshakeTypeOK, HoldOver, clientVars, filterVars
<1>16. CASE UNCHANGED handshakeVars
  BY <1>16 DEF HandshakeTypeOK, handshakeVars, clientVars, filterVars, connVars
<1>17. QED
  BY <1>1, <1>2, <1>3, <1>4, <1>5, <1>6, <1>7, <1>8, <1>9, <1>10, <1>11,
     <1>12, <1>13, <1>14, <1>15, <1>16 DEF HandshakeNext, Judge

-----------------------------------------------------------------------------
(* The invariant.                                                          *)

LEMMA InitInv == HandshakeInit => HandshakeInv
<1> SUFFICES ASSUME HandshakeInit PROVE HandshakeInv
  OBVIOUS
<1>1. HandshakeTypeOK
  BY InitType
<1>2. MapIsQueue /\ NoFuture
  BY DEF HandshakeInit, MapIsQueue, NoFuture, Digests
<1>3. \A c \in Conn : verdict[c] = "none" /\ stage[c] = "idle"
  BY DEF HandshakeInit
<1>4. Staged /\ Remembered /\ RecordedOnce
  BY <1>3 DEF Staged, Remembered, RecordedOnce, Recorded
<1>5. Generated
  BY DEF HandshakeInit, Generated
<1>6. QED
  BY <1>1, <1>2, <1>4, <1>5 DEF HandshakeInv

\* A step that leaves the filter and the recorded messages alone.
LEMMA FrameStep ==
  ASSUME HandshakeInv, UNCHANGED filterVars,
         \A c \in Conn : Recorded(c)' =>
           /\ Recorded(c)
           /\ hello'[c] = hello[c] /\ now'[c] = now[c]
           /\ hello[c] \in Client /\ epoch[hello[c]] # NoHour =>
                epoch'[hello[c]] = epoch[hello[c]]
  PROVE  /\ MapIsQueue' /\ NoFuture'
         /\ (ordered /\ roomy => Remembered)'
         /\ RecordedOnce'
<1>1. /\ fifo' = fifo /\ filter' = filter /\ latest' = latest
      /\ ordered' = ordered /\ roomy' = roomy
  BY DEF filterVars
<1>2. MapIsQueue' /\ NoFuture'
  BY <1>1 DEF HandshakeInv, MapIsQueue, NoFuture, Digests
<1>3. ASSUME ordered', roomy' PROVE Remembered'
  <2>1. Remembered
    BY <1>1, <1>3 DEF HandshakeInv
  <2>2. QED
    BY <1>1, <2>1 DEF Remembered
<1>4. RecordedOnce'
  BY <1>1 DEF HandshakeInv, RecordedOnce
<1>5. QED
  BY <1>2, <1>3, <1>4

\* What a presentation to the filter by c keeps, recorded or not.
LEMMA PresentStep ==
  ASSUME HandshakeInv, NEW c \in Conn, stage[c] = "parsing", Present(c)
  PROVE  LET g == CompactFifo(fifo, now[c])
         IN /\ CompactFilter(filter, fifo, now[c]) = Digests(g)
            /\ \A i, j \in DOMAIN g : g[i].digest = g[j].digest => i = j
            /\ \A i \in DOMAIN g : g[i].at <= latest'
            /\ now[c] <= latest'
            /\ ordered' /\ roomy' =>
                 /\ latest' = now[c]
                 /\ \A d \in Conn : Recorded(d) =>
                      \/ latest' - now[d] >= Ttl
                      \/ \E i \in DOMAIN g : /\ g[i].digest = hello[d]
                                             /\ g[i].at = now[d]
<1> DEFINE g == CompactFifo(fifo, now[c])
<1>1. /\ fifo \in Seq(Entry) /\ now \in [Conn -> Nat] /\ latest \in Nat
      /\ filter = Digests(fifo)
      /\ \A i, j \in DOMAIN fifo : fifo[i].digest = fifo[j].digest => i = j
  BY DEF HandshakeInv, HandshakeTypeOK, MapIsQueue
<1>2. /\ CompactFilter(filter, fifo, now[c]) = Digests(g)
      /\ \A i, j \in DOMAIN g : g[i].digest = g[j].digest => i = j
  BY <1>1, CompactInStep
<1>3. now[c] <= latest' /\ latest <= latest' /\ latest' \in Nat
  BY <1>1 DEF Present
<1>4. \A i \in DOMAIN fifo : fifo[i].at <= latest /\ fifo[i].at \in Nat
  <2>1. \A i \in DOMAIN fifo : fifo[i] \in Entry
    BY <1>1
  <2>2. \A i \in DOMAIN fifo : fifo[i].at \in Nat
    BY <2>1 DEF Entry
  <2>3. QED
    BY <2>2 DEF HandshakeInv, NoFuture
<1>5. ASSUME NEW i \in DOMAIN g PROVE g[i].at <= latest'
  <2>1. ~ StartsOver(fifo, now[c])
    BY <1>1, <1>5, Compacted
  <2>2. /\ DOMAIN g = 1 .. Len(fifo) - Pops(fifo, now[c])
        /\ \A j \in 1 .. Len(fifo) - Pops(fifo, now[c]) :
             g[j] = fifo[j + Pops(fifo, now[c])]
    BY <1>1, <2>1, Compacted
  <2>3. Pops(fifo, now[c]) \in 0 .. Len(fifo)
    BY <1>1, PopsLeast
  <2>4. DOMAIN fifo = 1 .. Len(fifo) /\ Len(fifo) \in Nat
    BY <1>1
  <2>5. i \in 1 .. Len(fifo) - Pops(fifo, now[c])
    BY <1>5, <2>2
  <2>6. i + Pops(fifo, now[c]) \in DOMAIN fifo
    BY <2>3, <2>4, <2>5
  <2>7. g[i] = fifo[i + Pops(fifo, now[c])]
    BY <2>2, <2>5
  <2> HIDE DEF g
  <2>8. QED
    BY <1>1, <1>3, <1>4, <2>6, <2>7
<1>6. ASSUME ordered', roomy'
      PROVE  /\ latest' = now[c]
             /\ \A d \in Conn : Recorded(d) =>
                  \/ latest' - now[d] >= Ttl
                  \/ \E i \in DOMAIN g : /\ g[i].digest = hello[d]
                                         /\ g[i].at = now[d]
  <2>1. /\ ordered /\ roomy /\ now[c] >= latest
        /\ Len(fifo) < MaxFilterSize
        /\ latest' = now[c]
    <3>1. ordered /\ roomy /\ now[c] >= latest /\ Len(fifo) < MaxFilterSize
      BY <1>6, Zenon DEF Present
    <3>2. latest' = IF now[c] > latest THEN now[c] ELSE latest
      BY DEF Present
    <3>3. now[c] \in Nat
      BY <1>1
    <3>4. QED
      BY <1>1, <3>1, <3>2, <3>3
  <2>2. Remembered
    BY <2>1 DEF HandshakeInv
  <2>3. \A i \in DOMAIN fifo : fifo[i].at <= now[c]
    BY <1>1, <1>4, <2>1
  <2>4. \A i \in DOMAIN fifo : \/ now[c] - fifo[i].at >= Ttl
                               \/ \E j \in DOMAIN g : g[j] = fifo[i]
    BY <1>1, <2>1, <2>3, OnlyExpired
  <2>5. ASSUME NEW d \in Conn, Recorded(d), ~ (latest' - now[d] >= Ttl)
        PROVE  \E i \in DOMAIN g : g[i].digest = hello[d] /\ g[i].at = now[d]
    <3>1. ~ (latest - now[d] >= Ttl)
      BY <1>1, <1>3, <2>5, FilterAssumption
    <3>2. PICK i \in DOMAIN fifo : /\ fifo[i].digest = hello[d]
                                   /\ fifo[i].at = now[d]
      BY <2>2, <2>5, <3>1 DEF Remembered
    <3>3. PICK j \in DOMAIN g : g[j] = fifo[i]
      BY <2>1, <2>4, <2>5, <3>2
    <3>4. QED
      BY <3>2, <3>3
  <2>6. QED
    BY <2>1, <2>5
<1>7. QED
  BY <1>2, <1>3, <1>5, <1>6

\* A replay refused: the filter is compacted, nothing is recorded.
LEMMA ReplayStep ==
  ASSUME HandshakeInv, NEW c \in Conn, RefuseReplay(c)
  PROVE  /\ MapIsQueue' /\ NoFuture'
         /\ (ordered /\ roomy => Remembered)'
         /\ RecordedOnce'
<1> DEFINE g == CompactFifo(fifo, now[c])
<1>1. /\ fifo' = g /\ filter' = CompactFilter(filter, fifo, now[c])
      /\ stage[c] = "parsing" /\ Present(c)
      /\ hello' = hello /\ now' = now /\ epoch' = epoch
      /\ verdict' = [verdict EXCEPT ![c] = "replayed"]
  BY DEF RefuseReplay, clientVars
<1>2. \A d \in Conn : Recorded(d)' => Recorded(d)
  BY <1>1 DEF Recorded, HandshakeInv, HandshakeTypeOK
<1>3. /\ filter' = Digests(g)
      /\ \A i, j \in DOMAIN g : g[i].digest = g[j].digest => i = j
      /\ \A i \in DOMAIN g : g[i].at <= latest'
  BY <1>1, PresentStep
<1>4. MapIsQueue' /\ NoFuture'
  BY <1>1, <1>3 DEF MapIsQueue, NoFuture, Digests
<1>5. ordered' /\ roomy' => ordered /\ roomy
  BY <1>1 DEF Present
<1>6. ASSUME ordered', roomy' PROVE Remembered'
  <2>1. \A d \in Conn : Recorded(d) =>
          \/ latest' - now[d] >= Ttl
          \/ \E i \in DOMAIN g : g[i].digest = hello[d] /\ g[i].at = now[d]
    BY <1>1, <1>6, PresentStep
  <2>2. Remembered
    BY <1>5, <1>6 DEF HandshakeInv
  <2>3. QED
    BY <1>1, <1>2, <2>1, <2>2 DEF Remembered
<1>7. RecordedOnce'
  BY <1>1, <1>2, <1>5 DEF HandshakeInv, RecordedOnce
<1>8. QED
  BY <1>4, <1>6, <1>7

\* A MAC recorded: had it been recorded before and been forgotten, its hour
\* would be too old to verify.
LEMMA RecordStep ==
  ASSUME HandshakeInv, NEW c \in Conn, Record(c),
         hello' = hello, now' = now, epoch' = epoch,
         NEW v \in {"accepted", "recorded"},
         verdict' = [verdict EXCEPT ![c] = v]
  PROVE  /\ MapIsQueue' /\ NoFuture'
         /\ (ordered /\ roomy => Remembered)'
         /\ RecordedOnce'
<1> DEFINE g == CompactFifo(fifo, now[c])
           e == [digest |-> hello[c], at |-> now[c]]
<1>1. /\ fifo' = Append(g, e)
      /\ filter' = CompactFilter(filter, fifo, now[c]) \cup {hello[c]}
      /\ hello[c] \notin CompactFilter(filter, fifo, now[c])
      /\ stage[c] = "parsing" /\ Present(c) /\ MacFound(c)
  BY DEF Record
<1>2. /\ fifo \in Seq(Entry) /\ now \in [Conn -> Nat] /\ latest \in Nat
      /\ HandshakeTypeOK /\ Staged
  BY DEF HandshakeInv, HandshakeTypeOK
<1>3. \A d \in Conn : d # c => (Recorded(d)' <=> Recorded(d))
  BY <1>2 DEF Recorded, HandshakeTypeOK
<1>4. /\ CompactFilter(filter, fifo, now[c]) = Digests(g)
      /\ \A i, j \in DOMAIN g : g[i].digest = g[j].digest => i = j
      /\ \A i \in DOMAIN g : g[i].at <= latest'
      /\ now[c] <= latest'
  BY <1>1, PresentStep
<1>5. g \in Seq(Entry)
  BY <1>2, Compacted
<1> HIDE DEF g
<1>6. /\ DOMAIN fifo' = 1 .. Len(g) + 1 /\ DOMAIN g = 1 .. Len(g) /\ Len(g) \in Nat
      /\ \A i \in DOMAIN g : fifo'[i] = g[i]
      /\ fifo'[Len(g) + 1] = e
  BY <1>1, <1>5
<1>7. hello[c] \in Client /\ epoch[hello[c]] \in Hours
  BY <1>1, <1>2, ParsingKnown
<1>8. MapIsQueue'
  <2>1. \A i \in DOMAIN g : g[i].digest # hello[c]
    BY <1>1, <1>4 DEF Digests
  <2>2. \A i, j \in DOMAIN fifo' : fifo'[i].digest = fifo'[j].digest => i = j
    BY <1>4, <1>6, <2>1
  <2>3. filter' = Digests(g) \cup {hello[c]}
    BY <1>1, <1>4
  <2>4. Digests(fifo') = Digests(g) \cup {hello[c]}
    <3>1. ASSUME NEW i \in DOMAIN fifo'
          PROVE  fifo'[i].digest \in Digests(g) \cup {hello[c]}
      BY <1>6 DEF Digests
    <3>2. \A i \in DOMAIN g : g[i].digest \in Digests(fifo')
      BY <1>6 DEF Digests
    <3>3. hello[c] \in Digests(fifo')
      BY <1>6 DEF Digests
    <3>4. QED
      BY <3>1, <3>2, <3>3 DEF Digests
  <2>5. QED
    BY <2>2, <2>3, <2>4 DEF MapIsQueue, Digests
<1>9. NoFuture'
  BY <1>4, <1>6 DEF NoFuture
<1>10. ordered' /\ roomy' => ordered /\ roomy
  BY <1>1 DEF Present
<1>11. ASSUME ordered', roomy'
       PROVE  /\ latest' = now[c]
              /\ \A d \in Conn : Recorded(d) =>
                   \/ latest' - now[d] >= Ttl
                   \/ \E i \in DOMAIN g : g[i].digest = hello[d] /\ g[i].at = now[d]
  BY <1>1, <1>11, PresentStep DEF g
<1>12. /\ epoch[hello[c]] \in Int /\ EpochHour(now[c]) \in Nat
       /\ epoch[hello[c]] # NoHour
       /\ epoch[hello[c]] <= EpochHour(now[c]) + 1
       /\ epoch[hello[c]] >= EpochHour(now[c]) - 1
  <2>1. epoch[hello[c]] \in Int /\ epoch[hello[c]] >= 0
    BY <1>7 DEF Hours
  <2>2. EpochHour(now[c]) \in Nat
    BY <1>2, HourType
  <2>3. QED
    BY <1>1, <2>1, <2>2 DEF MacFound, NoHour
<1>13. ASSUME ordered', roomy' PROVE Remembered'
  <2>1. Remembered
    BY <1>10, <1>13 DEF HandshakeInv
  <2>2. ASSUME NEW d \in Conn, Recorded(d)'
        PROVE  \/ latest' - now[d] >= Ttl
               \/ \E i \in DOMAIN fifo' : fifo'[i].digest = hello[d] /\ fifo'[i].at = now[d]
    <3>1. CASE d = c
      BY <1>6, <3>1
    <3>2. CASE d # c /\ ~ (latest' - now[d] >= Ttl)
      <4>1. PICK i \in DOMAIN g : g[i].digest = hello[d] /\ g[i].at = now[d]
        BY <1>3, <1>11, <1>13, <2>2, <3>2
      <4>2. i \in DOMAIN fifo' /\ fifo'[i] = g[i]
        BY <1>6
      <4>3. QED
        BY <4>1, <4>2
    <3>3. QED
      BY <3>1, <3>2
  <2>3. ASSUME NEW d \in Conn, Recorded(d)'
        PROVE  /\ hello[d] \in Client
               /\ epoch[hello[d]] # NoHour
               /\ epoch[hello[d]] <= EpochHour(now[d]) + 1
               /\ epoch[hello[d]] >= EpochHour(now[d]) - 1
    BY <1>3, <1>7, <1>12, <2>1, <2>3 DEF Remembered
  <2>4. QED
    BY <2>2, <2>3 DEF Remembered
<1>14. ASSUME ordered', roomy',
              NEW d \in Conn, Recorded(d)', hello[d] = hello[c], d # c
       PROVE  FALSE
  <2>1. Remembered /\ Recorded(d)
    BY <1>3, <1>10, <1>14 DEF HandshakeInv
  <2>2. \A i \in DOMAIN g : g[i].digest # hello[d]
    BY <1>1, <1>4, <1>14 DEF Digests
  <2>3. now[c] - now[d] >= Ttl
    BY <1>11, <1>14, <2>1, <2>2
  <2>4. EpochHour(now[c]) >= EpochHour(now[d]) + 3 /\ EpochHour(now[d]) \in Nat
    BY <1>2, <2>3, ThreeHours, HourType
  <2>5. epoch[hello[c]] <= EpochHour(now[d]) + 1
    BY <1>14, <2>1 DEF Remembered
  <2>6. QED
    BY <1>12, <2>4, <2>5
<1>15. RecordedOnce'
  <2> SUFFICES ASSUME ordered', roomy', NEW a \in Conn, NEW b \in Conn,
                      Recorded(a)', Recorded(b)', hello[a] = hello[b], a # b
               PROVE  FALSE
    BY DEF RecordedOnce
  <2>1. CASE a = c
    BY <1>14, <2>1
  <2>2. CASE b = c
    BY <1>14, <2>2
  <2>3. CASE a # c /\ b # c
    BY <1>3, <1>10, <2>3 DEF HandshakeInv, RecordedOnce
  <2>4. QED
    BY <2>1, <2>2, <2>3
<1>16. QED
  BY <1>8, <1>9, <1>13, <1>15

LEMMA NextInv == HandshakeInv /\ [HandshakeNext]_handshakeVars => HandshakeInv'
<1> SUFFICES ASSUME HandshakeInv, [HandshakeNext]_handshakeVars PROVE HandshakeInv'
  OBVIOUS
<1>1. HandshakeTypeOK /\ Staged /\ Generated
  BY DEF HandshakeInv
<1>2. HandshakeTypeOK'
  BY <1>1, NextType
<1>3. ASSUME UNCHANGED <<clientVars, filterVars, connVars>> PROVE HandshakeInv'
  <2>1. Staged' /\ Generated'
    BY <1>1, <1>3 DEF Staged, Generated, clientVars, connVars
  <2>2. \A c \in Conn : Recorded(c)' =>
           /\ Recorded(c)
           /\ hello'[c] = hello[c] /\ now'[c] = now[c]
           /\ hello[c] \in Client /\ epoch[hello[c]] # NoHour =>
                epoch'[hello[c]] = epoch[hello[c]]
    BY <1>3 DEF Recorded, clientVars, connVars
  <2>3. QED
    BY <1>2, <1>3, <2>1, <2>2, FrameStep DEF HandshakeInv
<1>4. ASSUME NEW m \in Client, Generate(m) PROVE HandshakeInv'
  <2>1. PICK h \in Hours : epoch' = [epoch EXCEPT ![m] = h]
    BY <1>4 DEF Generate
  <2>2. epoch[m] = NoHour /\ h # NoHour
    BY <1>1, <1>4 DEF Generate, Generated, Hours, NoHour
  <2>3. /\ client' = [client EXCEPT ![m] = "waiting"]
        /\ UNCHANGED <<filterVars, connVars>>
    BY <1>4 DEF Generate
  <2>4. Generated'
    BY <1>1, <2>1, <2>2, <2>3 DEF Generated, HandshakeTypeOK
  <2>5. \A n \in Client : epoch[n] # NoHour => epoch'[n] = epoch[n]
    BY <1>1, <2>1, <2>2 DEF HandshakeTypeOK
  <2>6. \A n \in Client : epoch[n] # NoHour => epoch'[n] # NoHour
    BY <2>5
  <2>7. Staged'
    BY <1>1, <2>3, <2>6 DEF Staged, connVars
  <2>8. \A c \in Conn : Recorded(c)' =>
           /\ Recorded(c)
           /\ hello'[c] = hello[c] /\ now'[c] = now[c]
           /\ hello[c] \in Client /\ epoch[hello[c]] # NoHour =>
                epoch'[hello[c]] = epoch[hello[c]]
    BY <2>3, <2>5 DEF Recorded, connVars
  <2>9. QED
    BY <1>2, <2>3, <2>4, <2>7, <2>8, FrameStep DEF HandshakeInv
<1>5. ASSUME NEW m \in Client, ParseServer(m) \/ ClientFails(m) PROVE HandshakeInv'
  <2>1. /\ client[m] = "waiting"
        /\ \E s \in ClientStages \ {"idle"} : client' = [client EXCEPT ![m] = s]
        /\ UNCHANGED <<epoch, filterVars, connVars>>
    BY <1>5 DEF ParseServer, ClientFails, ClientStages
  <2>2. Generated'
    BY <1>1, <2>1 DEF Generated, HandshakeTypeOK
  <2>3. Staged'
    BY <1>1, <2>1 DEF Staged, connVars
  <2>4. \A c \in Conn : Recorded(c)' =>
           /\ Recorded(c)
           /\ hello'[c] = hello[c] /\ now'[c] = now[c]
           /\ epoch'[hello[c]] = epoch[hello[c]]
    BY <2>1 DEF Recorded, connVars
  <2>5. QED
    BY <1>2, <2>1, <2>2, <2>3, <2>4, FrameStep DEF HandshakeInv
<1>6. ASSUME NEW c \in Conn, NEW m \in Client, ReadHandshake(c, m) PROVE HandshakeInv'
  <2>1. /\ stage[c] = "reading" /\ client[m] # "idle"
        /\ stage' = [stage EXCEPT ![c] = "parsing"]
        /\ hello' = [hello EXCEPT ![c] = m]
        /\ now' = [now EXCEPT ![c] = clock]
        /\ UNCHANGED <<client, epoch, filterVars, verdict>>
    BY <1>6 DEF ReadHandshake, clientVars
  <2>2. verdict[c] = "none" /\ epoch[m] # NoHour
    BY <1>1, <2>1 DEF Staged, Generated
  <2>3. Generated'
    BY <1>1, <2>1 DEF Generated
  <2>4. Staged'
    BY <1>1, <2>1, <2>2 DEF Staged, HandshakeTypeOK
  <2>5. \A d \in Conn : Recorded(d)' =>
           /\ Recorded(d)
           /\ hello'[d] = hello[d] /\ now'[d] = now[d]
           /\ epoch'[hello[d]] = epoch[hello[d]]
    BY <1>1, <2>1, <2>2 DEF Recorded, HandshakeTypeOK
  <2>6. QED
    BY <1>2, <2>1, <2>3, <2>4, <2>5, FrameStep DEF HandshakeInv
<1>7. ASSUME NEW c \in Conn, Accept(c) \/ ReadFails(c) \/ Reply(c) \/ ReplyFails(c)
               \/ HoldOver(c)
      PROVE  HandshakeInv'
  <2>1. /\ stage[c] \in ConnStages \ {"parsing"}
        /\ \E s \in ConnStages \ {"parsing"} :
             /\ stage' = [stage EXCEPT ![c] = s]
             /\ s \in {"idle", "reading"} => stage[c] \in {"idle", "reading"}
        /\ UNCHANGED <<client, epoch, filterVars, hello, now, verdict>>
    BY <1>7 DEF Accept, ReadFails, Reply, ReplyFails, HoldOver, clientVars, ConnStages
  <2>2. Generated'
    BY <1>1, <2>1 DEF Generated
  <2>3. Staged'
    BY <1>1, <2>1 DEF Staged, HandshakeTypeOK
  <2>4. \A d \in Conn : Recorded(d)' =>
           /\ Recorded(d)
           /\ hello'[d] = hello[d] /\ now'[d] = now[d]
           /\ epoch'[hello[d]] = epoch[hello[d]]
    BY <2>1 DEF Recorded
  <2>5. QED
    BY <1>2, <2>1, <2>2, <2>3, <2>4, FrameStep DEF HandshakeInv
<1>8. ASSUME NEW c \in Conn, RefuseMac(c) PROVE HandshakeInv'
  <2>1. /\ stage' = [stage EXCEPT ![c] = "holding"]
        /\ verdict' = [verdict EXCEPT ![c] = "refused"]
        /\ UNCHANGED <<client, epoch, filterVars, hello, now>>
    BY <1>8 DEF RefuseMac, clientVars
  <2>2. Generated'
    BY <1>1, <2>1 DEF Generated
  <2>3. Staged'
    BY <1>1, <2>1 DEF Staged, HandshakeTypeOK
  <2>4. \A d \in Conn : Recorded(d)' =>
           /\ Recorded(d)
           /\ hello'[d] = hello[d] /\ now'[d] = now[d]
           /\ epoch'[hello[d]] = epoch[hello[d]]
    BY <1>1, <2>1 DEF Recorded, HandshakeTypeOK
  <2>5. QED
    BY <1>2, <2>1, <2>2, <2>3, <2>4, FrameStep DEF HandshakeInv
<1>9. ASSUME NEW c \in Conn, NEW s \in ConnStages \ {"idle", "reading", "parsing"},
             NEW v \in Verdicts,
             stage' = [stage EXCEPT ![c] = s],
             verdict' = [verdict EXCEPT ![c] = v],
             UNCHANGED <<client, epoch, hello, now>>
      PROVE  Staged' /\ Generated'
  BY <1>1, <1>9 DEF Staged, Generated, HandshakeTypeOK
<1>10. ASSUME NEW c \in Conn, RefuseReplay(c) PROVE HandshakeInv'
  <2>1. Staged' /\ Generated'
    BY <1>9, <1>10 DEF RefuseReplay, clientVars, ConnStages, Verdicts
  <2>2. QED
    BY <1>2, <1>10, <2>1, ReplayStep DEF HandshakeInv
<1>11. ASSUME NEW c \in Conn, RecordAndRefuse(c) PROVE HandshakeInv'
  <2>1. /\ Record(c) /\ hello' = hello /\ now' = now
        /\ epoch' = epoch /\ client' = client
        /\ stage' = [stage EXCEPT ![c] = "holding"]
        /\ verdict' = [verdict EXCEPT ![c] = "recorded"]
    BY <1>11 DEF RecordAndRefuse, clientVars
  <2>2. Staged' /\ Generated'
    BY <1>9, <2>1 DEF ConnStages, Verdicts
  <2>3. QED
    BY <1>2, <2>1, <2>2, RecordStep DEF HandshakeInv
<1>12. ASSUME NEW c \in Conn, RecordAndAccept(c) PROVE HandshakeInv'
  <2>1. /\ Record(c) /\ hello' = hello /\ now' = now
        /\ epoch' = epoch /\ client' = client
        /\ stage' = [stage EXCEPT ![c] = "replying"]
        /\ verdict' = [verdict EXCEPT ![c] = "accepted"]
    BY <1>12 DEF RecordAndAccept, clientVars
  <2>2. Staged' /\ Generated'
    BY <1>9, <2>1 DEF ConnStages, Verdicts
  <2>3. QED
    BY <1>2, <2>1, <2>2, RecordStep DEF HandshakeInv
<1>13. CASE Tick \/ SetBack \/ UNCHANGED handshakeVars
  BY <1>3, <1>13 DEF Tick, SetBack, handshakeVars
<1>14. QED
  BY <1>4, <1>5, <1>6, <1>7, <1>8, <1>10, <1>11, <1>12, <1>13 DEF HandshakeNext, Judge

\* The invariant holds in every reachable state.
THEOREM HandshakeInvariance == HandshakeSpec => []HandshakeInv
<1>1. QED
  BY InitInv, NextInv, PTL DEF HandshakeSpec

\* Every variable keeps its type.
THEOREM HandshakeTypeCorrect == HandshakeSpec => []HandshakeTypeOK
<1>1. HandshakeInv => HandshakeTypeOK
  BY DEF HandshakeInv
<1>2. QED
  BY <1>1, HandshakeInvariance, PTL

\* The hash map and the queue of the replay filter never disagree.
THEOREM FilterInStep == HandshakeSpec => []MapIsQueue
<1>1. HandshakeInv => MapIsQueue
  BY DEF HandshakeInv
<1>2. QED
  BY <1>1, HandshakeInvariance, PTL

\* No handshake is recorded twice while the filter sees the clock readings in
\* order and has room, for any clock, any number of clients and connections.
THEOREM NoReplay == HandshakeSpec => []RecordedOnce
<1>1. HandshakeInv => RecordedOnce
  BY DEF HandshakeInv
<1>2. QED
  BY <1>1, HandshakeInvariance, PTL

\* The filter never exceeds MAX_FILTER_SIZE entries, whatever is presented.
THEOREM FilterBounded == HandshakeSpec => []Bounded
<1>1. HandshakeInit => Bounded
  BY FilterAssumption DEF HandshakeInit, Bounded
<1>2. HandshakeTypeOK /\ Bounded /\ [HandshakeNext]_handshakeVars => Bounded'
  <2> SUFFICES ASSUME HandshakeTypeOK, Bounded, [HandshakeNext]_handshakeVars PROVE Bounded'
    OBVIOUS
  <2>1. CASE fifo' = fifo
    BY <2>1 DEF Bounded
  <2>2. ASSUME NEW c \in Conn, RefuseReplay(c) PROVE Bounded'
    <3>1. Len(CompactFifo(fifo, now[c])) < MaxFilterSize /\ CompactFifo(fifo, now[c]) \in Seq(Entry)
      BY Compacted DEF HandshakeTypeOK
    <3>2. QED
      BY <2>2, <3>1, FilterAssumption DEF RefuseReplay, Bounded
  <2>3. ASSUME NEW c \in Conn, Record(c) PROVE Bounded'
    <3>1. Len(CompactFifo(fifo, now[c])) < MaxFilterSize /\ CompactFifo(fifo, now[c]) \in Seq(Entry)
      BY Compacted DEF HandshakeTypeOK
    <3>2. Len(fifo') = Len(CompactFifo(fifo, now[c])) + 1
      BY <2>3, <3>1 DEF Record
    <3>3. Len(CompactFifo(fifo, now[c])) \in Nat
      BY <3>1
    <3>4. QED
      BY <3>1, <3>2, <3>3, FilterAssumption DEF Bounded
  <2>4. fifo' = fifo \/ \E c \in Conn : RefuseReplay(c) \/ Record(c)
    BY DEF HandshakeNext, Judge, RecordAndRefuse, RecordAndAccept, Tick, SetBack, Generate,
           ParseServer, ClientFails, Accept, ReadFails, ReadHandshake, RefuseMac,
           Reply, ReplyFails, HoldOver, handshakeVars, filterVars
  <2>5. QED
    BY <2>1, <2>2, <2>3, <2>4
<1>3. QED
  BY <1>1, <1>2, HandshakeTypeCorrect, PTL DEF HandshakeSpec

-----------------------------------------------------------------------------
(* Replays have an original, and replies verify.                           *)

\* What the filter knows was recorded by a connection.
Origins ==
  /\ \A x \in filter : \E d \in Conn : Recorded(d) /\ hello[d] = x
  /\ ReplayHasOriginal

LEMMA OriginsFrame ==
  ASSUME Origins, filter' \subseteq filter,
         \A d \in Conn :
           /\ Recorded(d) => Recorded(d)' /\ hello'[d] = hello[d]
           /\ verdict'[d] = "replayed" => verdict[d] = "replayed" /\ hello'[d] = hello[d]
  PROVE  Origins'
BY DEF Origins, ReplayHasOriginal

\* The bridge's step for a connection whose handshake is being parsed.
LEMMA OriginsJudge ==
  ASSUME HandshakeInv, Origins, NEW c \in Conn, Judge(c)
  PROVE  Origins'
<1>1. /\ HandshakeTypeOK /\ stage[c] = "parsing" /\ verdict[c] = "none" /\ ~Recorded(c)
      /\ UNCHANGED hello
  BY DEF HandshakeInv, Staged, Recorded, Judge, RefuseMac, RefuseReplay, RecordAndRefuse,
     RecordAndAccept, Record
<1>2. CompactFilter(filter, fifo, now[c]) \subseteq filter
  BY DEF CompactFilter
<1>3. CASE RefuseMac(c)
  BY <1>1, <1>3, OriginsFrame DEF RefuseMac, filterVars, HandshakeTypeOK, Recorded
<1>4. CASE RefuseReplay(c)
  <2>1. /\ verdict' = [verdict EXCEPT ![c] = "replayed"]
        /\ filter' = CompactFilter(filter, fifo, now[c])
        /\ hello[c] \in filter
    BY <1>2, <1>4 DEF RefuseReplay
  <2>2. \A d \in Conn : Recorded(d)' <=> Recorded(d)
    BY <1>1, <2>1 DEF Recorded, HandshakeTypeOK
  <2>3. \A x \in filter : \E d \in Conn \ {c} : Recorded(d)' /\ hello'[d] = x
    BY <1>1, <2>2 DEF Origins
  <2>4. ReplayHasOriginal'
    BY <1>1, <2>1, <2>2, <2>3 DEF Origins, ReplayHasOriginal, HandshakeTypeOK
  <2>5. QED
    BY <1>2, <2>1, <2>3, <2>4 DEF Origins
<1>5. CASE RecordAndRefuse(c) \/ RecordAndAccept(c)
  <2>1. /\ \E v \in {"accepted", "recorded"} : verdict' = [verdict EXCEPT ![c] = v]
        /\ filter' = CompactFilter(filter, fifo, now[c]) \cup {hello[c]}
    BY <1>5 DEF RecordAndRefuse, RecordAndAccept, Record
  <2>2. /\ \A d \in Conn : Recorded(d) => Recorded(d)'
        /\ Recorded(c)'
        /\ \A d \in Conn : verdict'[d] = "replayed" => verdict[d] = "replayed"
    BY <1>1, <2>1 DEF Recorded, HandshakeTypeOK
  <2>3. QED
    BY <1>1, <1>2, <2>1, <2>2 DEF Origins, ReplayHasOriginal
<1>6. QED
  BY <1>3, <1>4, <1>5 DEF Judge

LEMMA OriginsStep == HandshakeInv /\ Origins /\ [HandshakeNext]_handshakeVars => Origins'
<1> SUFFICES ASSUME HandshakeInv, Origins, [HandshakeNext]_handshakeVars PROVE Origins'
  OBVIOUS
<1>1. CASE UNCHANGED <<filter, hello, verdict>>
  BY <1>1, OriginsFrame DEF Recorded
<1>2. ASSUME NEW c \in Conn, NEW m \in Client, ReadHandshake(c, m) PROVE Origins'
  <2>1. /\ hello' = [hello EXCEPT ![c] = m] /\ UNCHANGED <<filter, verdict>>
        /\ verdict[c] = "none" /\ hello \in [Conn -> Client \cup {None}]
    BY <1>2 DEF ReadHandshake, HandshakeInv, Staged, HandshakeTypeOK, filterVars
  <2>2. QED
    BY <2>1, OriginsFrame DEF Recorded
<1>3. QED
  BY <1>1, <1>2, OriginsJudge DEF HandshakeNext, handshakeVars, clientVars, filterVars, connVars,
     Tick, SetBack, Generate, ParseServer, ClientFails, Accept, ReadFails, Reply,
     ReplyFails, HoldOver

\* server.rs, replayfilter.rs: what is called a replay is one: another
\* connection recorded that handshake, for every clock, load and filter size.
THEOREM ReplaysHaveOriginals == HandshakeSpec => []ReplayHasOriginal
<1>1. HandshakeInit => Origins
  BY DEF HandshakeInit, Origins, ReplayHasOriginal
<1>2. Origins => ReplayHasOriginal
  BY DEF Origins
<1>3. QED
  BY <1>1, <1>2, OriginsStep, HandshakeInvariance, PTL DEF HandshakeSpec

\* A reply carries the hour of the message it answers.
Replies ==
  /\ \A c \in Conn : stage[c] \in {"replying", "established"} =>
       /\ hello[c] \in Client /\ epoch[hello[c]] # NoHour
       /\ reply[c] = epoch[hello[c]]
  /\ ReplyVerifies

LEMMA RepliesStep == HandshakeInv /\ Replies /\ [HandshakeNext]_handshakeVars => Replies'
<1> SUFFICES ASSUME HandshakeInv, Replies, [HandshakeNext]_handshakeVars PROVE Replies'
  OBVIOUS
<1>1. HandshakeTypeOK /\ Staged /\ Generated
  BY DEF HandshakeInv
<1>2. CASE UNCHANGED <<client, epoch, stage, hello, reply>>
  BY <1>2 DEF Replies, ReplyVerifies
<1>3. ASSUME NEW m \in Client, Generate(m) PROVE Replies'
  BY <1>1, <1>3 DEF Generate, Generated, Replies, ReplyVerifies, HandshakeTypeOK, connVars
<1>4. ASSUME NEW m \in Client, ParseServer(m) \/ ClientFails(m) PROVE Replies'
  BY <1>1, <1>4 DEF ParseServer, ClientFails, Replies, ReplyVerifies, HandshakeTypeOK, connVars
<1>5. ASSUME NEW c \in Conn, NEW m \in Client, ReadHandshake(c, m) PROVE Replies'
  BY <1>1, <1>5 DEF ReadHandshake, Replies, ReplyVerifies, HandshakeTypeOK, clientVars
<1>6. ASSUME NEW c \in Conn,
             Accept(c) \/ ReadFails(c) \/ Reply(c) \/ ReplyFails(c) \/ HoldOver(c)
      PROVE  Replies'
  BY <1>1, <1>6 DEF Accept, ReadFails, Reply, ReplyFails, HoldOver, Replies,
     ReplyVerifies, HandshakeTypeOK, clientVars
<1>7. ASSUME NEW c \in Conn, Judge(c) PROVE Replies'
  <2>1. /\ stage[c] = "parsing" /\ hello[c] \in Client /\ epoch[hello[c]] # NoHour
        /\ UNCHANGED <<client, epoch, hello>>
        /\ \/ /\ stage' = [stage EXCEPT ![c] = "holding"] /\ reply' = reply
           \/ /\ stage' = [stage EXCEPT ![c] = "replying"]
              /\ reply' = [reply EXCEPT ![c] = epoch[hello[c]]]
    BY <1>1, <1>7 DEF Staged, Judge, RefuseMac, RefuseReplay, RecordAndRefuse,
       RecordAndAccept, Record, ReplyHour, clientVars
  <2>2. QED
    BY <1>1, <2>1 DEF Replies, ReplyVerifies, HandshakeTypeOK
<1>8. QED
  BY <1>2, <1>3, <1>4, <1>5, <1>6, <1>7 DEF HandshakeNext, handshakeVars, clientVars, connVars,
     Tick, SetBack

\* client.rs parse_server: a client that gets the reply to its own message
\* accepts it, whatever hour the bridge's clock shows.
THEOREM RepliesVerify == HandshakeSpec => []ReplyVerifies
<1>1. HandshakeInit => Replies
  BY DEF HandshakeInit, Replies, ReplyVerifies
<1>2. Replies => ReplyVerifies
  BY DEF Replies
<1>3. QED
  BY <1>1, <1>2, RepliesStep, HandshakeInvariance, PTL DEF HandshakeSpec

-----------------------------------------------------------------------------
(* One direction of a connection.                                          *)


Frame == [len : Header .. Seg, data : 0 .. MaxPayload, bad : 0 .. Seg]

\* The types, and how the counters bound each other.
Typed ==
  /\ mode \in Modes /\ table \in Tables
  /\ writer \in {"idle", "loop", "writing", "failed"}
  /\ zeros \in 0 .. ZeroSamples
  /\ burst \in Nat /\ chunk \in 0 .. burst
  /\ frames \in Seq(Frame)
  /\ sock \in 0 .. SockSize /\ recv \in Nat /\ decoded \in Nat
  /\ read \in Nat /\ given \in Nat
  /\ reader \in {"handshake", "call", "decode", "wait", "ended", "failed"}
  /\ fromServer \in BOOLEAN /\ seeded \in BOOLEAN /\ error \in BOOLEAN
  /\ eof \in BOOLEAN /\ shut \in BOOLEAN

\* No byte is missing and none is extra.
Line ==
  /\ recv + sock + burst = Lengths(frames)
  /\ read + decoded + Datas(frames) = given

\* The writer that is idle has written its burst; after the shutdown it writes
\* no more.
Quiet ==
  /\ writer = "idle" => burst = 0
  /\ shut => writer \in {"idle", "failed"}

\* The end of the file comes after everything the socket had, and is given to
\* the caller after everything that could be decoded.
Ending ==
  /\ eof => shut /\ sock = 0 /\ reader # "handshake"
  /\ eof /\ ~error /\ reader = "call" => ~Complete
  /\ reader = "ended" => eof /\ ~error /\ ~Complete /\ decoded = 0
  /\ reader = "failed" => decoded = 0

IInv == Typed /\ Line /\ Quiet /\ Ending

-----------------------------------------------------------------------------
(* Frames *)

LEMMA Sizes ==
  /\ Seg \in Nat /\ Header \in Nat \ {0} /\ MaxPayload \in Nat \ {0}
  /\ MaxPayload + Header = Seg /\ 2 * Header < Seg /\ Header < MaxPayload
BY ConnAssumption DEF MaxPayload

LEMMA FrameParts ==
  ASSUME NEW f \in Frame
  PROVE  f.len \in Nat /\ f.len <= Seg /\ f.len >= Header /\ f.data \in Nat
BY Sizes DEF Frame

LEMMA LensType ==
  ASSUME NEW fs \in Seq(Frame)
  PROVE  /\ [i \in 1 .. Len(fs) |-> fs[i].len] \in Seq(Nat)
         /\ [i \in 1 .. Len(fs) |-> fs[i].data] \in Seq(Nat)
         /\ Len([i \in 1 .. Len(fs) |-> fs[i].len]) = Len(fs)
         /\ Len([i \in 1 .. Len(fs) |-> fs[i].data]) = Len(fs)
<1>1. Len(fs) \in Nat /\ \A i \in 1 .. Len(fs) : fs[i] \in Frame
  OBVIOUS
<1>2. \A i \in 1 .. Len(fs) : fs[i].len \in Nat /\ fs[i].data \in Nat
  BY <1>1, FrameParts
<1>3. QED
  BY <1>1, <1>2

LEMMA OneAndOne ==
  ASSUME NEW S, NEW x \in S, NEW y \in S
  PROVE  <<x>> \o <<y>> = <<x, y>>
<1> DEFINE q == <<x>> \o <<y>>
           p == <<x, y>>
<1>1. /\ q \in Seq(S) /\ Len(q) = 2 /\ q[1] = x /\ q[2] = y
  OBVIOUS
<1>2. /\ p \in Seq(S) /\ Len(p) = 2 /\ p[1] = x /\ p[2] = y
  OBVIOUS
<1> HIDE DEF p, q
<1>3. \A i \in 1 .. 2 : p[i] = q[i]
  <2>1. \A i \in 1 .. 2 : i = 1 \/ i = 2
    OBVIOUS
  <2>2. QED
    BY <1>1, <1>2, <2>1
<1>4. p = [i \in 1 .. 2 |-> p[i]] /\ q = [i \in 1 .. 2 |-> q[i]]
  BY <1>1, <1>2
<1>5. p = q
  BY <1>3, <1>4
<1>6. QED
  BY <1>5 DEF p, q

LEMMA LengthsNat ==
  ASSUME NEW fs \in Seq(Frame)
  PROVE  Lengths(fs) \in Nat /\ Datas(fs) \in Nat
BY LensType, SumNat DEF Lengths, Datas

LEMMA LengthsNone == Lengths(<<>>) = 0 /\ Datas(<<>>) = 0
<1>1. [i \in 1 .. Len(<<>>) |-> <<>>[i].len] = <<>>
  OBVIOUS
<1>2. [i \in 1 .. Len(<<>>) |-> <<>>[i].data] = <<>>
  OBVIOUS
<1>3. QED
  BY <1>1, <1>2, SumEmpty DEF Lengths, Datas

LEMMA LengthsConcat ==
  ASSUME NEW fs \in Seq(Frame), NEW gs \in Seq(Frame)
  PROVE  /\ fs \o gs \in Seq(Frame)
         /\ Lengths(fs \o gs) = Lengths(fs) + Lengths(gs)
         /\ Datas(fs \o gs) = Datas(fs) + Datas(gs)
<1> DEFINE hs == fs \o gs
           L(xs) == [i \in 1 .. Len(xs) |-> xs[i].len]
           D(xs) == [i \in 1 .. Len(xs) |-> xs[i].data]
<1>1. hs \in Seq(Frame) /\ Len(hs) = Len(fs) + Len(gs)
  OBVIOUS
<1>2. \A i \in 1 .. Len(hs) : hs[i] = IF i <= Len(fs) THEN fs[i] ELSE gs[i - Len(fs)]
  OBVIOUS
<1>3. /\ L(fs) \in Seq(Nat) /\ L(gs) \in Seq(Nat) /\ L(hs) \in Seq(Nat)
      /\ D(fs) \in Seq(Nat) /\ D(gs) \in Seq(Nat) /\ D(hs) \in Seq(Nat)
      /\ Len(L(fs)) = Len(fs) /\ Len(L(gs)) = Len(gs) /\ Len(L(hs)) = Len(hs)
      /\ Len(D(fs)) = Len(fs) /\ Len(D(gs)) = Len(gs) /\ Len(D(hs)) = Len(hs)
  BY <1>1, LensType
<1>4. L(hs) = L(fs) \o L(gs)
  <2>1. \A i \in 1 .. Len(hs) : L(hs)[i] = (L(fs) \o L(gs))[i]
    BY <1>1, <1>2, <1>3
  <2> DEFINE s == L(hs)
             t == L(fs) \o L(gs)
  <2>2. s \in Seq(Nat) /\ t \in Seq(Nat) /\ Len(s) = Len(hs) /\ Len(t) = Len(hs)
    BY <1>1, <1>3
  <2>3. \A i \in 1 .. Len(t) : s[i] = t[i]
    BY <2>1, <2>2
  <2> HIDE DEF s, t
  <2>4. s = t
    BY <2>2, <2>3, SameNumbers
  <2>5. QED
    BY <2>4 DEF s, t
<1>5. D(hs) = D(fs) \o D(gs)
  <2>1. \A i \in 1 .. Len(hs) : D(hs)[i] = (D(fs) \o D(gs))[i]
    BY <1>1, <1>2, <1>3
  <2> DEFINE s == D(hs)
             t == D(fs) \o D(gs)
  <2>2. s \in Seq(Nat) /\ t \in Seq(Nat) /\ Len(s) = Len(hs) /\ Len(t) = Len(hs)
    BY <1>1, <1>3
  <2>3. \A i \in 1 .. Len(t) : s[i] = t[i]
    BY <2>1, <2>2
  <2> HIDE DEF s, t
  <2>4. s = t
    BY <2>2, <2>3, SameNumbers
  <2>5. QED
    BY <2>4 DEF s, t
<1>6. Lengths(hs) = SumOf(L(hs)) /\ Lengths(fs) = SumOf(L(fs)) /\ Lengths(gs) = SumOf(L(gs))
  BY DEF Lengths
<1>7. Datas(hs) = SumOf(D(hs)) /\ Datas(fs) = SumOf(D(fs)) /\ Datas(gs) = SumOf(D(gs))
  BY DEF Datas
<1>8. QED
  <2> HIDE DEF L, D
  <2>1. Lengths(hs) = Lengths(fs) + Lengths(gs) /\ Datas(hs) = Datas(fs) + Datas(gs)
    BY <1>3, <1>4, <1>5, <1>6, <1>7, SumConcat
  <2>2. QED
    BY <1>1, <2>1

LEMMA LengthsOne ==
  ASSUME NEW f \in Frame
  PROVE  /\ <<f>> \in Seq(Frame)
         /\ Lengths(<<f>>) = f.len /\ Datas(<<f>>) = f.data
<1>1. [i \in 1 .. Len(<<f>>) |-> <<f>>[i].len] = <<f.len>>
  OBVIOUS
<1>2. [i \in 1 .. Len(<<f>>) |-> <<f>>[i].data] = <<f.data>>
  OBVIOUS
<1>3. QED
  BY <1>1, <1>2, FrameParts, SumOne DEF Lengths, Datas

LEMMA LengthsHead ==
  ASSUME NEW fs \in Seq(Frame), fs # <<>>
  PROVE  LET rest == SubSeq(fs, 2, Len(fs)) IN
         /\ rest \in Seq(Frame) /\ Head(fs) \in Frame
         /\ Lengths(fs) = Head(fs).len + Lengths(rest)
         /\ Datas(fs) = Head(fs).data + Datas(rest)
<1> DEFINE rest == SubSeq(fs, 2, Len(fs))
<1>1. rest \in Seq(Frame) /\ Head(fs) \in Frame /\ fs = <<Head(fs)>> \o rest
  OBVIOUS
<1> HIDE DEF rest
<1>2. /\ Lengths(<<Head(fs)>> \o rest) = Lengths(<<Head(fs)>>) + Lengths(rest)
      /\ Datas(<<Head(fs)>> \o rest) = Datas(<<Head(fs)>>) + Datas(rest)
  BY <1>1, LengthsOne, LengthsConcat
<1>3. QED
  BY <1>1, <1>2, LengthsOne DEF rest

\* Damage changes no length.
LEMMA LengthsDamaged ==
  ASSUME NEW fs \in Seq(Frame), NEW i \in DOMAIN fs, NEW n \in 0 .. Seg
  PROVE  LET gs == [fs EXCEPT ![i].bad = n] IN
         /\ gs \in Seq(Frame) /\ Lengths(gs) = Lengths(fs) /\ Datas(gs) = Datas(fs)
<1> DEFINE gs == [fs EXCEPT ![i].bad = n]
<1>1. DOMAIN fs = 1 .. Len(fs) /\ Len(fs) \in Nat /\ fs[i] \in Frame
  OBVIOUS
<1>2. /\ [fs[i] EXCEPT !.bad = n] \in Frame
      /\ [fs[i] EXCEPT !.bad = n].len = fs[i].len
      /\ [fs[i] EXCEPT !.bad = n].data = fs[i].data
  BY <1>1 DEF Frame
<1>3. gs \in Seq(Frame) /\ Len(gs) = Len(fs)
  BY <1>1, <1>2
<1>4. \A j \in 1 .. Len(fs) : gs[j].len = fs[j].len /\ gs[j].data = fs[j].data
  BY <1>1, <1>2
<1> HIDE DEF gs
<1>5. /\ [j \in 1 .. Len(gs) |-> gs[j].len] = [j \in 1 .. Len(fs) |-> fs[j].len]
      /\ [j \in 1 .. Len(gs) |-> gs[j].data] = [j \in 1 .. Len(fs) |-> fs[j].data]
  BY <1>3, <1>4
<1>6. QED
  BY <1>3, <1>5 DEF Lengths, Datas, gs

\* The frames' bounds, at the front.
LEMMA HeadBounded ==
  ASSUME NEW fs \in Seq(Frame), fs # <<>>
  PROVE  Head(fs).len <= Lengths(fs) /\ Head(fs).len \in Nat /\ Head(fs).len > 0
<1>1. Head(fs) \in Frame /\ SubSeq(fs, 2, Len(fs)) \in Seq(Frame)
  BY LengthsHead
<1>2. Lengths(SubSeq(fs, 2, Len(fs))) \in Nat
  BY <1>1, LengthsNat
<1>3. Head(fs).len \in Nat /\ Head(fs).len >= Header /\ Header > 0
  BY <1>1, FrameParts, Sizes
<1>4. QED
  BY <1>2, <1>3, LengthsHead, Sizes

-----------------------------------------------------------------------------
(* Packets and padding *)

LEMMA Division ==
  ASSUME NEW n \in Nat, NEW d \in Nat \ {0}
  PROVE  /\ n \div d \in Nat /\ n % d \in 0 .. d - 1
         /\ n = (n \div d) * d + (n % d)
OBVIOUS

LEMMA Remainder ==
  ASSUME NEW n \in Nat, NEW d \in Nat \ {0}, NEW q \in Nat, NEW r \in 0 .. d - 1,
         n = q * d + r
  PROVE  n % d = r
OBVIOUS

LEMMA RoundUp ==
  ASSUME NEW n \in Nat, NEW d \in Nat \ {0}
  PROVE  LET q == (n + d - 1) \div d
         IN  q \in Nat /\ q * d >= n /\ (q - 1) * d < n
OBVIOUS

LEMMA Times ==
  ASSUME NEW n \in Nat, NEW d \in Nat
  PROVE  n * d \in Nat /\ (n + 1) * d = n * d + d /\ (n + 1 - 1) * d = n * d
OBVIOUS

\* A product with a smaller factor is no larger.
LEMMA TimesGrows ==
  ASSUME NEW m \in Nat, NEW n \in Nat, NEW d \in Nat, m <= n
  PROVE  m * d <= n * d
<1>1. PICK k \in Nat : n = m + k
  <2>1. n = m + (n - m) /\ n - m \in Nat
    OBVIOUS
  <2>2. QED
    BY <2>1
<1>2. (m + k) * d = m * d + k * d /\ m * d \in Nat /\ k * d \in Nat
  OBVIOUS
<1>3. QED
  BY <1>1, <1>2

\* The packets of a write carry its bytes, all of them and no others.
LEMMA PacketsCarry ==
  ASSUME NEW n \in Nat \ {0}
  PROVE  Packets(n) \in Seq(Frame) /\ Datas(Packets(n)) = n
<1> DEFINE M == MaxPayload
           q == (n + M - 1) \div M
           ds == [i \in 1 .. q |-> Least(M, n - (i - 1) * M)]
<1>1. M \in Nat \ {0} /\ M + Header = Seg /\ Header \in Nat \ {0} /\ Seg \in Nat
  BY Sizes
<1>2. q \in Nat /\ q * M >= n /\ (q - 1) * M < n
  <2> HIDE DEF M
  <2>1. QED
    BY <1>1, RoundUp
<1>3. Packets(n) = [i \in 1 .. q |-> Data(Least(M, n - (i - 1) * M))]
  BY DEF Packets
<1> HIDE DEF M, q
<1>4. ASSUME NEW k \in 0 .. q - 1
      PROVE  k * M \in Nat /\ k * M < n /\ (k + 1) * M = k * M + M
  <2>1. k \in Nat /\ q - 1 \in Nat /\ k <= q - 1
    BY <1>2
  <2>2. k * M <= (q - 1) * M
    BY <1>1, <2>1, TimesGrows
  <2>3. k * M \in Nat /\ (q - 1) * M \in Nat /\ (k + 1) * M = k * M + M
    BY <1>1, <2>1, Times
  <2>4. QED
    BY <1>2, <2>2, <2>3
<1>5. ASSUME NEW i \in 1 .. q
      PROVE  /\ ds[i] = Least(M, n - (i - 1) * M) /\ ds[i] \in 1 .. M
  <2>1. i - 1 \in 0 .. q - 1
    BY <1>2
  <2>2. (i - 1) * M \in Nat /\ (i - 1) * M < n
    BY <1>4, <2>1
  <2>3. n - (i - 1) * M \in Nat \ {0}
    BY <2>2
  <2>4. Least(M, n - (i - 1) * M) \in 1 .. M
    BY <1>1, <2>3 DEF Least
  <2>5. QED
    BY <2>4
<1>6. ds \in Seq(Nat) /\ Len(ds) = q
  <2>1. \A i \in 1 .. q : ds[i] \in Nat
    BY <1>5, <1>1
  <2>2. QED
    BY <1>2, <2>1
<1> HIDE DEF ds
<1>7. Packets(n) = [i \in 1 .. q |-> Data(ds[i])]
  BY <1>3, <1>5
<1>8. \A i \in 1 .. q : Data(ds[i]) \in Frame /\ Data(ds[i]).data = ds[i]
  BY <1>1, <1>5 DEF Data, Frame, M
<1>9. Packets(n) \in Seq(Frame) /\ Len(Packets(n)) = q
  BY <1>2, <1>7, <1>8
<1>10. [i \in 1 .. Len(Packets(n)) |-> Packets(n)[i].data] = ds
  <2>1. \A i \in 1 .. q : Packets(n)[i].data = ds[i]
    BY <1>7, <1>8
  <2>2. ds = [i \in 1 .. q |-> ds[i]]
    BY <1>6
  <2>3. QED
    BY <1>9, <2>1, <2>2
<1> DEFINE S == {k \in 0 .. q : Sums(ds)[k] = Least(k * M, n)}
<1>11. 0 \in S
  <2>1. 0 * M = 0 /\ 0 \in 0 .. q
    BY <1>1, <1>2
  <2>2. Sums(ds)[0] = 0
    BY <1>6, SumsStep
  <2>3. QED
    BY <2>1, <2>2 DEF Least
<1>12. ASSUME NEW k \in 0 .. q - 1, k \in S PROVE k + 1 \in S
  <2>1. k + 1 \in 1 .. q /\ (k + 1) - 1 = k
    BY <1>2
  <2>2. Sums(ds)[k + 1] = Sums(ds)[(k + 1) - 1] + ds[k + 1]
    BY <1>6, <2>1, SumsStep
  <2>3. ds[k + 1] = Least(M, n - k * M)
    BY <1>5, <2>1
  <2>4. k * M \in Nat /\ k * M < n /\ (k + 1) * M = k * M + M
    BY <1>4
  <2>5. Sums(ds)[k] = k * M
    BY <1>12, <2>4 DEF Least
  <2>6. Sums(ds)[k + 1] = k * M + Least(M, n - k * M)
    BY <2>1, <2>2, <2>3, <2>5
  <2>7. \A x \in Nat : x < n => x + Least(M, n - x) = Least(x + M, n)
    BY <1>1 DEF Least
  <2>8. Sums(ds)[k + 1] = Least((k + 1) * M, n)
    BY <2>4, <2>6, <2>7
  <2>9. QED
    BY <2>1, <2>8
<1>13. q \in S
  <2> HIDE DEF S
  <2>1. \A k \in 0 .. q : k \in S
    BY <1>2, <1>11, <1>12, UpTo
  <2>2. QED
    BY <1>2, <2>1
<1>14. SumOf(ds) = n
  <2>1. Sums(ds)[q] = Least(q * M, n)
    BY <1>13
  <2>2. q * M \in Nat
    BY <1>1, <1>2, Times
  <2>3. QED
    BY <1>2, <1>6, <2>1, <2>2 DEF Least, SumOf
<1>15. QED
  BY <1>9, <1>10, <1>14 DEF Datas

\* What pad_burst adds carries no data; it ends a segment at the target, or a
\* header after it.
LEMMA PadBurstFits ==
  ASSUME NEW pending \in Nat, NEW target \in 0 .. Seg
  PROVE  LET pad == PadBurst(pending, target)
             full == pending + Lengths(pad)
         IN  /\ pad \in Seq(Frame) /\ Datas(pad) = 0
             /\ \/ full % Seg = target % Seg
                \/ full % Seg = (target + Header) % Seg
<1> DEFINE tail == pending % Seg
           gap == Missing(pending, target)
           pad == PadBurst(pending, target)
           full == pending + Lengths(pad)
<1>1. Seg \in Nat \ {0} /\ Header \in Nat \ {0} /\ 2 * Header < Seg
      /\ MaxPayload = Seg - Header
  BY Sizes
<1>2. PICK q \in Nat : tail \in 0 .. Seg - 1 /\ pending = q * Seg + tail
  <2>1. pending \div Seg \in Nat /\ tail \in 0 .. Seg - 1
        /\ pending = (pending \div Seg) * Seg + tail
    BY <1>1, Division
  <2>2. QED
    BY <2>1
<1> HIDE DEF tail
<1>3. /\ gap \in 0 .. Seg
      /\ \E k \in {0, 1} : tail + gap = k * Seg + target
  <2>1. CASE target >= tail
    BY <1>1, <1>2, <2>1 DEF Missing, tail
  <2>2. CASE target < tail
    BY <1>1, <1>2, <2>2 DEF Missing, tail
  <2>3. QED
    BY <1>1, <1>2, <2>1, <2>2
<1>4. \A k \in Nat, x \in Nat : (k * Seg + x) % Seg = x % Seg
  <2>1. SUFFICES ASSUME NEW k \in Nat, NEW x \in Nat
                 PROVE  (k * Seg + x) % Seg = x % Seg
    OBVIOUS
  <2>2. PICK d \in Nat : x = d * Seg + (x % Seg) /\ x % Seg \in 0 .. Seg - 1
    <3>1. x \div Seg \in Nat /\ x % Seg \in 0 .. Seg - 1
          /\ x = (x \div Seg) * Seg + (x % Seg)
      BY <1>1, Division
    <3>2. QED
      BY <3>1
  <2> DEFINE r == x % Seg
  <2>3. r \in 0 .. Seg - 1 /\ x = d * Seg + r
    BY <2>2
  <2> HIDE DEF r
  <2>4. k * Seg + x = (k + d) * Seg + r /\ k + d \in Nat /\ k * Seg + x \in Nat
    BY <1>1, <2>3
  <2>5. (k * Seg + x) % Seg = r
    BY <1>1, <2>3, <2>4, Remainder
  <2>6. QED
    BY <2>5 DEF r
<1>5. (pending + gap) % Seg = target % Seg
  <2>1. PICK k \in {0, 1} : tail + gap = k * Seg + target
    BY <1>3
  <2>2. pending + gap = (q + k) * Seg + target /\ q + k \in Nat
    BY <1>1, <1>2, <1>3, <2>1
  <2>3. QED
    BY <1>4, <2>2
<1>6. (pending + gap + Seg + Header) % Seg = (target + Header) % Seg
  <2>1. PICK k \in {0, 1} : tail + gap = k * Seg + target
    BY <1>3
  <2>2. pending + gap + Seg + Header = (q + k + 1) * Seg + (target + Header)
        /\ q + k + 1 \in Nat /\ target + Header \in Nat
    BY <1>1, <1>2, <1>3, <2>1
  <2>3. QED
    BY <1>4, <2>2
<1> HIDE DEF gap
<1>7. CASE gap > Header
  <2>1. pad = <<Pad(gap - Header)>>
    BY <1>1, <1>3, <1>7 DEF PadBurst, gap
  <2>2. Pad(gap - Header) \in Frame /\ Pad(gap - Header).len = gap
        /\ Pad(gap - Header).data = 0
    BY <1>1, <1>3, <1>7 DEF Pad, Frame
  <2>3. pad \in Seq(Frame) /\ Lengths(pad) = gap /\ Datas(pad) = 0
    BY <2>1, <2>2, LengthsOne
  <2>4. QED
    BY <1>5, <2>3
<1>8. CASE gap \in 1 .. Header
  <2> DEFINE f == Pad(MaxPayload)
             g == Pad(gap)
  <2>1. pad = <<f, g>>
    BY <1>1, <1>3, <1>8 DEF PadBurst, gap
  <2>2. f \in Frame /\ f.len = Seg /\ f.data = 0
    BY <1>1 DEF Pad, Frame
  <2>3. g \in Frame /\ g.len = gap + Header /\ g.data = 0
    BY <1>1, <1>8 DEF Pad, Frame
  <2> HIDE DEF f, g
  <2>4. <<f>> \o <<g>> = <<f, g>>
    <3>1. QED
      BY <2>2, <2>3, OneAndOne
  <2>5. /\ pad \in Seq(Frame) /\ Lengths(pad) = Seg + (gap + Header)
        /\ Datas(pad) = 0
    <3>1. /\ Lengths(<<f>> \o <<g>>) = Lengths(<<f>>) + Lengths(<<g>>)
          /\ Datas(<<f>> \o <<g>>) = Datas(<<f>>) + Datas(<<g>>)
          /\ <<f>> \o <<g>> \in Seq(Frame)
      BY <2>2, <2>3, LengthsOne, LengthsConcat
    <3>2. pad = <<f>> \o <<g>>
      BY <2>1, <2>4
    <3>3. Lengths(<<f>>) = Seg /\ Datas(<<f>>) = 0
      BY <2>2, LengthsOne
    <3>4. Lengths(<<g>>) = gap + Header /\ Datas(<<g>>) = 0
      BY <2>3, LengthsOne
    <3> HIDE DEF pad
    <3>5. Lengths(pad) = Seg + (gap + Header)
      BY <3>1, <3>2, <3>3, <3>4, Zenon
    <3>6. Datas(pad) = 0 + 0 /\ pad \in Seq(Frame)
      BY <3>1, <3>2, <3>3, <3>4, Zenon
    <3>7. QED
      BY <3>5, <3>6
  <2>6. full = pending + gap + Seg + Header
    BY <1>1, <1>3, <2>5
  <2>7. QED
    BY <1>6, <2>5, <2>6
<1>9. CASE gap = 0
  <2>1. pad = <<>>
    BY <1>1, <1>9 DEF PadBurst, gap
  <2>2. pad \in Seq(Frame) /\ Lengths(pad) = 0 /\ Datas(pad) = 0
    BY <2>1, LengthsNone
  <2>3. pending + gap = full
    BY <1>9, <2>2
  <2>4. QED
    BY <1>5, <2>2, <2>3
<1>10. QED
  BY <1>3, <1>1, <1>7, <1>8, <1>9

-----------------------------------------------------------------------------
(* The invariant holds at the start. *)

LEMMA InitIInv == Init => IInv
<1> SUFFICES ASSUME Init PROVE IInv
  OBVIOUS
<1>1. Pad(1) \in Frame /\ Pad(1).data = 0
  BY Sizes DEF Pad, Frame
<1>2. frames \in Seq(Frame) /\ Datas(frames) = 0
  BY <1>1, LengthsOne, LengthsNone DEF Init
<1>3. burst = Lengths(frames) /\ burst \in Nat /\ chunk = burst
  BY <1>2, LengthsNat DEF Init
<1>4. ~fromServer => burst = 0
  BY <1>3, LengthsNone DEF Init
<1>5. Typed
  <2>1. /\ 0 \in Nat /\ 0 \in 0 .. ZeroSamples /\ 0 \in 0 .. SockSize
        /\ burst \in Nat /\ chunk \in 0 .. burst
    BY <1>3, ConnAssumption
  <2>2. /\ mode \in Modes /\ table \in Tables /\ fromServer \in BOOLEAN
        /\ seeded \in BOOLEAN /\ error \in BOOLEAN /\ eof \in BOOLEAN
        /\ shut \in BOOLEAN
    BY DEF Init
  <2>3. /\ writer \in {"idle", "writing"} /\ reader \in {"handshake", "call"}
        /\ sock = 0 /\ recv = 0 /\ decoded = 0 /\ zeros = 0 /\ given = 0 /\ read = 0
    BY DEF Init
  <2>4. QED
    BY <1>2, <2>1, <2>2, <2>3 DEF Typed
<1>6. Line
  BY <1>2, <1>3 DEF Init, Line
<1>7. Quiet /\ Ending
  BY <1>4 DEF Init, Quiet, Ending
<1>8. QED
  BY <1>5, <1>6, <1>7 DEF IInv

-----------------------------------------------------------------------------
(* The writer's steps. *)

\* What a step of the writer may do: queue frames, move bytes from the burst to
\* the socket, all before the end of the file.
LEMMA WriterKeeps ==
  ASSUME IInv, NEW fs \in Seq(Frame),
         frames' = frames \o fs,
         burst' \in Nat, chunk' \in 0 .. burst', sock' \in 0 .. SockSize,
         sock' + burst' = sock + burst + Lengths(fs),
         given' \in Nat, given' = given + Datas(fs),
         zeros' \in 0 .. ZeroSamples,
         writer' \in {"loop", "writing"}, ~shut,
         UNCHANGED <<envVars, readerVars, shut>>
  PROVE  IInv'
<1> USE DEF IInv
<1>1. /\ frames' \in Seq(Frame) /\ Lengths(frames') = Lengths(frames) + Lengths(fs)
      /\ Datas(frames') = Datas(frames) + Datas(fs)
  BY LengthsConcat DEF Typed
<1>2. /\ Lengths(frames) \in Nat /\ Lengths(fs) \in Nat
      /\ Datas(frames) \in Nat /\ Datas(fs) \in Nat
  BY LengthsNat DEF Typed
<1>3. Typed'
  BY <1>1 DEF Typed, envVars, readerVars
<1>4. Line'
  <2>1. recv' = recv /\ read' = read /\ decoded' = decoded
    BY DEF readerVars
  <2>2. /\ recv \in Nat /\ sock \in Nat /\ burst \in Nat /\ sock' \in Nat /\ burst' \in Nat
        /\ read \in Nat /\ decoded \in Nat /\ given \in Nat
    BY ConnAssumption DEF Typed
  <2>3. recv + sock + burst = Lengths(frames) /\ read + decoded + Datas(frames) = given
    BY DEF Line
  <2>4. recv + sock' + burst' = Lengths(frames')
    <3> DEFINE a == recv + sock + burst
               b == Lengths(frames')
               l == Lengths(fs)
               s == sock'
               u == burst'
    <3>1. recv \in Nat /\ sock \in Nat /\ burst \in Nat /\ s \in Nat /\ u \in Nat /\ l \in Nat
      BY <1>2, <2>2
    <3>2. s + u = sock + burst + l /\ b = a + l
      BY <1>1, <2>3
    <3> HIDE DEF b, l, s, u
    <3>3. recv + s + u = b
      BY <3>1, <3>2, SMT
    <3>4. QED
      BY <3>3 DEF b, s, u
  <2>5. read + decoded + Datas(frames') = given'
    <3> DEFINE b == Datas(frames')
               d == Datas(frames)
               l == Datas(fs)
               g == given'
    <3>1. read \in Nat /\ decoded \in Nat /\ d \in Nat /\ l \in Nat
      BY <1>2, <2>2
    <3>2. g = given + l /\ b = d + l /\ read + decoded + d = given
      BY <1>1, <2>3
    <3> HIDE DEF b, d, l, g
    <3>3. read + decoded + b = g
      BY <3>1, <3>2, SMT
    <3>4. QED
      BY <3>3 DEF b, g
  <2>6. QED
    BY <2>1, <2>4, <2>5 DEF Line
<1>5. Quiet'
  BY DEF Quiet
<1>6. Ending'
  BY DEF Ending, readerVars
<1>7. QED
  BY <1>3, <1>4, <1>5, <1>6

LEMMA WriteKeeps == IInv /\ Write => IInv'
<1> SUFFICES ASSUME IInv, Write PROVE IInv'
  OBVIOUS
<1>1. PICK n \in 1 .. MaxWrite :
        WriteParanoid(n) \/ \E target \in table : WritePadded(n, target)
  BY DEF Write
<1>2. n \in Nat \ {0}
  BY <1>1, ConnAssumption
<1>3. Packets(n) \in Seq(Frame) /\ Datas(Packets(n)) = n
  BY <1>2, PacketsCarry
<1>4. ASSUME NEW fs \in Seq(Frame), Begin(n, fs), Datas(fs) = n,
             chunk' \in {0, Lengths(fs)}, writer' \in {"loop", "writing"}
      PROVE  IInv'
  <2>1. writer = "idle" /\ ~shut /\ burst = 0
    BY <1>4 DEF Begin, IInv, Quiet
  <2>2. /\ frames' = frames \o fs /\ burst' = Lengths(fs) /\ sock' = sock
        /\ given' = given + Datas(fs) /\ zeros' = 0
        /\ UNCHANGED <<envVars, readerVars, shut>>
    BY <1>4 DEF Begin
  <2>3. Lengths(fs) \in Nat /\ Datas(fs) \in Nat
    BY LengthsNat
  <2>4. given' \in Nat /\ burst' \in Nat /\ chunk' \in 0 .. burst'
        /\ sock' \in 0 .. SockSize /\ zeros' \in 0 .. ZeroSamples
    BY <1>4, <2>2, <2>3, ConnAssumption DEF IInv, Typed
  <2>5. sock' + burst' = sock + burst + Lengths(fs)
    BY <2>1, <2>2, <2>3, ConnAssumption DEF IInv, Typed
  <2>6. QED
    BY <1>4, <2>1, <2>2, <2>4, <2>5, WriterKeeps
<1>5. CASE WriteParanoid(n)
  BY <1>3, <1>4, <1>5 DEF WriteParanoid
<1>6. ASSUME NEW target \in table, WritePadded(n, target) PROVE IInv'
  <2> DEFINE pad == PadBurst(Lengths(Packets(n)), target)
             fs == Packets(n) \o pad
  <2>1. target \in 0 .. Seg
    BY ConnAssumption DEF IInv, Typed
  <2>2. Lengths(Packets(n)) \in Nat
    BY <1>3, LengthsNat
  <2>3. pad \in Seq(Frame) /\ Datas(pad) = 0
    BY <2>1, <2>2, PadBurstFits
  <2> HIDE DEF pad
  <2>4. fs \in Seq(Frame) /\ Datas(fs) = n
    BY <1>2, <1>3, <2>3, LengthsConcat
  <2>5. Begin(n, fs) /\ chunk' \in {0, Lengths(fs)} /\ writer' \in {"loop", "writing"}
    BY <1>6 DEF WritePadded, pad
  <2> HIDE DEF fs
  <2>6. QED
    BY <1>4, <2>4, <2>5
<1>7. QED
  BY <1>1, <1>5, <1>6

LEMMA LoopKeeps ==
  IInv /\ (Segment \/ SampleZero \/ \E t \in 0 .. Seg : Sample(t)) => IInv'
<1> SUFFICES ASSUME IInv, Segment \/ SampleZero \/ \E t \in 0 .. Seg : Sample(t)
             PROVE  IInv'
  OBVIOUS
<1>1. writer = "loop" /\ ~shut
  BY DEF Segment, SampleZero, Sample, InLoop, IInv, Quiet
<1>2. burst \in Nat /\ sock \in Nat /\ sock \in 0 .. SockSize /\ given \in Nat
      /\ Seg \in Nat /\ ZeroSamples \in Nat /\ zeros \in 0 .. ZeroSamples
      /\ chunk \in 0 .. burst
  BY ConnAssumption DEF IInv, Typed
<1>3. /\ frames \o <<>> = frames /\ <<>> \in Seq(Frame)
      /\ Lengths(<<>>) = 0 /\ Datas(<<>>) = 0
  BY LengthsNone DEF IInv, Typed
<1>4. UNCHANGED <<envVars, sock, readerVars, shut, given>>
  BY DEF Segment, SampleZero, Sample, loopUnchanged
<1>5. ASSUME UNCHANGED <<frames, burst>>, chunk' \in 0 .. burst,
             zeros' \in 0 .. ZeroSamples, writer' \in {"loop", "writing"}
      PROVE  IInv'
  <2>1. /\ frames' = frames \o <<>> /\ burst' \in Nat /\ chunk' \in 0 .. burst'
        /\ sock' \in 0 .. SockSize
        /\ sock' + burst' = sock + burst + Lengths(<<>>)
        /\ given' \in Nat /\ given' = given + Datas(<<>>)
        /\ UNCHANGED <<envVars, readerVars, shut>>
    BY <1>2, <1>3, <1>4, <1>5
  <2>2. QED
    BY <1>1, <1>3, <1>5, <2>1, WriterKeeps
<1>6. CASE Segment
  BY <1>2, <1>5, <1>6 DEF Segment, Send, Least
<1>7. CASE SampleZero
  BY <1>1, <1>2, <1>5, <1>7 DEF SampleZero, Send, Least
<1>8. ASSUME NEW t \in 0 .. Seg, Sample(t) PROVE IInv'
  <2> DEFINE pad == IF burst < t THEN PadBurst(burst, t) ELSE <<>>
             full == burst + Lengths(pad)
  <2>1. pad \in Seq(Frame) /\ Datas(pad) = 0
    BY <1>2, <1>3, PadBurstFits
  <2>2. Lengths(pad) \in Nat
    BY <2>1, LengthsNat
  <2>3. frames' = frames \o pad /\ burst' = full
    BY <1>8 DEF Sample
  <2>4. \/ UNCHANGED <<writer, chunk, zeros>>
        \/ writer' = "writing" /\ chunk' = t /\ zeros' = 0 /\ (pad = <<>> \/ full = t)
    BY <1>8 DEF Sample, Send
  <2>5. pad = <<>> => full = burst /\ (burst >= t \/ PadBurst(burst, t) = <<>>)
    BY <1>2, <1>3
  <2>6. PadBurst(burst, t) = <<>> => t <= burst
    <3>1. Missing(burst, t) = 0 => t <= burst
      <4>1. Seg \in Nat \ {0}
        BY Sizes
      <4>2. burst % Seg \in 0 .. Seg - 1 /\ burst % Seg <= burst
        BY <1>2, <4>1
      <4>3. QED
        BY <1>2, <4>1, <4>2 DEF Missing
    <3>2. \A x : <<x>> # <<>>
      OBVIOUS
    <3>3. \A x, y : <<x, y>> # <<>>
      OBVIOUS
    <3>4. Missing(burst, t) \in Nat
      <4>1. Seg \in Nat \ {0}
        BY Sizes
      <4>2. burst % Seg \in 0 .. Seg - 1
        BY <1>2, <4>1
      <4>3. QED
        BY <1>2, <4>1, <4>2 DEF Missing
    <3>5. Missing(burst, t) > Header \/ Missing(burst, t) \in 1 .. Header
          \/ Missing(burst, t) = 0
      BY <3>4, Sizes
    <3>6. QED
      BY <3>1, <3>2, <3>3, <3>5, Sizes DEF PadBurst
  <2> HIDE DEF pad
  <2>7. /\ burst' \in Nat /\ chunk' \in 0 .. burst' /\ zeros' \in 0 .. ZeroSamples
        /\ writer' \in {"loop", "writing"}
    BY <1>1, <1>2, <2>2, <2>3, <2>4, <2>5, <2>6
  <2>8. /\ sock' \in 0 .. SockSize /\ sock' + burst' = sock + burst + Lengths(pad)
        /\ given' \in Nat /\ given' = given + Datas(pad)
        /\ UNCHANGED <<envVars, readerVars, shut>>
    BY <1>2, <1>4, <2>1, <2>2, <2>3
  <2>9. QED
    BY <1>1, <2>1, <2>3, <2>7, <2>8, WriterKeeps
<1>9. QED
  BY <1>6, <1>7, <1>8

LEMMA PushKeeps == IInv /\ Push => IInv'
<1> SUFFICES ASSUME IInv, Push PROVE IInv'
  OBVIOUS
<1> DEFINE n == Least(chunk, SockSize - sock)
<1>1. burst \in Nat /\ chunk \in 0 .. burst /\ sock \in 0 .. SockSize /\ SockSize \in Nat
      /\ given \in Nat /\ zeros \in 0 .. ZeroSamples
  BY ConnAssumption DEF IInv, Typed
<1>2. writer = "writing" /\ ~shut
  BY DEF Push, IInv, Quiet
<1>3. n \in 0 .. chunk /\ n <= SockSize - sock
  BY <1>1 DEF Least
<1>4. /\ sock' = sock + n /\ burst' = burst - n /\ chunk' = chunk - n
      /\ writer' \in {"loop", "writing"} /\ frames' = frames /\ given' = given
      /\ zeros' = zeros /\ UNCHANGED <<envVars, readerVars, shut>>
  BY <1>2 DEF Push
<1> HIDE DEF n
<1>5. /\ frames \o <<>> = frames /\ <<>> \in Seq(Frame)
      /\ Lengths(<<>>) = 0 /\ Datas(<<>>) = 0
  BY LengthsNone DEF IInv, Typed
<1>6. /\ burst' \in Nat /\ chunk' \in 0 .. burst' /\ sock' \in 0 .. SockSize
      /\ sock' + burst' = sock + burst + Lengths(<<>>)
      /\ given' \in Nat /\ given' = given + Datas(<<>>) /\ frames' = frames \o <<>>
      /\ zeros' \in 0 .. ZeroSamples
  BY <1>1, <1>3, <1>4, <1>5
<1>7. QED
  BY <1>2, <1>4, <1>5, <1>6, WriterKeeps

\* The other steps of the writer, and new length tables, move no byte.
LEMMA WriterStays ==
  IInv /\ (WriteDone \/ WriteFails \/ Shutdown \/ Reseed) => IInv'
<1> SUFFICES ASSUME IInv, WriteDone \/ WriteFails \/ Shutdown \/ Reseed
             PROVE  IInv'
  OBVIOUS
<1>1. UNCHANGED <<frames, sock, burst, chunk, zeros, given, readerVars, mode, fromServer>>
  BY DEF WriteDone, WriteFails, Shutdown, Reseed, envVars, writerVars
<1>2. Complete' = Complete
  BY <1>1 DEF Complete, readerVars
<1>3. Typed'
  <2>1. table' \in Tables /\ seeded' \in BOOLEAN /\ shut' \in BOOLEAN
        /\ writer' \in {"idle", "loop", "writing", "failed"}
    BY DEF WriteDone, WriteFails, Shutdown, Reseed, envVars, writerVars, IInv, Typed
  <2>2. QED
    BY <1>1, <2>1 DEF IInv, Typed, readerVars
<1>4. Line'
  BY <1>1 DEF IInv, Line, readerVars
<1>5. Quiet' /\ (shut => shut')
  BY <1>1 DEF WriteDone, WriteFails, Shutdown, Reseed, envVars, writerVars, IInv, Quiet
<1>6. Ending'
  BY <1>1, <1>2, <1>5 DEF IInv, Ending, readerVars
<1>7. QED
  BY <1>3, <1>4, <1>5, <1>6 DEF IInv

-----------------------------------------------------------------------------
(* The reader's steps. *)

\* What a step of the reader may do: move bytes out of the socket and through
\* its buffer.
LEMMA ReaderKeeps ==
  ASSUME IInv, UNCHANGED <<envVars, writerVars>>,
         frames' \in Seq(Frame),
         sock' \in 0 .. SockSize, recv' \in Nat, decoded' \in Nat, read' \in Nat,
         recv' + sock' + burst = Lengths(frames'),
         read' + decoded' + Datas(frames') = given,
         reader' \in {"handshake", "call", "decode", "wait", "ended", "failed"},
         error' \in BOOLEAN, eof' \in BOOLEAN, Ending'
  PROVE  IInv'
<1>1. Typed'
  BY DEF IInv, Typed, envVars, writerVars
<1>2. Line'
  BY DEF Line, writerVars
<1>3. Quiet'
  BY DEF IInv, Quiet, writerVars
<1>4. QED
  BY <1>1, <1>2, <1>3 DEF IInv

\* The numbers a step of the reader starts from.
LEMMA ReaderNumbers ==
  ASSUME IInv
  PROVE  /\ recv \in Nat /\ sock \in Nat /\ sock \in 0 .. SockSize /\ burst \in Nat
         /\ decoded \in Nat /\ read \in Nat /\ given \in Nat /\ frames \in Seq(Frame)
         /\ Lengths(frames) \in Nat /\ Datas(frames) \in Nat /\ SockSize \in Nat
         /\ recv + sock + burst = Lengths(frames)
         /\ read + decoded + Datas(frames) = given
         /\ error \in BOOLEAN /\ eof \in BOOLEAN
BY LengthsNat, ConnAssumption DEF IInv, Typed, Line

\* Bytes taken from the socket.
LEMMA TakesKeep ==
  ASSUME IInv, NEW n \in 0 .. sock, recv' = recv + n, sock' = sock - n,
         ~eof \/ n = 0,
         reader \in {"handshake", "wait"},
         reader' \in {"handshake", "call", "decode", "wait"},
         reader' = "handshake" => reader = "handshake",
         reader' = "call" => reader = "handshake",
         UNCHANGED <<envVars, writerVars, frames, error, eof, decoded, read>>
  PROVE  IInv'
<1>1. recv \in Nat /\ sock \in 0 .. SockSize /\ SockSize \in Nat /\ burst \in Nat
      /\ recv + sock + burst = Lengths(frames)
  BY ReaderNumbers
<1>2. recv' \in Nat /\ sock' \in 0 .. SockSize /\ recv' + sock' + burst = Lengths(frames)
  BY <1>1
<1>3. Ending'
  <2>1. shut' = shut
    BY DEF writerVars
  <2>2. eof => n = 0
    OBVIOUS
  <2>3. eof => sock' = 0 /\ shut' /\ reader # "handshake"
    BY <1>1, <2>1, <2>2 DEF IInv, Ending
  <2>4. QED
    BY <2>3 DEF Ending
<1>4. QED
  BY <1>2, <1>3, ReaderNumbers, ReaderKeeps

LEMMA LeftoverKeeps == IInv /\ Leftover => IInv'
<1> SUFFICES ASSUME IInv, Leftover PROVE IInv'
  OBVIOUS
<1>1. PICK n \in 0 .. sock : recv' = recv + n /\ sock' = sock - n
  BY DEF Leftover
<1>2. ~eof
  BY DEF Leftover, IInv, Ending
<1>3. QED
  BY <1>1, <1>2, TakesKeep DEF Leftover, readerUnchanged

LEMMA ReadBytesKeeps == IInv /\ ReadBytes => IInv'
<1> SUFFICES ASSUME IInv, ReadBytes PROVE IInv'
  OBVIOUS
<1>1. PICK n \in 1 .. sock : recv' = recv + n /\ sock' = sock - n
  BY DEF ReadBytes
<1>2. sock \in Nat
  BY ReaderNumbers
<1>3. ~eof
  BY <1>1, <1>2 DEF IInv, Ending
<1>4. n \in 0 .. sock
  BY <1>1, <1>2
<1>5. QED
  BY <1>1, <1>3, <1>4, TakesKeep DEF ReadBytes, readerUnchanged

\* A step that leaves bytes and frames where they are.
LEMMA StaysKeep ==
  ASSUME IInv, UNCHANGED <<envVars, writerVars, frames, sock, recv>>,
         decoded' \in Nat, read' \in Nat, read' + decoded' = read + decoded,
         reader' \in {"handshake", "call", "decode", "wait", "ended", "failed"},
         error' \in BOOLEAN, eof' \in BOOLEAN, Ending'
  PROVE  IInv'
<1> DEFINE d == Datas(frames)
<1>1. read \in Nat /\ decoded \in Nat /\ d \in Nat /\ read + decoded + d = given
  BY ReaderNumbers
<1> HIDE DEF d
<1>2. read' + decoded' + d = given
  BY <1>1
<1>3. frames' \in Seq(Frame) /\ sock' \in 0 .. SockSize /\ recv' \in Nat
      /\ recv' + sock' + burst = Lengths(frames') /\ Datas(frames') = d
  BY ReaderNumbers DEF d
<1>4. QED
  BY <1>2, <1>3, ReaderKeeps

LEMMA ReadReturnsKeeps == IInv /\ ReadReturns => IInv'
<1> SUFFICES ASSUME IInv, ReadReturns PROVE IInv'
  OBVIOUS
<1>1. /\ reader = "call" /\ UNCHANGED <<envVars, writerVars, frames, sock, recv, eof, error>>
  BY DEF ReadReturns, readerUnchanged
<1>2. Complete' = Complete /\ shut' = shut
  BY <1>1 DEF Complete, writerVars
<1>3. eof => shut /\ sock = 0
  BY DEF IInv, Ending
<1>4. eof /\ ~error => ~Complete
  BY <1>1 DEF IInv, Ending
<1>5. error \in BOOLEAN /\ eof \in BOOLEAN /\ decoded \in Nat /\ read \in Nat
  BY ReaderNumbers
<1>6. ASSUME NEW n \in 1 .. decoded, read' = read + n, decoded' = decoded - n,
             reader' = reader
      PROVE  IInv'
  <2>1. decoded' \in Nat /\ read' \in Nat /\ read' + decoded' = read + decoded
    BY <1>5, <1>6
  <2>2. Ending'
    BY <1>1, <1>2, <1>3, <1>4, <1>6 DEF Ending
  <2>3. QED
    BY <1>1, <1>5, <1>6, <2>1, <2>2, StaysKeep
<1>7. ASSUME decoded = 0, UNCHANGED <<decoded, read>>,
             reader' = CASE error -> "failed" [] eof /\ ~error -> "ended"
                         [] ~eof /\ ~error -> "decode"
      PROVE  IInv'
  <2>1. CASE error
    <3>1. reader' = "failed"
      BY <1>5, <1>7, <2>1
    <3>2. Ending'
      BY <1>1, <1>2, <1>3, <1>7, <3>1 DEF Ending
    <3>3. QED
      BY <1>1, <1>5, <1>7, <3>1, <3>2, StaysKeep
  <2>2. CASE eof /\ ~error
    <3>1. reader' = "ended"
      BY <1>5, <1>7, <2>2
    <3>2. Ending'
      BY <1>1, <1>2, <1>3, <1>4, <1>7, <2>2, <3>1 DEF Ending
    <3>3. QED
      BY <1>1, <1>5, <1>7, <3>1, <3>2, StaysKeep
  <2>3. CASE ~eof /\ ~error
    <3>1. reader' = "decode"
      BY <1>5, <1>7, <2>3
    <3>2. Ending'
      BY <1>1, <2>3, <3>1 DEF Ending
    <3>3. QED
      BY <1>1, <1>5, <1>7, <3>1, <3>2, StaysKeep
  <2>4. QED
    BY <2>1, <2>2, <2>3
<1>8. QED
  BY <1>6, <1>7 DEF ReadReturns

LEMMA DecodeKeeps == IInv /\ Decode => IInv'
<1> SUFFICES ASSUME IInv, Decode PROVE IInv'
  OBVIOUS
<1>1. UNCHANGED <<envVars, writerVars, sock, eof, read>> /\ Complete /\ reader = "decode"
  BY DEF Decode, readerUnchanged
<1>2. shut' = shut /\ (eof => shut /\ sock = 0)
  BY <1>1 DEF writerVars, IInv, Ending
<1>3. frames # <<>> /\ frames \in Seq(Frame)
  BY <1>1, ReaderNumbers DEF Complete
<1> DEFINE f == Head(frames)
           rest == SubSeq(frames, 2, Len(frames))
<1>4. /\ rest \in Seq(Frame) /\ f \in Frame
      /\ Lengths(frames) = f.len + Lengths(rest) /\ Datas(frames) = f.data + Datas(rest)
      /\ Lengths(rest) \in Nat /\ Datas(rest) \in Nat /\ f.len \in Nat /\ f.data \in Nat
  BY <1>3, LengthsHead, LengthsNat, FrameParts
<1>5. CASE Intact(f)
  <2>1. /\ frames' = rest /\ recv' = recv - f.len /\ decoded' = decoded + f.data
        /\ reader' = "decode" /\ error' = error /\ recv >= f.len
    BY <1>1, <1>5 DEF Decode, Complete
  <2> DEFINE l == Lengths(rest)
             d == Datas(rest)
             a == f.len
             b == f.data
  <2>2. /\ recv + sock + burst = a + l /\ read + decoded + (b + d) = given
        /\ a \in Nat /\ b \in Nat /\ l \in Nat /\ d \in Nat /\ recv >= a
        /\ recv' = recv - a /\ decoded' = decoded + b
        /\ recv \in Nat /\ sock \in Nat /\ burst \in Nat /\ read \in Nat
        /\ decoded \in Nat /\ given \in Nat
    BY <1>4, <2>1, ReaderNumbers
  <2> HIDE DEF l, d, a, b
  <2>3. recv' \in Nat /\ decoded' \in Nat
        /\ recv' + sock + burst = l /\ read + decoded' + d = given
    BY <2>2
  <2>4. Ending'
    BY <1>1, <1>2, <2>1 DEF Ending
  <2>5. /\ frames' \in Seq(Frame) /\ recv' + sock' + burst = Lengths(frames')
        /\ read' + decoded' + Datas(frames') = given
    BY <1>1, <1>4, <2>1, <2>3 DEF l, d
  <2>6. sock' \in 0 .. SockSize /\ read' \in Nat /\ error' \in BOOLEAN /\ eof' \in BOOLEAN
    BY <1>1, <2>1, ReaderNumbers
  <2>7. QED
    BY <1>1, <2>1, <2>3, <2>4, <2>5, <2>6, ReaderKeeps
<1>6. CASE ~Intact(f)
  <2>1. error' = TRUE /\ reader' = "call" /\ UNCHANGED <<frames, recv, decoded>>
    BY <1>6 DEF Decode
  <2>2. Ending'
    BY <1>1, <1>2, <2>1 DEF Ending
  <2>3. QED
    BY <1>1, <2>1, <2>2, ReaderNumbers, StaysKeep
<1>7. QED
  BY <1>5, <1>6

LEMMA DecodeDoneKeeps == IInv /\ DecodeDone => IInv'
<1> SUFFICES ASSUME IInv, DecodeDone PROVE IInv'
  OBVIOUS
<1>1. /\ UNCHANGED <<envVars, writerVars, frames, sock, recv, error, eof, decoded, read>>
      /\ ~Complete /\ reader = "decode" /\ reader' \in {"call", "wait"}
  BY DEF DecodeDone, readerUnchanged
<1>2. shut' = shut /\ Complete' = Complete /\ (eof => shut /\ sock = 0)
  BY <1>1 DEF writerVars, Complete, IInv, Ending
<1>3. Ending'
  BY <1>1, <1>2 DEF Ending
<1>4. QED
  BY <1>1, <1>3, ReaderNumbers, StaysKeep

LEMMA ReadEndsKeeps == IInv /\ ReadEnds => IInv'
<1> SUFFICES ASSUME IInv, ReadEnds PROVE IInv'
  OBVIOUS
<1>1. /\ UNCHANGED <<envVars, writerVars, frames, sock, recv, decoded, read>>
      /\ reader = "wait" /\ reader' = "decode"
      /\ \/ sock = 0 /\ shut /\ eof' = TRUE /\ error' = error
         \/ error' = TRUE /\ eof' = eof
  BY DEF ReadEnds, readerUnchanged
<1>2. shut' = shut /\ (eof => shut /\ sock = 0)
  BY <1>1 DEF writerVars, IInv, Ending
<1>3. Ending'
  BY <1>1, <1>2 DEF Ending
<1>4. QED
  BY <1>1, <1>3, ReaderNumbers, StaysKeep

\* Damage makes no frame complete that was not: where it is noticed is no
\* earlier than the frame's end.
LEMMA DamageKeeps == IInv /\ Damage => IInv'
<1> SUFFICES ASSUME IInv, Damage PROVE IInv'
  OBVIOUS
<1>1. UNCHANGED <<envVars, writerVars, sock, readerVars>>
      /\ \A i \in DOMAIN frames : Intact(frames[i])
  BY DEF Damage, readerUnchanged
<1>2. PICK i \in DOMAIN frames : \E n \in {frames[i].len, Seg} :
        frames' = [frames EXCEPT ![i].bad = n]
  BY DEF Damage
<1>3. PICK n \in {frames[i].len, Seg} : frames' = [frames EXCEPT ![i].bad = n]
  BY <1>2
<1>4. frames \in Seq(Frame) /\ frames[i] \in Frame /\ frames # <<>>
      /\ DOMAIN frames = 1 .. Len(frames) /\ Len(frames) \in Nat
  BY <1>2, ReaderNumbers
<1>5. n \in 0 .. Seg /\ n >= frames[i].len /\ frames[i].len \in Nat
  BY <1>3, <1>4, FrameParts, Sizes
<1>6. frames' \in Seq(Frame) /\ Lengths(frames') = Lengths(frames)
      /\ Datas(frames') = Datas(frames)
  BY <1>2, <1>3, <1>4, <1>5, LengthsDamaged
<1>7. Complete' => Complete
  <2>1. SUFFICES ASSUME Complete' PROVE Complete
    OBVIOUS
  <2>2. Head(frames) = frames[1] /\ Intact(frames[1]) /\ frames[1] \in Frame
    BY <1>1, <1>4
  <2>3. frames' # <<>> /\ Head(frames') = frames'[1]
    BY <1>4, <1>6, <2>1 DEF Complete
  <2>4. recv' = recv /\ recv \in Nat
    BY <1>1, ReaderNumbers DEF readerVars
  <2>5. CASE i = 1
    <3>1. frames'[1] = [frames[1] EXCEPT !.bad = n]
      BY <1>3, <1>4, <2>5
    <3>2. frames'[1].len = frames[1].len /\ frames'[1].bad = n
      BY <2>2, <3>1 DEF Frame
    <3>3. recv >= n \/ recv >= frames[1].len
      BY <2>1, <2>3, <2>4, <3>2 DEF Complete
    <3>4. recv >= frames[1].len
      BY <1>5, <2>4, <2>5, <3>3, Sizes
    <3>5. QED
      BY <1>4, <2>2, <3>4 DEF Complete
  <2>6. CASE i # 1
    <3>1. frames'[1] = frames[1]
      BY <1>3, <1>4, <2>6
    <3>2. QED
      BY <1>4, <2>1, <2>2, <2>3, <2>4, <3>1 DEF Complete
  <2>7. QED
    BY <2>5, <2>6
<1>8. Ending'
  <2>1. UNCHANGED <<eof, error, reader, sock, shut, decoded>>
    BY <1>1 DEF readerVars, writerVars
  <2>2. QED
    BY <1>7, <2>1 DEF IInv, Ending
<1>9. /\ recv' + sock' + burst = Lengths(frames') /\ read' + decoded' + Datas(frames') = given
      /\ recv' \in Nat /\ sock' \in 0 .. SockSize /\ decoded' \in Nat /\ read' \in Nat
      /\ error' \in BOOLEAN /\ eof' \in BOOLEAN
  BY <1>1, <1>6, ReaderNumbers DEF readerVars
<1>10. reader' \in {"handshake", "call", "decode", "wait", "ended", "failed"}
  BY <1>1 DEF IInv, Typed, readerVars
<1>11. QED
  BY <1>1, <1>6, <1>8, <1>9, <1>10, ReaderKeeps

LEMMA NextIInv == IInv /\ [Next]_vars => IInv'
<1>1. IInv /\ UNCHANGED vars => IInv'
  <2> SUFFICES ASSUME IInv, UNCHANGED vars PROVE IInv'
    OBVIOUS
  <2>1. Complete' = Complete
    BY DEF vars, Complete, readerVars
  <2>2. Typed' /\ Line' /\ Quiet'
    BY DEF vars, envVars, writerVars, readerVars, IInv, Typed, Line, Quiet
  <2>3. Ending'
    BY <2>1 DEF vars, envVars, writerVars, readerVars, IInv, Ending
  <2>4. QED
    BY <2>2, <2>3 DEF IInv
<1>2. QED
  BY <1>1, WriteKeeps, LoopKeeps, PushKeeps, WriterStays, LeftoverKeeps,
     ReadBytesKeeps, ReadReturnsKeeps, DecodeKeeps, DecodeDoneKeeps,
     ReadEndsKeeps, DamageKeeps
     DEF Next, Writer, Reader

\* conn.rs Obfs4Writer and Obfs4Reader: the connection's state keeps its types
\* and bounds, and every byte of a frame is in the burst, the socket or the
\* reader's buffer.
THEOREM ConnInvariant == Spec => []IInv
BY InitIInv, NextIInv, PTL DEF Spec

-----------------------------------------------------------------------------
(* What follows from it. *)

LEMMA IInvConserved == IInv => Conserved
<1> SUFFICES ASSUME IInv PROVE Conserved
  OBVIOUS
<1>1. /\ recv + sock + burst = Lengths(frames) /\ read + decoded + Datas(frames) = given
      /\ recv \in Nat /\ frames \in Seq(Frame) /\ read \in Nat
  BY ReaderNumbers
<1>2. Over => decoded = 0
  BY DEF Over, IInv, Ending
<1>3. ASSUME reader = "ended", writer # "failed", Intact(Head(frames))
      PROVE  read = given
  <2>1. ~Complete /\ sock = 0 /\ burst = 0 /\ decoded = 0
    BY <1>3 DEF IInv, Ending, Quiet
  <2>2. CASE frames = <<>>
    BY <1>1, <2>1, <2>2, LengthsNone
  <2>3. CASE frames # <<>>
    <3>1. Head(frames).len <= Lengths(frames) /\ Lengths(frames) = recv
      BY <1>1, <2>1, <2>3, HeadBounded
    <3>2. QED
      BY <1>3, <2>1, <2>3, <3>1 DEF Complete
  <2>4. QED
    BY <2>2, <2>3
<1>4. QED
  BY <1>1, <1>2, <1>3 DEF Conserved

\* conn.rs Obfs4Writer, Obfs4Reader: through padding, resampling and cut writes
\* no byte is lost, invented, skipped or given twice, and the end of the file
\* comes after all the data.
THEOREM BytesConserved == Spec => []Conserved
BY ConnInvariant, IInvConserved, PTL

LEMMA LastSegmentOf ==
  ASSUME NEW n \in Nat
  PROVE  LastSegment(n) \in 1 .. Seg
<1>1. Seg \in Nat \ {0}
  BY Sizes
<1>2. n % Seg \in 0 .. Seg - 1
  BY <1>1
<1>3. QED
  BY <1>1, <1>2 DEF LastSegment

LEMMA CutsStep == IInv /\ CutsSampled /\ [Next]_vars => CutsSampled'
<1> SUFFICES ASSUME IInv, CutsSampled, [Next]_vars PROVE CutsSampled'
  OBVIOUS
<1>1. ASSUME mode' = mode, cut' = cut PROVE CutsSampled'
  BY <1>1 DEF CutsSampled
<1>2. ASSUME mode' = mode, cut' = NoCut PROVE CutsSampled'
  BY <1>2, Sizes DEF CutsSampled, NoCut
<1>3. table \subseteq 0 .. Seg /\ Seg \in Nat /\ burst \in Nat
  BY ConnAssumption DEF IInv, Typed
<1>4. ASSUME NEW n \in 1 .. MaxWrite, NEW target \in table, WritePadded(n, target)
      PROVE  CutsSampled'
  <2> DEFINE pending == Lengths(Packets(n))
             pad == PadBurst(pending, target)
             full == Lengths(Packets(n) \o pad)
             m == full % Seg
  <2>1. n \in Nat \ {0} /\ target \in 0 .. Seg
    BY <1>3, ConnAssumption
  <2>2. Packets(n) \in Seq(Frame) /\ pending \in Nat
    BY <2>1, PacketsCarry, LengthsNat
  <2> HIDE DEF pending
  <2>3. pad \in Seq(Frame)
        /\ \/ (pending + Lengths(pad)) % Seg = target % Seg
           \/ (pending + Lengths(pad)) % Seg = (target + Header) % Seg
    BY <2>1, <2>2, PadBurstFits
  <2>4. full = pending + Lengths(pad) /\ full \in Nat
    <3>1. Lengths(Packets(n) \o pad) = Lengths(Packets(n)) + Lengths(pad)
          /\ Packets(n) \o pad \in Seq(Frame)
      BY <2>2, <2>3, LengthsConcat
    <3>2. QED
      BY <3>1, LengthsNat DEF pending
  <2>5. cut' = [len |-> LastSegment(full), from |-> table] /\ mode # "paranoid" /\ mode' = mode
    BY <1>4 DEF WritePadded, Begin, envVars, pending
  <2> HIDE DEF full, pad
  <2>6. LastSegment(full) \in {LastSegment(target), LastSegment(target + Header)}
    BY <2>3, <2>4 DEF LastSegment
  <2>7. LastSegment(full) \in 1 .. Seg
    BY <2>4, LastSegmentOf
  <2>8. cut'.len = LastSegment(full) /\ cut'.from = table
    BY <2>5
  <2>9. \E t \in cut'.from : cut'.len \in {LastSegment(t), LastSegment(t + Header)}
    BY <2>6, <2>8
  <2>10. cut'.len <= Seg
    BY <1>3, <2>7, <2>8
  <2>11. QED
    BY <2>5, <2>9, <2>10 DEF CutsSampled
<1>5. ASSUME NEW n, WriteParanoid(n) PROVE CutsSampled'
  BY <1>1, <1>5 DEF WriteParanoid, Begin, envVars
<1>6. CASE SampleZero
  <2>1. mode' = mode /\ mode = "paranoid"
    BY <1>6 DEF SampleZero, loopUnchanged, envVars
  <2>2. cut' = cut \/ cut' = [len |-> Least(burst, Seg), from |-> {0}]
    BY <1>6 DEF SampleZero
  <2>3. CASE cut' = [len |-> Least(burst, Seg), from |-> {0}]
    BY <1>3, <2>1, <2>3 DEF CutsSampled, Least
  <2>4. QED
    BY <1>1, <2>1, <2>2, <2>3
<1>7. ASSUME NEW t \in 0 .. Seg, Sample(t) PROVE CutsSampled'
  <2>1. mode' = mode /\ mode = "paranoid" /\ t \in table
    BY <1>7 DEF Sample, loopUnchanged, envVars
  <2>2. cut' = cut \/ cut' = [len |-> t, from |-> table]
    BY <1>7 DEF Sample
  <2>3. CASE cut' = [len |-> t, from |-> table]
    BY <1>3, <2>1, <2>3 DEF CutsSampled
  <2>4. QED
    BY <1>1, <2>1, <2>2, <2>3
<1>8. CASE Push \/ WriteFails
  BY <1>1, <1>2, <1>8 DEF Push, WriteFails, envVars
<1>9. CASE \/ Segment \/ WriteDone \/ Shutdown \/ Reseed \/ Reader \/ ReadEnds \/ Damage
           \/ UNCHANGED vars
  BY <1>1, <1>9 DEF Segment, WriteDone, Shutdown, Reseed, Reader, ReadEnds, Damage,
     Leftover, ReadReturns, Decode, DecodeDone, ReadBytes, readerUnchanged,
     loopUnchanged, envVars, writerVars, vars
<1>10. QED
  BY <1>4, <1>5, <1>6, <1>7, <1>8, <1>9 DEF Next, Write, Writer

\* conn.rs write_all: what is put on the wire has a length of the tables, for
\* every table, or one longer by a header where the padding could not fit; and no
\* padding asks make_packet for more than a frame.
THEOREM WritesShaped == Spec => []Shaped
<1>1. Init => CutsSampled
  BY Sizes DEF Init, CutsSampled, NoCut
<1>2. ASSUME IInv PROVE FramesFit
  <2> SUFFICES ASSUME NEW i \in DOMAIN frames PROVE frames[i].len <= Seg
    BY DEF FramesFit
  <2>1. frames \in Seq(Frame)
    BY <1>2 DEF IInv, Typed
  <2>2. frames[i] \in Frame
    BY <2>1
  <2>3. QED
    BY <2>2, Sizes DEF Frame
<1>3. IInv /\ CutsSampled => Shaped
  BY <1>2 DEF Shaped
<1>4. QED
  BY <1>1, <1>3, ConnInvariant, CutsStep, PTL DEF Spec
=============================================================================
