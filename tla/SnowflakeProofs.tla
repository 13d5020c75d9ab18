------------------------------ MODULE SnowflakeProofs ------------------------------
(***************************************************************************)
(* Proofs about the snowflake client.  The pool by itself (every step of   *)
(* Pool!Next, for every capacity and every finite set of identities), then *)
(* the session: every step of the composition is a step of the pool or     *)
(* leaves it alone, so what holds of the pool holds of the session; the    *)
(* dial loop owns its carrier alone and never stops with the packet        *)
(* connection open.  Last the rendezvous, for every plan, framing and      *)
(* number of retries: what the broker hears of the NAT, which answer       *)
(* belongs to which request and when a request is sent again.              *)
(***************************************************************************)
EXTENDS SnowflakeSession, Rendezvous, SequenceTheorems, FiniteSetTheorems, TLAPS

(* The pool *)

\* The pool's instance of FiniteSets counts as FiniteSets does.
LEMMA SameCardinality == \A S : Pool!Cardinality(S) = Cardinality(S)
BY DEF Pool!Cardinality, Cardinality

\* The live snowflakes form a finite set, and so does every part of them.
LEMMA LiveFinite ==
  /\ IsFiniteSet(Pool!Live)
  /\ Cardinality(Pool!Live) \in Nat
  /\ \A S \in SUBSET Pool!Live : /\ IsFiniteSet(S)
                            /\ Cardinality(S) \in Nat
                            /\ Cardinality(S) <= Cardinality(Pool!Live)
<1>1. Pool!Live \in SUBSET Peer
  BY DEF Pool!Live
<1>2. IsFiniteSet(Pool!Live)
  BY <1>1, FS_Subset, PeersAssumption
<1>3. QED
  BY <1>2, FS_Subset, FS_CardinalityType

\* A subset of a finite set is no larger.
LEMMA SmallerOrEqual ==
  ASSUME NEW S, NEW T, IsFiniteSet(S), T \subseteq S
  PROVE  /\ IsFiniteSet(T)
         /\ Cardinality(T) \in Nat
         /\ Cardinality(S) \in Nat
         /\ Cardinality(T) <= Cardinality(S)
<1>1. T \in SUBSET S
  OBVIOUS
<1>2. QED
  BY <1>1, FS_Subset, FS_CardinalityType

LEMMA PoolTypePreserved ==
  Pool!TypeOK /\ [Pool!Next]_(Pool!vars)
  => Pool!TypeOK'
<1> SUFFICES ASSUME Pool!TypeOK, [Pool!Next]_(Pool!vars) PROVE Pool!TypeOK'
  OBVIOUS
<1> USE DEF Pool!TypeOK, Pool!CollectorStates
<1>1. CASE Pool!CollectMelted      BY <1>1 DEF Pool!CollectMelted
<1>2. CASE Pool!CollectAtCapacity  BY <1>2 DEF Pool!CollectAtCapacity, Pool!Counted
<1>3. CASE Pool!CollectStart       BY <1>3 DEF Pool!CollectStart, Pool!Counted
<1>4. CASE Pool!RendezvousFailed   BY <1>4 DEF Pool!RendezvousFailed
<1>5. ASSUME NEW p \in Peer, Pool!StartPeer(p) PROVE Pool!TypeOK'
  BY <1>5 DEF Pool!StartPeer
<1>6. CASE Pool!OpenFailed         BY <1>6 DEF Pool!OpenFailed, Pool!Closing
<1>7. CASE Pool!Opened             BY <1>7 DEF Pool!Opened
<1>8. CASE Pool!CatchMelted        BY <1>8 DEF Pool!CatchMelted, Pool!Closing
<1>9. CASE Pool!Push               BY <1>9 DEF Pool!Push
<1>10. CASE Pool!SendOk
  <2>1. PICK p \in hand : chan' = Append(chan, p)
    BY <1>10 DEF Pool!SendOk
  <2>2. p \in Peer
    BY <2>1
  <2>3. chan' \in Seq(Peer) /\ Len(chan') = Len(chan) + 1
    BY <2>1, <2>2
  <2>4. Len(chan) \in Nat /\ Len(chan) < Max /\ Max \in Nat
    BY <1>10, PeersAssumption DEF Pool!SendOk
  <2>5. QED
    BY <1>10, <2>3, <2>4 DEF Pool!SendOk
<1>11. CASE Pool!SendMelted        BY <1>11 DEF Pool!SendMelted, Pool!Closing
<1>12. CASE Pool!Retry             BY <1>12 DEF Pool!Retry
<1>13. CASE Pool!Stop              BY <1>13 DEF Pool!Stop
<1>14. ASSUME chan # <<>>, chan' = Tail(chan),
              UNCHANGED <<link, active, collector, hand, melt, drained, dying>>
       PROVE  Pool!TypeOK'
  <2>1. chan' \in Seq(Peer) /\ Len(chan') = Len(chan) - 1
    BY <1>14
  <2>2. Len(chan) \in Nat /\ Max \in Nat
    BY PeersAssumption
  <2>3. QED
    BY <1>14, <2>1, <2>2
<1>15. CASE Pool!PopDiscard        BY <1>14, <1>15 DEF Pool!PopDiscard
<1>16. ASSUME NEW p \in Peer, Pool!PopTake(p) PROVE Pool!TypeOK'
  BY <1>14, <1>16 DEF Pool!PopTake
<1>17. ASSUME NEW p \in Peer, Pool!Close(p) PROVE Pool!TypeOK'
  BY <1>17 DEF Pool!Close, Pool!Closing
<1>18. CASE Pool!EndMelt           BY <1>18 DEF Pool!EndMelt
<1>19. CASE Pool!EndDrain          BY <1>19 DEF Pool!EndDrain
<1>20. ASSUME NEW p \in Peer, Pool!EndClose(p) PROVE Pool!TypeOK'
  BY <1>20 DEF Pool!EndClose, Pool!Closing
<1>21. CASE UNCHANGED Pool!vars    BY <1>21 DEF Pool!vars
<1>22. QED
  BY <1>1, <1>2, <1>3, <1>4, <1>5, <1>6, <1>7, <1>8, <1>9, <1>10, <1>11,
     <1>12, <1>13, <1>15, <1>16, <1>17, <1>18, <1>19, <1>20, <1>21
     DEF Pool!Next, Pool!Collect, Pool!End

LEMMA PoolInitTyped == Pool!Init => Pool!TypeOK
<1>1. <<>> \in Seq(Peer) /\ Len(<<>>) = 0 /\ 0 <= Max
  BY PeersAssumption
<1>2. QED
  BY <1>1 DEF Pool!Init, Pool!TypeOK, Pool!CollectorStates

\* client.rs Peers: the pool's state keeps its shape; the channel never holds
\* more than `max` snowflakes.
THEOREM PoolTypeCorrect == Pool!Spec => []Pool!TypeOK
BY PoolInitTyped, PoolTypePreserved, PTL DEF Pool!Spec

-----------------------------------------------------------------------------
\* Every step but StartPeer only removes live snowflakes.
LEMMA LiveStep ==
  ASSUME Pool!TypeOK, Pool!HandInv, [Pool!Next]_(Pool!vars)
  PROVE  \/ Pool!Live' \subseteq Pool!Live
         \/ \E p \in Peer : Pool!StartPeer(p) /\ p \notin Pool!Live /\ Pool!Live' = Pool!Live \cup {p}
<1> USE DEF Pool!TypeOK, Pool!Live
<1>1. ASSUME UNCHANGED link PROVE Pool!Live' \subseteq Pool!Live
  BY <1>1
<1>2. ASSUME NEW S \in SUBSET Peer, link' = Pool!Closing(S)
      PROVE  Pool!Live' \subseteq Pool!Live
  BY <1>2 DEF Pool!Closing
<1>3. ASSUME NEW p \in Peer, Pool!StartPeer(p)
      PROVE  p \notin Pool!Live /\ Pool!Live' = Pool!Live \cup {p}
  <2>1. p \notin Pool!Live
    BY <1>3 DEF Pool!StartPeer, Pool!Unused
  <2>2. \A q \in Peer : link'[q] = IF q = p THEN "opening" ELSE link[q]
    BY <1>3 DEF Pool!StartPeer
  <2>3. QED
    BY <2>1, <2>2
<1>4. CASE Pool!Opened
  BY <1>4 DEF Pool!Opened
<1>5. CASE Pool!OpenFailed \/ Pool!CatchMelted \/ Pool!SendMelted
  BY <1>2, <1>5 DEF Pool!OpenFailed, Pool!CatchMelted, Pool!SendMelted
<1>6. CASE \E p \in Peer : Pool!Close(p) \/ Pool!EndClose(p)
  BY <1>2, <1>6 DEF Pool!Close, Pool!EndClose
<1>7. CASE \/ Pool!CollectMelted \/ Pool!CollectAtCapacity \/ Pool!CollectStart
           \/ Pool!RendezvousFailed \/ Pool!Push \/ Pool!SendOk \/ Pool!Retry \/ Pool!Stop
           \/ Pool!PopDiscard \/ Pool!EndMelt \/ Pool!EndDrain
           \/ \E p \in Peer : Pool!PopTake(p)
           \/ UNCHANGED Pool!vars
  BY <1>1, <1>7 DEF Pool!CollectMelted, Pool!CollectAtCapacity,
     Pool!CollectStart, Pool!RendezvousFailed, Pool!Push, Pool!SendOk,
     Pool!Retry, Pool!Stop, Pool!PopDiscard, Pool!EndMelt, Pool!EndDrain,
     Pool!PopTake, Pool!vars
<1>8. QED
  BY <1>3, <1>4, <1>5, <1>6, <1>7 DEF Pool!Next, Pool!Collect, Pool!End

\* collect's hands hold exactly the snowflake it is handling.
LEMMA HandPreserved ==
  Pool!TypeOK /\ Pool!HandInv /\ [Pool!Next]_(Pool!vars)
  => Pool!HandInv'
<1> SUFFICES ASSUME Pool!TypeOK, Pool!HandInv, [Pool!Next]_(Pool!vars)
             PROVE  Pool!HandInv'
  OBVIOUS
<1> USE DEF Pool!HandInv, Pool!Handling
<1>1. CASE Pool!Collect
  <2> USE DEF Pool!CollectMelted, Pool!CollectAtCapacity, Pool!CollectStart,
     Pool!RendezvousFailed, Pool!OpenFailed, Pool!Opened, Pool!CatchMelted,
     Pool!Push, Pool!SendOk, Pool!SendMelted, Pool!Retry, Pool!Stop,
     Pool!StartPeer
  <2>1. QED
    BY <1>1 DEF Pool!Collect
<1>2. CASE UNCHANGED <<collector, hand>>
  BY <1>2
<1>3. QED
  BY <1>1, <1>2 DEF Pool!Next, Pool!End, Pool!EndMelt, Pool!EndDrain,
     Pool!EndClose, Pool!PopDiscard, Pool!PopTake, Pool!Close, Pool!vars

LEMMA LiveCountedPreserved ==
  Pool!TypeOK /\ Pool!HandInv /\ Pool!PushedInv /\ Pool!LiveCounted /\ [Pool!Next]_(Pool!vars) => Pool!LiveCounted'
<1> SUFFICES ASSUME Pool!TypeOK, Pool!HandInv, Pool!PushedInv, Pool!LiveCounted, [Pool!Next]_(Pool!vars),
                    ~drained'
             PROVE  Pool!Live' \subseteq active' \cup hand'
  BY DEF Pool!LiveCounted
<1> USE DEF Pool!LiveCounted, Pool!TypeOK, Pool!Live
<1>1. CASE Pool!Collect
  <2>1. CASE Pool!CollectMelted \/ Pool!RendezvousFailed \/ Pool!Retry \/ Pool!Stop
    BY <2>1 DEF Pool!CollectMelted, Pool!RendezvousFailed, Pool!Retry,
       Pool!Stop
  <2>2. CASE Pool!CollectAtCapacity \/ Pool!CollectStart
    BY <2>2 DEF Pool!CollectAtCapacity, Pool!CollectStart, Pool!Counted
  <2>3. ASSUME NEW p \in Peer, Pool!StartPeer(p)
        PROVE  Pool!Live' \subseteq active' \cup hand'
    BY <2>3 DEF Pool!StartPeer, Pool!HandInv, Pool!Handling
  <2>4. CASE Pool!OpenFailed \/ Pool!CatchMelted \/ Pool!SendMelted
    BY <2>4 DEF Pool!OpenFailed, Pool!CatchMelted, Pool!SendMelted,
       Pool!Closing
  <2>5. CASE Pool!Opened
    BY <2>5 DEF Pool!Opened
  <2>6. CASE Pool!Push
    BY <2>6 DEF Pool!Push
  <2>7. CASE Pool!SendOk
    BY <2>7 DEF Pool!SendOk, Pool!PushedInv
  <2>8. QED
    BY <1>1, <2>1, <2>2, <2>3, <2>4, <2>5, <2>6, <2>7 DEF Pool!Collect
<1>2. CASE Pool!End
  BY <1>2 DEF Pool!End, Pool!EndMelt, Pool!EndDrain, Pool!EndClose,
     Pool!Closing
<1>3. CASE Pool!PopDiscard \/ UNCHANGED Pool!vars
  BY <1>3 DEF Pool!PopDiscard, Pool!vars
<1>4. ASSUME NEW p \in Peer, Pool!PopTake(p) \/ Pool!Close(p)
      PROVE  Pool!Live' \subseteq active' \cup hand'
  BY <1>4 DEF Pool!PopTake, Pool!Close, Pool!Closing
<1>5. QED
  BY <1>1, <1>2, <1>3, <1>4 DEF Pool!Next

LEMMA PushedPreserved ==
  Pool!TypeOK /\ Pool!HandInv /\ Pool!PushedInv /\ [Pool!Next]_(Pool!vars)
  => Pool!PushedInv'
<1> SUFFICES ASSUME Pool!TypeOK, Pool!HandInv, Pool!PushedInv, [Pool!Next]_(Pool!vars),
                    collector' = "sending", ~drained'
             PROVE  hand' \subseteq active'
  BY DEF Pool!PushedInv
<1>1. CASE Pool!Push
  BY <1>1 DEF Pool!Push
<1>2. CASE UNCHANGED <<collector, hand, active, drained>>
  BY <1>2 DEF Pool!PushedInv
<1>3. CASE Pool!EndDrain
  BY <1>3 DEF Pool!EndDrain
<1>4. QED
  BY <1>1, <1>2, <1>3 DEF Pool!Next, Pool!Collect, Pool!End, Pool!vars,
     Pool!CollectMelted, Pool!CollectAtCapacity, Pool!CollectStart,
     Pool!RendezvousFailed, Pool!StartPeer, Pool!OpenFailed, Pool!Opened,
     Pool!CatchMelted, Pool!SendOk, Pool!SendMelted, Pool!Retry, Pool!Stop,
     Pool!PopDiscard, Pool!PopTake, Pool!Close, Pool!EndMelt, Pool!EndClose

\* The room for a catch is established by the count and kept by every step;
\* with it the number of live snowflakes stays within the capacity.
LEMMA RoomPreserved ==
  Pool!IInv /\ [Pool!Next]_(Pool!vars)
  => Pool!RoomInv' /\ Pool!Capacity'
<1> SUFFICES ASSUME Pool!IInv, [Pool!Next]_(Pool!vars)
             PROVE  Pool!RoomInv' /\ Pool!Capacity'
  OBVIOUS
<1> USE DEF Pool!IInv, Pool!Capacity, Pool!RoomInv
<1>1. Max \in Nat
  BY PeersAssumption
<1>2. CASE \E p \in Peer : Pool!StartPeer(p) /\ p \notin Pool!Live /\ Pool!Live' = Pool!Live \cup {p}
  <2>1. PICK p \in Peer : Pool!StartPeer(p) /\ p \notin Pool!Live /\ Pool!Live' = Pool!Live \cup {p}
    BY <1>2
  <2>2. hand = {} /\ hand' = {p} /\ collector = "rendezvous"
    BY <2>1 DEF Pool!StartPeer, Pool!HandInv, Pool!Handling
  <2>3. Pool!Live \ hand = Pool!Live /\ Pool!Live' \ hand' = Pool!Live
    BY <2>1, <2>2
  <2>4. Cardinality(Pool!Live) < Max
    BY SameCardinality, <2>2, <2>3
  <2>5. Cardinality(Pool!Live') = Cardinality(Pool!Live) + 1
    BY <2>1, LiveFinite, FS_AddElement
  <2>6. QED
    BY SameCardinality, <1>1, <2>3, <2>4, <2>5, LiveFinite
<1>3. CASE Pool!Live' \subseteq Pool!Live
  <2>1. Cardinality(Pool!Live') <= Cardinality(Pool!Live)
    BY <1>3, LiveFinite
  <2>2. Pool!Capacity'
    BY SameCardinality, <1>1, <1>3, <2>1, LiveFinite
  <2>3. ASSUME collector \in Pool!Handling \cup {"rendezvous"}, hand' = hand
        PROVE  Pool!RoomInv'
    <3>1. Pool!Live' \ hand' \subseteq Pool!Live \ hand
      BY <1>3, <2>3
    <3>2. Cardinality(Pool!Live' \ hand') <= Cardinality(Pool!Live \ hand)
      BY <3>1, LiveFinite, SmallerOrEqual
    <3>3. QED
      BY SameCardinality, <1>1, <1>3, <2>3, <3>1, <3>2, LiveFinite
  <2>4. CASE Pool!CollectStart
    <3>1. ~drained /\ hand = {} /\ hand' = {} /\ Pool!Live' = Pool!Live
      BY <2>4 DEF Pool!CollectStart, Pool!SurvivorInv, Pool!HandInv,
         Pool!Handling, Pool!Live
    <3>2. Pool!Live = Pool!Counted
      BY <3>1 DEF Pool!LiveCounted, Pool!Counted
    <3>3. Cardinality(Pool!Counted) < Max
      <4>1. ~(Cardinality(Pool!Counted) >= Max)
        BY SameCardinality, <2>4 DEF Pool!CollectStart, Pool!AtCapacity
      <4>2. QED
        BY <1>1, <4>1, <3>2, LiveFinite
    <3>4. Pool!Live' \ hand' = Pool!Counted
      BY <3>1, <3>2
    <3>5. QED
      BY SameCardinality, <2>2, <3>3, <3>4
  <2>5. CASE collector' \notin Pool!Handling \cup {"rendezvous"}
    BY <2>2, <2>5
  <2>6. CASE UNCHANGED <<collector, hand>>
    BY <2>2, <2>3, <2>6
  <2>7. CASE Pool!Collect /\ ~Pool!CollectStart
    <3>1. CASE Pool!Opened \/ Pool!Push
      BY <2>2, <2>3, <3>1 DEF Pool!Opened, Pool!Push, Pool!Handling
    <3>2. CASE \E p \in Peer : Pool!StartPeer(p)
      <4>1. PICK p \in Peer : Pool!StartPeer(p)
        BY <3>2
      <4>2. p \notin Pool!Live /\ p \in Pool!Live'
        BY <4>1 DEF Pool!StartPeer, Pool!Unused, Pool!Live, Pool!TypeOK
      <4>3. QED
        BY <1>3, <4>2
    <3>3. CASE \/ Pool!CollectMelted \/ Pool!CollectAtCapacity \/ Pool!RendezvousFailed
               \/ Pool!OpenFailed \/ Pool!CatchMelted \/ Pool!SendOk \/ Pool!SendMelted
               \/ Pool!Retry \/ Pool!Stop
      BY <3>3, <2>5 DEF Pool!CollectMelted, Pool!CollectAtCapacity,
         Pool!RendezvousFailed, Pool!OpenFailed, Pool!CatchMelted, Pool!SendOk,
         Pool!SendMelted, Pool!Retry, Pool!Stop, Pool!Handling
    <3>4. QED
      BY <2>7, <3>1, <3>2, <3>3 DEF Pool!Collect
  <2>8. QED
    BY <2>2, <2>4, <2>6, <2>7 DEF Pool!Next, Pool!End, Pool!EndMelt,
       Pool!EndDrain, Pool!EndClose, Pool!PopDiscard, Pool!PopTake, Pool!Close,
       Pool!vars
<1>4. QED
  BY <1>2, <1>3, LiveStep DEF Pool!IInv

LEMMA SurvivorPreserved ==
  Pool!IInv /\ [Pool!Next]_(Pool!vars)
  => Pool!SurvivorInv'
<1> SUFFICES ASSUME Pool!IInv, [Pool!Next]_(Pool!vars), drained'
             PROVE  Pool!SurvivorInv'
  BY DEF Pool!SurvivorInv
<1> USE DEF Pool!IInv, Pool!SurvivorInv, Pool!OneSurvivor
<1> DEFINE Busy == Pool!Handling \cup {"rendezvous"}
<1>1. CASE Pool!EndDrain
  <2>1. Pool!Live \subseteq active \cup hand /\ ~drained /\ Pool!Live' = Pool!Live
    BY <1>1 DEF Pool!EndDrain, Pool!LiveCounted, Pool!Live
  <2>2. Pool!Live' \ dying' \subseteq hand /\ hand' = hand /\ collector' = collector
    BY <1>1, <2>1 DEF Pool!EndDrain
  <2>3. \A p, q \in hand : p = q
    BY DEF Pool!HandInv
  <2>4. QED
    BY <1>1, <2>2, <2>3 DEF Pool!EndDrain
<1>2. CASE drained /\ \E p \in Peer : Pool!StartPeer(p) /\ p \notin Pool!Live
                                      /\ Pool!Live' = Pool!Live \cup {p}
  <2>1. PICK p \in Peer : Pool!StartPeer(p) /\ p \notin Pool!Live /\ Pool!Live' = Pool!Live \cup {p}
    BY <1>2
  <2>2. Pool!Live \subseteq dying /\ hand' = {p} /\ dying' = dying /\ melt'
    BY <1>2, <2>1 DEF Pool!StartPeer, Pool!HandInv, Pool!Handling
  <2>3. Pool!Live' \ dying' \subseteq {p}
    BY <2>1, <2>2
  <2>4. QED
    BY <2>2, <2>3
<1>3. CASE drained /\ Pool!Live' \subseteq Pool!Live /\ ~Pool!EndDrain
  <2>1. \/ dying' = dying
        \/ \E p \in Peer : Pool!EndClose(p) /\ p \notin Pool!Live'
    BY <1>3 DEF Pool!Next, Pool!Collect, Pool!End, Pool!vars,
       Pool!CollectMelted, Pool!CollectAtCapacity, Pool!CollectStart,
       Pool!RendezvousFailed, Pool!StartPeer, Pool!OpenFailed, Pool!Opened,
       Pool!CatchMelted, Pool!Push, Pool!SendOk, Pool!SendMelted, Pool!Retry,
       Pool!Stop, Pool!PopDiscard, Pool!PopTake, Pool!Close, Pool!EndMelt,
       Pool!EndClose, Pool!Closing, Pool!Live
  <2>2. Pool!Live' \ dying' \subseteq Pool!Live \ dying
    BY <1>3, <2>1 DEF Pool!EndClose
  <2>3. melt /\ melt'
    BY <1>3 DEF Pool!Next, Pool!Collect, Pool!End, Pool!vars,
       Pool!CollectMelted, Pool!CollectAtCapacity, Pool!CollectStart,
       Pool!RendezvousFailed, Pool!StartPeer, Pool!OpenFailed, Pool!Opened,
       Pool!CatchMelted, Pool!Push, Pool!SendOk, Pool!SendMelted, Pool!Retry,
       Pool!Stop, Pool!PopDiscard, Pool!PopTake, Pool!Close, Pool!EndMelt,
       Pool!EndClose
  <2>4. ASSUME collector' \in Busy
        PROVE  collector \in Busy /\ hand \subseteq hand'
    <3>1. CASE \E p \in Peer : Pool!StartPeer(p)
      BY <3>1 DEF Pool!StartPeer, Pool!HandInv, Pool!Handling
    <3>2. CASE Pool!CollectStart \/ Pool!CollectMelted \/ Pool!CollectAtCapacity
                \/ Pool!RendezvousFailed \/ Pool!OpenFailed \/ Pool!CatchMelted \/ Pool!SendOk
                \/ Pool!SendMelted \/ Pool!Retry \/ Pool!Stop
      BY <2>3, <2>4, <3>2 DEF Pool!CollectStart, Pool!CollectMelted,
         Pool!CollectAtCapacity, Pool!RendezvousFailed, Pool!OpenFailed,
         Pool!CatchMelted, Pool!SendOk, Pool!SendMelted, Pool!Retry, Pool!Stop,
         Pool!Handling
    <3>3. CASE Pool!Opened \/ Pool!Push \/ UNCHANGED <<collector, hand>>
      BY <2>4, <3>3 DEF Pool!Opened, Pool!Push, Pool!Handling
    <3>4. QED
      BY <3>1, <3>2, <3>3 DEF Pool!Next, Pool!Collect, Pool!End, Pool!vars,
         Pool!PopDiscard, Pool!PopTake, Pool!Close, Pool!EndMelt,
         Pool!EndDrain, Pool!EndClose
  <2>5. QED
    BY <1>3, <2>2, <2>3, <2>4
<1>4. CASE Pool!EndDrain \/ drained
  BY <1>1, <1>2, <1>3, <1>4, LiveStep
<1>5. drained \/ Pool!EndDrain
  BY DEF Pool!Next, Pool!Collect, Pool!End, Pool!vars, Pool!CollectMelted,
     Pool!CollectAtCapacity, Pool!CollectStart, Pool!RendezvousFailed,
     Pool!StartPeer, Pool!OpenFailed, Pool!Opened, Pool!CatchMelted, Pool!Push,
     Pool!SendOk, Pool!SendMelted, Pool!Retry, Pool!Stop, Pool!PopDiscard,
     Pool!PopTake, Pool!Close, Pool!EndMelt, Pool!EndClose
<1>6. QED
  BY <1>4, <1>5

-----------------------------------------------------------------------------
\* client.rs Peers: the strengthened invariant holds of every pool.
THEOREM PoolInvariance == Pool!Spec => []Pool!IInv
<1>1. Pool!Init => Pool!IInv
  <2>1. Pool!Init => Pool!TypeOK
    BY PoolInitTyped
  <2>2. Pool!Init => Pool!Live = {}
    BY DEF Pool!Init, Pool!Live
  <2>3. Pool!Init => Cardinality(Pool!Live) <= Max
    BY <2>2, FS_EmptySet, PeersAssumption
  <2>4. QED
    BY SameCardinality, <2>1, <2>2, <2>3 DEF Pool!Init, Pool!IInv,
       Pool!HandInv, Pool!RoomInv, Pool!Capacity, Pool!PushedInv,
       Pool!LiveCounted, Pool!SurvivorInv, Pool!Handling
<1>2. Pool!IInv /\ [Pool!Next]_(Pool!vars) => Pool!IInv'
  BY PoolTypePreserved, HandPreserved, RoomPreserved, PushedPreserved,
     LiveCountedPreserved, SurvivorPreserved DEF Pool!IInv
<1>3. QED
  BY <1>1, <1>2, PTL DEF Pool!Spec

\* client.rs collect: never more than `max` snowflakes connecting or
\* connected, whatever end(), pop and closes do meanwhile.
THEOREM CapacityRespected == Pool!Spec => []Pool!Capacity
<1>1. Pool!IInv => Pool!Capacity
  BY DEF Pool!IInv
<1>2. QED
  BY <1>1, PoolInvariance, PTL

\* client.rs end: of the snowflakes it did not take, at most one is live.
THEOREM EndLeavesOne == Pool!Spec => []Pool!OneSurvivor
<1>1. Pool!IInv => Pool!OneSurvivor
  BY DEF Pool!IInv, Pool!SurvivorInv, Pool!OneSurvivor
<1>2. QED
  BY <1>1, PoolInvariance, PTL

\* client.rs count: until end() empties `active`, count sees every snowflake
\* that could be open.
THEOREM CountSeesAll == Pool!Spec => []Pool!LiveCounted
<1>1. Pool!IInv => Pool!LiveCounted
  BY DEF Pool!IInv
<1>2. QED
  BY <1>1, PoolInvariance, PTL

-----------------------------------------------------------------------------
(* The session *)

\* The dial loop holds at most one snowflake, and links have their type.
OneCarrier == carrier = {} \/ \E p \in Peer : carrier = {p}

LinkTyped == link \in [Peer -> {"closed", "opening", "open"}]

LEMMA LinkTypedStep == LinkTyped /\ [Next]_vars => LinkTyped'
<1> SUFFICES ASSUME LinkTyped, [Next]_vars PROVE LinkTyped'
  OBVIOUS
<1> USE DEF LinkTyped
<1>1. CASE UNCHANGED link
  BY <1>1
<1>2. ASSUME NEW S, link' = Pool!Closing(S) PROVE LinkTyped'
  BY <1>2 DEF Pool!Closing
<1>3. CASE ConnectLoop
  BY <1>1, <1>2, <1>3 DEF ConnectLoop, StartPeer, Pool!CollectMelted,
     Pool!CollectAtCapacity, Pool!CollectStart, Pool!RendezvousFailed,
     Pool!StartPeer, Pool!OpenFailed, Pool!Opened, Pool!CatchMelted,
     Pool!Push, Pool!SendOk, Pool!SendMelted, Pool!Retry, Pool!Stop
<1>4. QED
  BY <1>1, <1>2, <1>3 DEF Next, vars, poolVars, DialLoop,
     Owner, Die, DialStart, DialAborted, PopDiscard, PopTake, PopMelted,
     DialError, WriteToken, WriteClientId, WriteFailed, ExchangeEnd, DropConn,
     OpenStreamFailed, EndPool, TeardownDone, Pool!PopDiscard, Pool!PopTake,
     Pool!Close, Pool!End, Pool!EndMelt, Pool!EndDrain, Pool!EndClose

LEMMA OneCarrierStep == OneCarrier /\ [Next]_vars => OneCarrier'
<1> SUFFICES ASSUME OneCarrier, [Next]_vars PROVE OneCarrier'
  OBVIOUS
<1>1. CASE UNCHANGED carrier
  BY <1>1 DEF OneCarrier
<1>2. CASE carrier' = {}
  BY <1>2 DEF OneCarrier
<1>3. ASSUME NEW p \in Peer, PopTake(p) PROVE OneCarrier'
  BY <1>3 DEF PopTake, OneCarrier
<1>4. QED
  BY <1>1, <1>2, <1>3 DEF Next, vars, sessionVars, ConnectLoop, DialLoop,
     Owner, Die, DialStart, DialAborted, PopDiscard, PopMelted, DialError,
     WriteToken, WriteClientId, WriteFailed, ExchangeEnd, DropConn,
     OpenStreamFailed, EndPool, TeardownDone

\* new_session and dial_loop touch the pool only through collect, pop, end
\* and Peer::close.
LEMMA PoolStep ==
  OneCarrier /\ LinkTyped /\ [Next]_vars
  => [Pool!Next]_(Pool!vars)
<1> SUFFICES ASSUME OneCarrier, LinkTyped, [Next]_vars
             PROVE  [Pool!Next]_(Pool!vars)
  OBVIOUS
<1>1. CASE ConnectLoop
  BY <1>1 DEF ConnectLoop, StartPeer, Pool!Next, Pool!Collect
<1>2. CASE \E p \in Peer : Die(p)
  BY <1>2 DEF Die, Pool!Next
<1>3. CASE PopDiscard \/ \E p \in Peer : PopTake(p)
  BY <1>3 DEF PopDiscard, PopTake, Pool!Next
<1>4. CASE EndPool
  BY <1>4 DEF EndPool, Pool!Next
<1>5. CASE ExchangeEnd
  <2>1. carrier \subseteq Peer
    BY DEF OneCarrier
  <2>2. CASE \E p \in Peer : carrier = {p} /\ p \in Pool!Live
    BY <1>5, <2>2 DEF ExchangeEnd, Pool!Next, Pool!Close
  <2>3. CASE carrier \cap Pool!Live = {}
    <3>1. link' = Pool!Closing(carrier) /\ carrier \subseteq Peer
      BY <1>5, <2>1 DEF ExchangeEnd
    <3>2. \A p \in Peer : p \in carrier => link[p] = "closed"
      BY <2>3, <3>1 DEF Pool!Live
    <3>3. link' = link
      BY <3>1, <3>2 DEF LinkTyped, Pool!Closing
    <3>4. QED
      BY <1>5, <3>3 DEF ExchangeEnd, Pool!vars
  <2>4. QED
    BY <2>2, <2>3 DEF OneCarrier
<1>6. CASE UNCHANGED poolVars
  BY <1>6 DEF poolVars, Pool!vars
<1>7. QED
  BY <1>1, <1>2, <1>3, <1>4, <1>5, <1>6 DEF Next, DialLoop, Owner, vars,
     DialStart, DialAborted, PopMelted, DialError, WriteToken, WriteClientId,
     WriteFailed, DropConn, OpenStreamFailed, TeardownDone

\* client.rs new_session: a session's pool behaves as a pool: the session
\* implements Peers.
THEOREM SessionImplementsPool == Spec => PoolSpec
<1>1. Init => OneCarrier /\ LinkTyped /\ Pool!Init
  BY DEF Init, OneCarrier, LinkTyped, Pool!Init
<1>2. OneCarrier /\ LinkTyped /\ [Next]_vars
        => OneCarrier' /\ LinkTyped' /\ [Pool!Next]_(Pool!vars)
  BY OneCarrierStep, LinkTypedStep, PoolStep
<1>3. QED
  BY <1>1, <1>2, PTL DEF Spec, PoolSpec, Pool!Spec

-----------------------------------------------------------------------------
(* Who holds a snowflake.                                                  *)

Waiting == 1 .. Len(chan)

\* The dial loop has a carrier only between its pop and the end of the
\* exchange, and stops only when the packet connection is closed.
DialInv ==
  /\ dial \in {"check", "dialing", "stopped"} => carrier = {}
  /\ dial = "stopped" => pconn # "open"

\* A snowflake is in one place at a time: the dial loop, collect, or a place
\* of the channel of its own.
PlacesInv ==
  /\ chan \in Seq(Peer)
  /\ hand \subseteq Peer
  /\ \A i, j \in Waiting : chan[i] = chan[j] => i = j
  /\ \A i \in Waiting : chan[i] \notin carrier \cup hand
  /\ carrier \cap hand = {}

LEMMA DialInvStep == DialInv /\ [Next]_vars => DialInv'
<1> SUFFICES ASSUME DialInv, [Next]_vars PROVE DialInv'
  OBVIOUS
<1> USE DEF DialInv
<1>1. CASE UNCHANGED <<dial, carrier, pconn>>
  BY <1>1
<1>2. CASE DialLoop
  BY <1>2 DEF DialLoop, DialStart, DialAborted, PopDiscard, PopTake, PopMelted,
     DialError, WriteToken, WriteClientId, WriteFailed, ExchangeEnd, ClosedBy,
     sessionVars
<1>3. CASE Owner
  BY <1>3 DEF Owner, DropConn, OpenStreamFailed, EndPool, TeardownDone,
     ClosedBy, sessionVars
<1>4. QED
  BY <1>1, <1>2, <1>3 DEF Next, ConnectLoop, Die, vars, sessionVars

\* Taking the head of the channel leaves the others where they are.
LEMMA TailPlaces ==
  ASSUME PlacesInv, chan # <<>>, chan' = Tail(chan), hand' = hand,
         carrier' \in {carrier, {Head(chan)}},
         carrier' \cap hand = {}
  PROVE  PlacesInv'
<1>1. /\ Len(chan') = Len(chan) - 1
      /\ \A i \in 1 .. Len(chan') : i + 1 \in Waiting /\ chan'[i] = chan[i + 1]
      /\ chan' \in Seq(Peer)
      /\ Len(chan) \in Nat \ {0} /\ Head(chan) = chan[1]
  BY DEF PlacesInv, Waiting
<1>2. \A i \in 1 .. Len(chan') : chan'[i] # Head(chan)
  BY <1>1 DEF PlacesInv, Waiting
<1>3. \A i, j \in 1 .. Len(chan') : chan'[i] = chan'[j] => i = j
  <2> SUFFICES ASSUME NEW i \in 1 .. Len(chan'), NEW j \in 1 .. Len(chan'),
                      chan'[i] = chan'[j]
               PROVE  i = j
    OBVIOUS
  <2>1. i + 1 = j + 1
    BY <1>1 DEF PlacesInv
  <2>2. QED
    BY <2>1
<1>4. QED
  BY <1>1, <1>2, <1>3 DEF PlacesInv, Waiting

\* What collect sends was in its hands, and gets a place of its own.
LEMMA AppendPlaces ==
  ASSUME PlacesInv, NEW p \in hand, chan' = Append(chan, p), hand' = {},
         carrier' = carrier
  PROVE  PlacesInv'
<1>1. /\ chan' \in Seq(Peer) /\ Len(chan') = Len(chan) + 1
      /\ Len(chan) \in Nat
      /\ \A i \in Waiting : chan'[i] = chan[i]
      /\ chan'[Len(chan) + 1] = p
  BY DEF PlacesInv, Waiting
<1>2. \A i \in 1 .. Len(chan') : i \in Waiting \/ i = Len(chan) + 1
  BY <1>1 DEF Waiting
<1>3. \A i, j \in 1 .. Len(chan') : chan'[i] = chan'[j] => i = j
  BY <1>1, <1>2 DEF PlacesInv
<1>4. \A i \in 1 .. Len(chan') : chan'[i] \notin carrier'
  BY <1>1, <1>2 DEF PlacesInv
<1>5. QED
  BY <1>1, <1>3, <1>4 DEF PlacesInv, Waiting

LEMMA PlacesInvStep == DialInv /\ PlacesInv /\ [Next]_vars => PlacesInv'
<1> SUFFICES ASSUME DialInv, PlacesInv, [Next]_vars PROVE PlacesInv'
  OBVIOUS
<1>1. CASE UNCHANGED <<chan, hand, carrier>>
  BY <1>1 DEF PlacesInv, Waiting
<1>2. CASE chan' = chan /\ hand' \subseteq hand /\ carrier' \subseteq carrier
  BY <1>2 DEF PlacesInv, Waiting
<1>3. CASE ConnectLoop
  <2>1. ASSUME NEW p \in Peer, StartPeer(p) PROVE PlacesInv'
    BY <1>3, <2>1 DEF ConnectLoop, sessionVars, StartPeer, Pool!StartPeer,
       Pool!Unused, Pool!Queued, PlacesInv, Waiting
  <2>2. CASE Pool!SendOk
    BY <1>3, <2>2, AppendPlaces DEF ConnectLoop, sessionVars, Pool!SendOk
  <2>3. CASE UNCHANGED chan /\ (hand' = hand \/ hand' = {})
    BY <1>2, <1>3, <2>3 DEF ConnectLoop, sessionVars
  <2>4. QED
    BY <1>3, <2>1, <2>2, <2>3 DEF ConnectLoop, Pool!CollectMelted,
       Pool!CollectAtCapacity, Pool!CollectStart, Pool!RendezvousFailed,
       Pool!OpenFailed, Pool!Opened, Pool!CatchMelted, Pool!Push,
       Pool!SendMelted, Pool!Retry, Pool!Stop
<1>4. CASE PopDiscard
  BY <1>4, TailPlaces DEF PopDiscard, Pool!PopDiscard, sessionVars, PlacesInv
<1>5. ASSUME NEW p \in Peer, PopTake(p) PROVE PlacesInv'
  <2>1. chan # <<>> /\ p = Head(chan) /\ chan' = Tail(chan) /\ hand' = hand
        /\ carrier' = {p}
    BY <1>5 DEF PopTake, Pool!PopTake
  <2>2. Head(chan) \notin hand
    BY <2>1 DEF PlacesInv, Waiting
  <2>3. QED
    BY <2>1, <2>2, TailPlaces
<1>6. QED
  BY <1>1, <1>2, <1>3, <1>4, <1>5 DEF Next, vars, poolVars, sessionVars,
     DialLoop, Owner, Die, DialStart, DialAborted, PopMelted, DialError,
     WriteToken, WriteClientId, WriteFailed, ExchangeEnd, DropConn,
     OpenStreamFailed, EndPool, TeardownDone, Pool!Close, Pool!End,
     Pool!EndMelt, Pool!EndDrain, Pool!EndClose

\* As many snowflakes wait as the channel is long.
LEMMA QueuedCount == PlacesInv => Cardinality(Pool!Queued) = Len(chan)
<1> SUFFICES ASSUME PlacesInv PROVE Cardinality(Pool!Queued) = Len(chan)
  OBVIOUS
<1> DEFINE place == [i \in Waiting |-> chan[i]]
<1>1. Len(chan) \in Nat
  BY DEF PlacesInv
<1>2. IsFiniteSet(Waiting) /\ Cardinality(Waiting) = Len(chan)
  <2>1. /\ IsFiniteSet(1 .. Len(chan))
        /\ Cardinality(1 .. Len(chan)) = IF 1 > Len(chan) THEN 0 ELSE Len(chan) - 1 + 1
    BY <1>1, FS_Interval
  <2>2. QED
    BY <1>1, <2>1 DEF Waiting
<1>3. place \in Bijection(Waiting, Pool!Queued)
  BY DEF PlacesInv, Pool!Queued, Waiting, Bijection, Injection,
     IsInjective, Surjection
<1>4. ExistsBijection(Waiting, Pool!Queued)
  BY <1>3 DEF ExistsBijection
<1>5. QED
  BY <1>2, <1>4, FS_Bijection

LEMMA SessionInv == Spec => [](DialInv /\ PlacesInv)
<1>1. Init => DialInv /\ PlacesInv
  BY DEF Init, Pool!Init, DialInv, PlacesInv, Waiting
<1>2. QED
  BY <1>1, DialInvStep, PlacesInvStep, PTL DEF Spec

\* client.rs pop, turbotunnel.rs dial_loop: the dial loop owns its carrier
\* alone, whatever the capacity of the pool.
THEOREM CarrierAlone == Spec => []CarrierExclusive
<1>1. PlacesInv => CarrierExclusive
  BY QueuedCount DEF PlacesInv, CarrierExclusive, Pool!Queued, Waiting
<1>2. QED
  BY <1>1, SessionInv, PTL

\* turbotunnel.rs dial_loop: a session whose dial loop stopped is closed.
THEOREM StoppedClosed == Spec => []StoppedIsClosed
<1>1. DialInv => StoppedIsClosed
  BY DEF DialInv, StoppedIsClosed
<1>2. QED
  BY <1>1, SessionInv, PTL

-----------------------------------------------------------------------------

-----------------------------------------------------------------------------
(* The NAT type and the claim.                                             *)

\* The second request of a probe is out only after the first was seen at
\* address 1; nothing is received once the probe is done.
ProbeInv ==
  /\ real \in NatTypes
  /\ nat \in {"unknown", real}
  /\ probe.request \in {0, 1, 2}
  /\ probe.request = 0 => probe = Done /\ replies = {}
  /\ probe.request = 2 => mapped = 1

\* A connection under way whose claim is not what was known made it before any
\* claim failed; a claim that failed is remembered.
ClaimInv ==
  /\ peer # "rest" /\ sent # actual =>
       ~claimFailed /\ actual = "unknown" /\ sent = "unrestricted"
  /\ claimFailed \in BOOLEAN
  /\ spoofs \in Nat /\ spoofs <= 1
  /\ spoofs > 0 => claimFailed

LEMMA NextServerKeeps ==
  ASSUME ProbeInv, NextServer, UNCHANGED real
  PROVE  ProbeInv'
BY DEF ProbeInv, NextServer, Request, Done

\* nat.rs, stun.rs: a step of the probe or of the servers.
LEMMA ProbeKeeps ==
  ASSUME ProbeInv, Probe
  PROVE  ProbeInv'
<1>1. CASE ServerReplies
  <2>1. probe.request # 0
    <3>1. ASSUME probe.request = 0 PROVE FALSE
      BY <1>1, <3>1 DEF ServerReplies, ProbeInv
    <3>2. QED
      BY <3>1
  <2>2. QED
    BY <1>1, <2>1 DEF ServerReplies, ProbeInv, probeVars
<1>2. ASSUME NEW tx \in replies, Received(tx) PROVE ProbeInv'
  <2>1. probe.request # 0 /\ tx = probe
    BY <1>2 DEF Received, Expected, ProbeInv
  <2>2. CASE probe.request = 1 /\ able
    BY <1>2, <2>1, <2>2 DEF Received, ProbeInv, Seen, Request
  <2>3. CASE probe.request = 1 /\ ~able
    BY <1>2, <2>3, NextServerKeeps DEF Received
  <2>4. CASE probe.request = 2
    <3>1. mapped = 1 /\ Seen(tx) = IF real = "restricted" THEN 2 ELSE 1
      BY <2>1, <2>4 DEF ProbeInv, Seen
    <3>2. real \in {"restricted", "unrestricted"}
      BY NatTypesAssumption DEF ProbeInv
    <3>3. nat' = real
      BY <1>2, <2>4, <3>1, <3>2 DEF Received
    <3>4. QED
      BY <1>2, <2>4, <3>3 DEF Received, ProbeInv, Done, Request
  <2>5. QED
    BY <2>1, <2>2, <2>3, <2>4 DEF ProbeInv
<1>3. CASE ProbeTimeout
  BY <1>3, NextServerKeeps DEF ProbeTimeout
<1>4. QED
  BY <1>1, <1>2, <1>3 DEF Probe

LEMMA NatStep == ProbeInv /\ ClaimInv /\ [ExchangeNext]_exchangeVars => ProbeInv' /\ ClaimInv'
<1> SUFFICES ASSUME ProbeInv, ClaimInv, [ExchangeNext]_exchangeVars PROVE ProbeInv' /\ ClaimInv'
  OBVIOUS
<1>1. CASE UNCHANGED <<natVars, spoofs>> /\ (peer' = peer \/ peer' = "rest")
  BY <1>1 DEF natVars, probeVars, policyVars, ProbeInv, ClaimInv
<1>2. CASE Connect
  <2>1. StartClaim /\ UNCHANGED spoofs
    BY <1>2 DEF Connect
  <2>2. ProbeInv'
    BY <2>1 DEF StartClaim, probeVars, ProbeInv
  <2>3. ClaimInv'
    BY <2>1 DEF StartClaim, Claim, ClaimInv
  <2>4. QED
    BY <2>2, <2>3
<1>3. CASE Negotiator
  <2>1. UNCHANGED <<natVars, spoofs>> /\ peer = "negotiate"
    <3>1. CASE CallAgain \/ SendDone \/ UrlFound \/ UrlAgain \/ ReceiveAgain
      BY <3>1 DEF CallAgain, SendDone, UrlFound, UrlAgain, ReceiveAgain,
         CallFailed, TripFinished, NextRequest, peerVars
    <3>2. CASE Exchanged \/ MessageReceived \/ SqsFailed
      BY <3>2 DEF Exchanged, MessageReceived, SqsFailed, CallFailed, TripFinished, Negotiated
    <3>3. QED
      BY <1>3, <3>1, <3>2 DEF Negotiator, Sqs
  <2>2. ProbeInv'
    BY <2>1 DEF natVars, probeVars, ProbeInv
  <2>3. ClaimInv'
    BY <2>1 DEF natVars, policyVars, ClaimInv
  <2>4. QED
    BY <2>2, <2>3
<1>4. CASE OpenFails
  <2>1. ProbeInv'
    BY <1>4 DEF OpenFails, ClaimFails, probeVars, ProbeInv
  <2>2. spoofs' <= 1 /\ spoofs' \in Nat /\ (spoofs' > 0 => claimFailed')
    <3>1. CASE sent = actual
      BY <1>4, <3>1 DEF OpenFails, ClaimFails, ClaimInv
    <3>2. CASE sent # actual
      <4>1. ~claimFailed /\ actual = "unknown" /\ sent = "unrestricted"
        BY <1>4, <3>2 DEF OpenFails, ClaimInv
      <4>2. spoofs = 0
        BY <4>1 DEF ClaimInv
      <4>3. spoofs' = 1
        BY <1>4, <3>2, <4>2 DEF OpenFails
      <4>4. claimFailed'
        BY <1>4, <4>1 DEF OpenFails, ClaimFails
      <4>5. QED
        BY <4>3, <4>4
    <3>3. QED
      BY <3>1, <3>2
  <2>3. claimFailed' \in BOOLEAN /\ peer' = "rest"
    BY <1>4 DEF OpenFails, ClaimFails
  <2>4. QED
    BY <2>1, <2>2, <2>3 DEF ClaimInv
<1>5. CASE ProbeStep
  <2>1. UNCHANGED <<policyVars, peer, spoofs>> /\ Probe
    BY <1>5 DEF ProbeStep, Probe, ServerReplies, Received, ProbeTimeout, peerVars
  <2>2. QED
    BY <2>1, ProbeKeeps DEF policyVars, ClaimInv
<1>6. CASE Opens \/ HttpStep \/ UNCHANGED exchangeVars
  <2>1. UNCHANGED <<natVars, spoofs>> /\ (peer' = peer \/ peer' = "rest")
    <3>1. CASE Opens
      BY <3>1 DEF Opens
    <3>2. CASE HttpStep
      BY <3>2 DEF HttpStep, peerVars
    <3>3. CASE UNCHANGED exchangeVars
      BY <3>3 DEF exchangeVars, peerVars
    <3>4. QED
      BY <1>6, <3>1, <3>2, <3>3
  <2>2. QED
    BY <1>1, <2>1
<1>7. QED
  BY <1>2, <1>3, <1>4, <1>5, <1>6 DEF ExchangeNext

\* nat.rs, stun.rs, peer.rs: the broker hears the NAT's type as it is, or one
\* guess that fails at most once, for every number of servers and connections.
THEOREM NatTold == ExchangeSpec => []NatReported
<1>1. ExchangeInit => ProbeInv /\ ClaimInv
  <2> SUFFICES ASSUME ExchangeInit PROVE ProbeInv /\ ClaimInv
    OBVIOUS
  <2>1. probe = Done \/ \E n : probe = Request(n, 1)
    BY DEF ExchangeInit
  <2>2. ProbeInv
    BY <2>1 DEF ExchangeInit, InitNat, ProbeInv, Done, Request
  <2>3. peer = "rest" /\ spoofs = 0 /\ claimFailed = FALSE
    BY DEF ExchangeInit, InitNat
  <2>4. spoofs \in Nat /\ spoofs <= 1 /\ ~(spoofs > 0)
    BY <2>3
  <2>5. claimFailed \in BOOLEAN
    BY <2>3
  <2>6. QED
    BY <2>2, <2>3, <2>4, <2>5 DEF ClaimInv
<1>2. ProbeInv /\ ClaimInv => NatReported
  BY DEF ProbeInv, ClaimInv, NatReported, NatTypeTrue, GuessFailsOnce
<1>3. QED
  BY <1>1, <1>2, NatStep, PTL DEF ExchangeSpec

-----------------------------------------------------------------------------
(* The answer and the request: what is on its way over the connection.     *)

Heads == [kind : {"head"}, of : Nat, status : {"200", "408", "500"},
          framing : AllFramings \cup {"none, close"}]
Pieces == {Interim, Half} \cup Heads \cup [kind : {"body"}, of : Nat]

\* What the client has not used yet of what the server sent.
Stream == rbuf \o in

HttpTyped ==
  /\ trip \in Nat /\ sends \in Nat /\ req \in Nat
  /\ rbuf \in Seq(Pieces) /\ in \in Seq(Pieces)
  /\ owes \in Heads \cup {NoHead}
  /\ http \in {"rest", "dial", "send", "head", "body"}

\* A response is begun only for the request in hand, after nothing but interim
\* responses; one that is owed a body is the last thing sent.
Owed ==
  /\ req # 0 => /\ http = "head" /\ req = trip /\ owes = NoHead
                /\ \A i \in 1..Len(Stream) : Stream[i] = Interim
  /\ owes # NoHead =>
       /\ http \in {"head", "body"} /\ owes.of = trip /\ owes.framing # "none"
       /\ http = "head" =>
            /\ Stream # <<>> /\ Stream[Len(Stream)] = owes
            /\ \A i \in 1..(Len(Stream) - 1) : Stream[i] = Interim
       /\ http = "body" => Stream = <<>> /\ head = owes
  /\ pooled => http = "rest" /\ rbuf = <<>>
  /\ http = "dial" => rbuf = <<>> /\ in = <<>> /\ line # "up"
  /\ http = "send" /\ line = "up" => Stream = <<>>

\* Heads of status 200 are of the request in hand; a body that was not reached
\* yet is behind its head.
Matching(s, t, h) ==
  \A i \in 1..Len(s) :
    /\ s[i] \in Heads /\ s[i].status = "200" => s[i].of = t
    /\ s[i].kind = "body" /\ h # "body" => \E j \in 1..(i - 1) : s[j] \in Heads

Matched ==
  /\ http \in {"send", "head", "body"} => Matching(Stream, trip, http)
  /\ http = "body" => head \in Heads /\ (head.status = "200" => head.of = trip)
  /\ result.ok /\ result.status = "200" => result.of = trip
  /\ peer = "negotiate" => ~answer.ok
  /\ answer.ok => answer.of = trip

\* Before a second writing of the request nothing of a final response was read.
Resend ==
  /\ http \in {"dial", "send"} => ~answered /\ sends <= 1
  /\ http = "send" /\ ~fresh => sends = 0
  /\ http = "head" /\ ~fresh => sends <= 1
  /\ http = "head" /\ answered => \E i \in 1..Len(rbuf) : rbuf[i] # Interim

HttpInv == HttpTyped /\ Owed /\ Matched /\ Resend

LEMMA Kinds ==
  /\ \A x \in Heads : x.kind = "head" /\ x # Interim /\ x # Half /\ x # NoHead
                      /\ x \in Pieces
  /\ Interim.kind = "interim" /\ Half.kind = "half a head"
  /\ Interim \in Pieces /\ Half \in Pieces /\ Interim # Half
  /\ \A r \in Nat : Body(r) \in Pieces /\ Body(r).kind = "body"
<1>1. Interim.kind = "interim" /\ Half.kind = "half a head" /\ NoHead.kind = "no head"
  BY DEF Interim, Half, NoHead
<1>2. \A x \in Heads : x.kind = "head" /\ x \in Pieces
  BY DEF Heads, Pieces
<1>3. \A r \in Nat : Body(r) \in Pieces /\ Body(r).kind = "body"
  BY DEF Body, Pieces
<1>4. Interim \in Pieces /\ Half \in Pieces
  BY DEF Pieces
<1>5. QED
  BY <1>1, <1>2, <1>3, <1>4

LEMMA EmptyStream ==
  ASSUME NEW s \in Seq(Pieces)
  PROVE  /\ <<>> \in Seq(Pieces) /\ <<>> \o s = s /\ s \o <<>> = s
BY ConcatEmptySeq

LEMMA NothingMatches == \A t, h : Matching(<<>>, t, h)
BY DEF Matching

LEMMA AppendStream ==
  ASSUME NEW r \in Seq(Pieces), NEW s \in Seq(Pieces), NEW x \in Pieces
  PROVE  /\ r \o Append(s, x) = Append(r \o s, x)
         /\ r \o s \in Seq(Pieces) /\ Append(s, x) \in Seq(Pieces)
  OBVIOUS

LEMMA AppendTwo ==
  ASSUME NEW s \in Seq(Pieces), NEW x \in Pieces, NEW y \in Pieces
  PROVE  s \o <<x, y>> = Append(Append(s, x), y)
  OBVIOUS

LEMMA TailStream ==
  ASSUME NEW r \in Seq(Pieces), NEW s \in Seq(Pieces), r # <<>>
  PROVE  /\ Tail(r) \o s = Tail(r \o s)
         /\ r \o s # <<>> /\ (r \o s)[1] = r[1] /\ Tail(r) \in Seq(Pieces)
  OBVIOUS

LEMMA FillStream ==
  ASSUME NEW r \in Seq(Pieces), NEW s \in Seq(Pieces), NEW n \in 1..Len(s)
  PROVE  /\ (r \o SubSeq(s, 1, n)) \o SubSeq(s, n + 1, Len(s)) = r \o s
         /\ r \o SubSeq(s, 1, n) \in Seq(Pieces)
         /\ SubSeq(s, n + 1, Len(s)) \in Seq(Pieces)
<1>1. /\ SubSeq(s, 1, n) \in Seq(Pieces)
      /\ SubSeq(s, n + 1, Len(s)) \in Seq(Pieces)
  OBVIOUS
<1>2. SubSeq(s, 1, n) \o SubSeq(s, n + 1, Len(s)) = s
  <2>1. Len(s) \in Nat /\ n \in Nat /\ n >= 1 /\ n <= Len(s)
    OBVIOUS
  <2>2. 1 \in 1..(Len(s) + 1) /\ n \in (1 - 1)..Len(s) /\ Len(s) \in n..Len(s)
    BY <2>1
  <2>3. SubSeq(s, 1, n) \o SubSeq(s, n + 1, Len(s)) = SubSeq(s, 1, Len(s))
    BY <2>2, ConcatAdjacentSubSeq
  <2>4. QED
    BY <2>3, SubSeqFull
<1>3. (r \o SubSeq(s, 1, n)) \o SubSeq(s, n + 1, Len(s))
        = r \o (SubSeq(s, 1, n) \o SubSeq(s, n + 1, Len(s)))
  <2> DEFINE a == SubSeq(s, 1, n)
             b == SubSeq(s, n + 1, Len(s))
  <2>1. a \in Seq(Pieces) /\ b \in Seq(Pieces)
    BY <1>1
  <2> HIDE DEF a, b
  <2>2. (r \o a) \o b = r \o (a \o b)
    BY <2>1
  <2>3. QED
    BY <2>2 DEF a, b
<1>4. r \o SubSeq(s, 1, n) \in Seq(Pieces)
  BY <1>1, ConcatProperties
<1>5. QED
  BY <1>1, <1>2, <1>3, <1>4

LEMMA AppendMatching ==
  ASSUME NEW s \in Seq(Pieces), NEW x \in Pieces, NEW t, NEW h, Matching(s, t, h),
         x \in Heads /\ x.status = "200" => x.of = t,
         x.kind = "body" /\ h # "body" => \E j \in 1..Len(s) : s[j] \in Heads
  PROVE  Matching(Append(s, x), t, h)
BY DEF Matching

LEMMA TailMatching ==
  ASSUME NEW s \in Seq(Pieces), s # <<>>, NEW t, NEW h, Matching(s, t, h),
         s[1] = Interim \/ h = "body"
  PROVE  Matching(Tail(s), t, h)
<1> SUFFICES ASSUME NEW i \in 1..Len(Tail(s))
             PROVE  /\ Tail(s)[i] \in Heads /\ Tail(s)[i].status = "200" =>
                         Tail(s)[i].of = t
                    /\ Tail(s)[i].kind = "body" /\ h # "body" =>
                         \E j \in 1..(i - 1) : Tail(s)[j] \in Heads
  BY DEF Matching
<1>1. i + 1 \in 1..Len(s) /\ Tail(s)[i] = s[i + 1]
  OBVIOUS
<1>2. ASSUME s[i + 1].kind = "body", h # "body"
      PROVE  \E j \in 1..(i - 1) : Tail(s)[j] \in Heads
  <2>1. PICK j \in 1..i : s[j] \in Heads
    BY <1>1, <1>2 DEF Matching
  <2>2. s[1] \notin Heads
    BY <1>2, Kinds
  <2>3. j \in 2..i
    BY <2>1, <2>2
  <2>4. j - 1 \in 1..(i - 1) /\ j - 1 \in 1..Len(Tail(s)) /\ (j - 1) + 1 = j
    <3>1. Len(Tail(s)) \in Nat /\ i \in Nat /\ i <= Len(Tail(s))
      OBVIOUS
    <3>2. QED
      BY <2>3, <3>1
  <2>5. \A k \in 1..Len(Tail(s)) : Tail(s)[k] = s[k + 1]
    BY HeadTailProperties
  <2>6. Tail(s)[j - 1] = s[j]
    BY <2>4, <2>5
  <2>7. QED
    BY <2>1, <2>4, <2>6
<1>3. QED
  BY <1>1, <1>2 DEF Matching

(* The server's steps. *)

SameClient == UNCHANGED <<http, trip, sends, answered, fresh, head, result, pooled,
                          rbuf, peer, answer>>
AwaitsAnswer == http \in {"send", "head", "body"}

LEMMA Typed ==
  ASSUME HttpTyped
  PROVE  Stream \in Seq(Pieces) /\ rbuf \in Seq(Pieces) /\ in \in Seq(Pieces)
BY ConcatProperties DEF HttpTyped, Stream

\* One more piece on its way.
LEMMA Said ==
  ASSUME HttpInv, NEW s \in Seq(Pieces), NEW x \in Pieces,
         AwaitsAnswer => Matching(rbuf \o s, trip, http),
         x \in Heads /\ x.status = "200" => x.of = trip,
         x.kind = "body" /\ http # "body" =>
           \E j \in 1..Len(rbuf \o s) : (rbuf \o s)[j] \in Heads
  PROVE  /\ Append(s, x) \in Seq(Pieces)
         /\ rbuf \o Append(s, x) = Append(rbuf \o s, x)
         /\ AwaitsAnswer => Matching(rbuf \o Append(s, x), trip, http)
<1>1. /\ rbuf \o Append(s, x) = Append(rbuf \o s, x)
      /\ rbuf \o s \in Seq(Pieces) /\ Append(s, x) \in Seq(Pieces)
  BY Typed, AppendStream DEF HttpInv
<1>2. AwaitsAnswer => Matching(Append(rbuf \o s, x), trip, http)
  BY <1>1, AppendMatching
<1>3. QED
  BY <1>1, <1>2

LEMMA ServerQuiet ==
  ASSUME HttpInv, SameClient, in' \in Seq(Pieces),
         AwaitsAnswer => Matching(rbuf \o in', trip, http)
  PROVE  Matched' /\ Resend'
<1>1. Matched'
  BY DEF HttpInv, SameClient, Matched, Stream, AwaitsAnswer
<1>2. Resend'
  BY DEF HttpInv, SameClient, Resend
<1>3. QED
  BY <1>1, <1>2

LEMMA ServerDone ==
  ASSUME HttpInv, SameClient, in' \in Seq(Pieces), line = "up", req' = 0, owes' = NoHead,
         line' # "up" \/ http # "send"
  PROVE  HttpTyped' /\ Owed'
<1>1. HttpTyped'
  BY DEF HttpInv, SameClient, HttpTyped
<1>2. Owed'
  BY DEF HttpInv, SameClient, Owed
<1>3. QED
  BY <1>1, <1>2

LEMMA Known ==
  ASSUME HttpInv
  PROVE  /\ rbuf \in Seq(Pieces) /\ in \in Seq(Pieces) /\ Stream = rbuf \o in
         /\ AwaitsAnswer => Matching(rbuf \o in, trip, http)
BY Typed DEF HttpInv, Matched, Stream, AwaitsAnswer

LEMMA ServerKeeps ==
  ASSUME HttpInv, Server, UNCHANGED <<peer, answer>>
  PROVE  HttpInv'
<1>0. SameClient /\ line = "up"
  BY DEF Server, ServerInterim, ServerAnswers, ServerBody, ServerCloses,
     ServerResets, ServerSpeaks, Quiet, clientVars, SameClient
<1>1. CASE ServerInterim
  <2>1. in' = Append(in, Interim)
    BY <1>1 DEF ServerInterim
  <2>2. /\ http = "head" /\ req = trip /\ owes = NoHead /\ req' = req /\ owes' = owes
        /\ \A i \in 1..Len(Stream) : Stream[i] = Interim
    BY <1>1 DEF ServerInterim, HttpInv, Owed
  <2>3. /\ in' \in Seq(Pieces) /\ rbuf \o in' = Append(Stream, Interim)
        /\ AwaitsAnswer => Matching(rbuf \o in', trip, http)
    BY <2>1, Said, Known, Kinds
  <2>4. HttpTyped'
    BY <1>0, <2>2, <2>3 DEF HttpInv, HttpTyped, SameClient
  <2>5. Stream' = Append(Stream, Interim)
    BY <1>0, <2>3 DEF Stream, SameClient
  <2>6. \A i \in 1..Len(Stream') : Stream'[i] = Interim
    BY <2>2, <2>5, Typed DEF HttpInv
  <2>7. Owed'
    BY <1>0, <2>2, <2>6 DEF HttpInv, Owed, SameClient
  <2>8. QED
    BY <1>0, <2>3, <2>4, <2>7, ServerQuiet DEF HttpInv
<1>2. CASE ServerAnswers
  <2>1. PICK status \in {"200", "500"}, framing \in Framings :
          /\ in' = Append(in, HeadOf(req, status, framing))
          /\ owes' = IF framing = "none" THEN NoHead ELSE HeadOf(req, status, framing)
    BY <1>2 DEF ServerAnswers
  <2> DEFINE h == HeadOf(req, status, framing)
  <2>2. /\ http = "head" /\ req = trip /\ req' = 0
        /\ \A i \in 1..Len(Stream) : Stream[i] = Interim
    BY <1>2 DEF ServerAnswers, HttpInv, Owed
  <2>3. h \in Heads /\ h.of = trip /\ h.framing = framing
    BY <2>2, FramingsAssumption DEF HttpInv, HttpTyped, HeadOf, Heads
  <2> HIDE DEF h
  <2>4. in' = Append(in, h) /\ owes' = IF framing = "none" THEN NoHead ELSE h
    BY <2>1 DEF h
  <2>5. h \in Pieces /\ h.kind = "head"
    BY <2>3, Kinds
  <2>6. /\ in' \in Seq(Pieces) /\ rbuf \o in' = Append(Stream, h)
        /\ AwaitsAnswer => Matching(rbuf \o in', trip, http)
    BY <2>3, <2>4, <2>5, Said, Known
  <2>7. HttpTyped'
    BY <1>0, <2>2, <2>3, <2>4, <2>6 DEF HttpInv, HttpTyped, SameClient
  <2>8. Stream' = Append(Stream, h)
    BY <1>0, <2>6 DEF Stream, SameClient
  <2>9. /\ Stream' # <<>> /\ Stream'[Len(Stream')] = h
        /\ \A i \in 1..(Len(Stream') - 1) : Stream'[i] = Interim
    <3>1. Stream \in Seq(Pieces)
      BY Typed DEF HttpInv
    <3>2. /\ Append(Stream, h) # <<>> /\ Len(Append(Stream, h)) = Len(Stream) + 1
          /\ Len(Stream) \in Nat /\ Append(Stream, h)[Len(Stream) + 1] = h
          /\ \A i \in 1 .. Len(Stream) : Append(Stream, h)[i] = Stream[i]
      BY <2>5, <3>1
    <3>3. QED
      BY <2>2, <2>8, <3>2
  <2>10. Owed'
    BY <1>0, <2>2, <2>3, <2>4, <2>9 DEF HttpInv, Owed, SameClient
  <2>11. QED
    BY <1>0, <2>6, <2>7, <2>10, ServerQuiet DEF HttpInv
<1>3. CASE ServerBody
  <2>1. /\ owes # NoHead /\ owes' = NoHead /\ req' = req /\ req = 0
        /\ http \in {"head", "body"} /\ owes.of = trip
        /\ http = "head" => Stream # <<>> /\ Stream[Len(Stream)] = owes
    BY <1>3 DEF ServerBody, HttpInv, Owed
  <2>2. owes \in Heads /\ trip \in Nat
    BY <2>1 DEF HttpInv, HttpTyped
  <2>3. http # "body" => \E j \in 1..Len(Stream) : Stream[j] \in Heads
    BY <2>1, <2>2, Typed DEF HttpInv
  <2> DEFINE b == Body(owes.of)
             s == Append(in, b)
             h == HeadOf(owes.of, "200", "none")
  <2>4. b \in Pieces /\ b.kind = "body"
    BY <2>1, <2>2, Kinds
  <2>5. h \in Heads /\ h.of = trip
    BY <2>1, <2>2 DEF HeadOf, Heads, AllFramings
  <2>6. in' = s \/ in' = in \o <<b, h>>
    BY <1>3 DEF ServerBody
  <2> HIDE DEF b, h
  <2>7. b \notin Heads /\ h.kind # "body" /\ h \in Pieces
    BY <2>4, <2>5, Kinds
  <2>8. in' = s \/ in' = Append(s, h)
    BY <2>4, <2>6, <2>7, Known, AppendTwo
  <2>9. s \in Seq(Pieces) /\ (AwaitsAnswer => Matching(rbuf \o s, trip, http))
    BY <2>3, <2>4, <2>7, Said, Known
  <2> HIDE DEF s
  <2>10. Append(s, h) \in Seq(Pieces) /\ (AwaitsAnswer => Matching(rbuf \o Append(s, h), trip, http))
    BY <2>5, <2>7, <2>9, Said
  <2>11. in' \in Seq(Pieces) /\ (AwaitsAnswer => Matching(rbuf \o in', trip, http))
    BY <2>9, <2>10, <2>8
  <2>12. QED
    BY <1>0, <2>1, <2>11, ServerQuiet, ServerDone DEF HttpInv
<1>4. CASE ServerCloses
  <2>1. in' = in \/ in' = Append(in, Half)
    BY <1>4 DEF ServerCloses
  <2>2. in' \in Seq(Pieces) /\ (AwaitsAnswer => Matching(rbuf \o in', trip, http))
    <3>1. Half \notin Heads /\ Half.kind # "body" /\ Half \in Pieces
      BY Kinds
    <3>2. QED
      BY <2>1, <3>1, Said, Known
  <2>3. req' = 0 /\ owes' = NoHead /\ line' # "up"
    BY <1>4 DEF ServerCloses
  <2>4. QED
    BY <1>0, <2>2, <2>3, ServerQuiet, ServerDone DEF HttpInv
<1>5. CASE ServerResets
  <2>1. in' = in /\ req' = 0 /\ owes' = NoHead /\ line' # "up"
    BY <1>5 DEF ServerResets
  <2>2. QED
    BY <1>0, <2>1, Known, ServerQuiet, ServerDone DEF HttpInv
<1>6. CASE ServerSpeaks
  <2>1. in' = Append(in, Junk) /\ req' = 0 /\ owes' = NoHead /\ line' # "up"
    BY <1>6 DEF ServerSpeaks
  <2>2. Junk \in Heads /\ Junk.status # "200"
    BY DEF Junk, HeadOf, Heads
  <2>3. Junk \in Pieces /\ Junk.kind # "body"
    BY <2>2, Kinds
  <2>4. in' \in Seq(Pieces) /\ (AwaitsAnswer => Matching(rbuf \o in', trip, http))
    BY <2>1, <2>2, <2>3, Said, Known
  <2>5. QED
    BY <1>0, <2>1, <2>4, ServerQuiet, ServerDone DEF HttpInv
<1>7. QED
  BY <1>1, <1>2, <1>3, <1>4, <1>5, <1>6 DEF Server

(* The client's steps. *)

LEMMA DropKeeps ==
  ASSUME HttpTyped, Dropped, http' \in {"rest", "dial"}, trip' \in Nat, sends' \in Nat,
         ~pooled'
  PROVE  HttpTyped' /\ Owed'
<1>1. HttpTyped'
  BY DEF HttpTyped, Dropped
<1>2. Owed'
  BY DEF Dropped, Owed
<1>3. QED
  BY <1>1, <1>2

LEMMA FailKeeps ==
  ASSUME HttpInv, http # "rest", Return(Failure), Dropped,
         UNCHANGED <<trip, sends, pooled, peer, answer>>
  PROVE  HttpInv'
<1>1. http' = "rest" /\ ~result'.ok
  BY DEF Return, Failure
<1>2. HttpTyped' /\ Owed'
  BY <1>1, DropKeeps DEF HttpInv, HttpTyped, Owed
<1>3. Matched' /\ Resend'
  BY <1>1 DEF HttpInv, Matched, Resend
<1>4. QED
  BY <1>2, <1>3 DEF HttpInv

LEMMA UnansweredKeeps ==
  ASSUME HttpInv, http # "rest", Unanswered, Dropped, ~answered, sends <= 1,
         UNCHANGED <<trip, sends, answered, pooled, peer, answer>>
  PROVE  HttpInv'
<1>1. CASE fresh
  BY <1>1, FailKeeps DEF Unanswered
<1>2. CASE ~fresh
  <2>1. http' = "dial" /\ result' = result
    BY <1>2 DEF Unanswered
  <2>2. HttpTyped' /\ Owed'
    BY <2>1, DropKeeps DEF HttpInv, HttpTyped, Owed
  <2>3. Matched' /\ Resend'
    BY <2>1 DEF HttpInv, Matched, Resend
  <2>4. QED
    BY <2>2, <2>3 DEF HttpInv
<1>3. QED
  BY <1>1, <1>2

LEMMA RoundTripKeeps ==
  ASSUME HttpInv, NEW sameKey \in BOOLEAN, RoundTrip(sameKey), ~answer'.ok
  PROVE  HttpInv'
<1>1. /\ http = "rest" /\ trip' = trip + 1 /\ sends' = 0 /\ ~answered' /\ ~pooled'
      /\ ~result'.ok /\ trip' \in Nat
  BY DEF RoundTrip, Failure, HttpInv, HttpTyped
<1>2. CASE http' = "dial" /\ fresh' /\ Dropped
  <2>1. HttpTyped' /\ Owed'
    BY <1>1, <1>2, DropKeeps DEF HttpInv
  <2>2. Matched' /\ Resend'
    BY <1>1, <1>2 DEF Matched, Resend
  <2>3. QED
    BY <2>1, <2>2 DEF HttpInv
<1>3. CASE pooled /\ StillOpen /\ http' = "send" /\ UNCHANGED connVars
  <2>1. /\ rbuf = <<>> /\ in = <<>> /\ req = 0 /\ owes = NoHead
        /\ UNCHANGED <<rbuf, in, req, owes>>
    BY <1>1, <1>3 DEF StillOpen, HttpInv, Owed, connVars
  <2>2. Stream' = <<>>
    BY <2>1, EmptyStream DEF Stream
  <2>3. HttpTyped'
    BY <1>1, <1>3, <2>1 DEF HttpInv, HttpTyped
  <2>4. Owed'
    BY <1>1, <1>3, <2>1, <2>2 DEF Owed
  <2>5. Matched'
    BY <1>1, <1>3, <2>2, NothingMatches DEF Matched
  <2>6. Resend'
    BY <1>1, <1>3 DEF Resend
  <2>7. QED
    BY <2>3, <2>4, <2>5, <2>6 DEF HttpInv
<1>4. QED
  BY <1>2, <1>3 DEF RoundTrip

LEMMA SendKeeps ==
  ASSUME HttpInv, Send, UNCHANGED <<peer, answer>>
  PROVE  HttpInv'
<1>1. /\ http = "send" /\ ~answered /\ sends <= 1 /\ req = 0 /\ owes = NoHead /\ ~pooled
      /\ line = "up" => Stream = <<>>
      /\ UNCHANGED <<trip, answered, fresh, head, pooled>>
  BY DEF Send, HttpInv, Owed, Resend
<1>2. CASE line # "up" /\ Unanswered /\ Dropped /\ UNCHANGED sends
  BY <1>1, <1>2, UnansweredKeeps
<1>3. CASE /\ http' = "head" /\ sends' = sends + 1
           /\ req' = IF line = "up" THEN trip ELSE 0
           /\ UNCHANGED <<result, owes, in, rbuf, line, junk>>
  <2>1. Stream' = Stream
    BY <1>3 DEF Stream
  <2>2. HttpTyped'
    BY <1>1, <1>3 DEF HttpInv, HttpTyped
  <2>3. Owed'
    BY <1>1, <1>3, <2>1 DEF Owed
  <2>4. Matching(Stream, trip, http')
    BY <1>1, <1>3 DEF HttpInv, Matched, Matching
  <2>5. Matched'
    BY <1>1, <1>3, <2>1, <2>4 DEF HttpInv, Matched
  <2>6. sends' <= 1 \/ fresh
    BY <1>1, <1>3 DEF HttpInv, HttpTyped, Resend
  <2>7. Resend'
    BY <1>1, <1>3, <2>6 DEF Resend
  <2>8. QED
    BY <2>2, <2>3, <2>5, <2>7 DEF HttpInv
<1>4. QED
  BY <1>2, <1>3 DEF Send

LEMMA DialKeeps ==
  ASSUME HttpInv, Dial, UNCHANGED <<peer, answer>>
  PROVE  HttpInv'
<1>1. /\ http = "dial" /\ ~answered /\ sends <= 1 /\ req = 0 /\ owes = NoHead /\ ~pooled
      /\ rbuf = <<>> /\ in = <<>> /\ fresh'
      /\ UNCHANGED <<trip, sends, answered, head, pooled, req, owes, in, rbuf>>
      /\ \/ http' = "send" /\ UNCHANGED result
         \/ http' = "rest" /\ ~result'.ok
  BY DEF Dial, Return, Failure, HttpInv, Owed, Resend
<1>2. Stream' = <<>>
  BY <1>1, EmptyStream DEF Stream
<1>3. HttpTyped'
  BY <1>1 DEF HttpInv, HttpTyped
<1>4. Owed'
  BY <1>1, <1>2 DEF Owed
<1>5. Matched'
  BY <1>1, <1>2, NothingMatches DEF HttpInv, Matched
<1>6. Resend'
  BY <1>1 DEF Resend
<1>7. QED
  BY <1>3, <1>4, <1>5, <1>6 DEF HttpInv

LEMMA FillKeeps ==
  ASSUME HttpInv, Fill, UNCHANGED <<peer, answer>>
  PROVE  HttpInv'
<1>1. /\ http \in {"head", "body"}
      /\ UNCHANGED <<http, trip, sends, fresh, head, result, pooled, req, owes, line>>
  BY DEF Fill
<1>2. PICK n \in 1..Len(in) :
        /\ rbuf' = rbuf \o SubSeq(in, 1, n)
        /\ in' = SubSeq(in, n + 1, Len(in))
        /\ answered' = (answered \/ \E i \in 1..n : in[i] # Interim)
  BY DEF Fill
<1>3. Stream' = Stream /\ rbuf' \in Seq(Pieces) /\ in' \in Seq(Pieces)
  BY <1>2, Typed, FillStream DEF HttpInv, Stream
<1>4. HttpTyped'
  BY <1>1, <1>3 DEF HttpInv, HttpTyped
<1>5. ~pooled
  BY <1>1 DEF HttpInv, Owed
<1>6. Owed'
  BY <1>1, <1>3, <1>5 DEF HttpInv, Owed
<1>7. Matched'
  BY <1>1, <1>3 DEF HttpInv, Matched
<1>8. ASSUME http = "head", answered' PROVE \E i \in 1..Len(rbuf') : rbuf'[i] # Interim
  <2>1. CASE answered
    <3>1. PICK i \in 1..Len(rbuf) : rbuf[i] # Interim
      BY <1>8, <2>1 DEF HttpInv, Resend
    <3>2. i \in 1..Len(rbuf') /\ rbuf'[i] = rbuf[i]
      BY <1>2, <3>1, Known
    <3>3. QED
      BY <3>1, <3>2
  <2>2. CASE \E i \in 1..n : in[i] # Interim
    <3>1. PICK i \in 1..n : in[i] # Interim
      BY <2>2
    <3>2. Len(rbuf) + i \in 1..Len(rbuf') /\ rbuf'[Len(rbuf) + i] = in[i]
      BY <1>2, <3>1, Known
    <3>3. QED
      BY <3>1, <3>2
  <2>3. QED
    BY <1>2, <1>8, <2>1, <2>2
<1>9. Resend'
  BY <1>1, <1>8 DEF HttpInv, Resend
<1>10. QED
  BY <1>4, <1>6, <1>7, <1>9 DEF HttpInv

LEMMA ReadHeadKeeps ==
  ASSUME HttpInv, ReadHead, UNCHANGED <<peer, answer>>
  PROVE  HttpInv'
<1>1. /\ http = "head" /\ rbuf # <<>> /\ rbuf[1] # Half /\ rbuf' = Tail(rbuf) /\ ~pooled
      /\ UNCHANGED <<trip, sends, answered, result, fresh, pooled, req, owes, in, line>>
  BY DEF ReadHead, HttpInv, Owed
<1>2. /\ Stream \in Seq(Pieces) /\ Stream # <<>> /\ Stream[1] = rbuf[1]
      /\ Stream' = Tail(Stream) /\ rbuf' \in Seq(Pieces) /\ in' \in Seq(Pieces)
  BY <1>1, Typed, TailStream DEF HttpInv, Stream
<1>3. Matching(Stream, trip, "head") /\ Matching(Stream, trip, "body")
  BY <1>1 DEF HttpInv, Matched, Matching
<1>4. CASE rbuf[1] = Interim
  <2>1. UNCHANGED <<http, head>>
    BY <1>4 DEF ReadHead
  <2>2. HttpTyped'
    BY <1>1, <1>2, <2>1 DEF HttpInv, HttpTyped
  <2>3. owes # NoHead => owes # Interim
    BY Kinds DEF HttpInv, HttpTyped
  <2>4. \A i \in 1..Len(Stream') : Stream'[i] = Stream[i + 1] /\ i + 1 \in 1..Len(Stream)
    BY <1>2
  <2>5. Len(Stream') = Len(Stream) - 1 /\ Len(Stream) \in Nat
    BY <1>2
  <2>6. req # 0 => \A i \in 1..Len(Stream') : Stream'[i] = Interim
    BY <2>4 DEF HttpInv, Owed
  <2>7. ASSUME owes # NoHead
        PROVE  /\ Stream' # <<>> /\ Stream'[Len(Stream')] = owes
               /\ \A i \in 1..(Len(Stream') - 1) : Stream'[i] = Interim
    <3>1. Stream[Len(Stream)] = owes /\ \A i \in 1..(Len(Stream) - 1) : Stream[i] = Interim
      BY <1>1, <2>7 DEF HttpInv, Owed
    <3>2. Len(Stream) # 1
      BY <1>2, <1>4, <2>3, <2>7, <3>1
    <3>3. Len(Stream') >= 1
      BY <1>2, <2>5, <3>2
    <3>4. Stream'[Len(Stream')] = owes
      BY <2>4, <2>5, <3>1, <3>3
    <3>5. \A i \in 1..(Len(Stream') - 1) : Stream'[i] = Interim
      BY <2>4, <2>5, <3>1
    <3>6. Stream' # <<>>
      BY <3>3
    <3>7. QED
      BY <3>4, <3>5, <3>6
  <2>8. Owed'
    BY <1>1, <2>1, <2>6, <2>7 DEF HttpInv, Owed
  <2>9. Matching(Stream', trip, "head")
    BY <1>2, <1>3, <1>4, TailMatching
  <2>10. Matched'
    BY <1>1, <2>1, <2>9 DEF HttpInv, Matched
  <2>11. ASSUME answered PROVE \E i \in 1..Len(rbuf') : rbuf'[i] # Interim
    <3>1. PICK i \in 1..Len(rbuf) : rbuf[i] # Interim
      BY <1>1, <2>11 DEF HttpInv, Resend
    <3>2. i - 1 \in 1..Len(rbuf') /\ (i - 1) + 1 = i
      <4>1. i # 1 /\ Len(rbuf') = Len(rbuf) - 1 /\ Len(rbuf) \in Nat
        BY <1>1, <1>4, <3>1, Known
      <4>2. QED
        BY <3>1, <4>1
    <3>3. \A k \in 1..Len(rbuf') : rbuf'[k] = rbuf[k + 1]
      BY <1>1, Known
    <3>4. QED
      BY <3>1, <3>2, <3>3
  <2>12. Resend'
    BY <1>1, <2>1, <2>11 DEF HttpInv, Resend
  <2>13. QED
    BY <2>2, <2>8, <2>10, <2>12 DEF HttpInv
<1>5. CASE rbuf[1] # Interim
  <2>1. http' = "body" /\ head' = rbuf[1]
    BY <1>5 DEF ReadHead
  <2>2. 1 \in 1..Len(Stream)
    BY <1>2
  <2>3. rbuf[1] \in Heads
    <3>1. rbuf[1] \in Pieces
      BY <1>2, <2>2
    <3>2. rbuf[1].kind # "body"
      BY <1>2, <1>3, <2>2 DEF Matching
    <3>3. QED
      BY <1>1, <1>5, <3>1, <3>2 DEF Pieces
  <2>4. rbuf[1].status = "200" => rbuf[1].of = trip
    BY <1>2, <1>3, <2>2, <2>3 DEF Matching
  <2>5. HttpTyped'
    BY <1>1, <1>2, <2>1 DEF HttpInv, HttpTyped
  <2>6. req = 0
    BY <1>2, <1>5, <2>2 DEF HttpInv, Owed
  <2>7. ASSUME owes # NoHead PROVE Stream' = <<>> /\ head' = owes
    <3>1. Stream[Len(Stream)] = owes /\ \A i \in 1..(Len(Stream) - 1) : Stream[i] = Interim
      BY <1>1, <2>7 DEF HttpInv, Owed
    <3>2. Len(Stream) = 1
      <4>1. Len(Stream) \in Nat /\ Len(Stream) >= 1
        BY <1>2
      <4>2. 1 \notin 1..(Len(Stream) - 1)
        <5>1. Stream[1] # Interim
          BY <1>2, <1>5
        <5>2. QED
          BY <3>1, <5>1
      <4>3. ASSUME Len(Stream) >= 2 PROVE 1 \in 1..(Len(Stream) - 1)
        BY <4>1, <4>3
      <4>4. ~(Len(Stream) >= 2)
        BY <4>2, <4>3
      <4>5. \A n \in Nat : n >= 1 /\ ~(n >= 2) => n = 1
        OBVIOUS
      <4>6. QED
        BY <4>1, <4>4, <4>5
    <3>3. QED
      BY <1>2, <2>1, <3>1, <3>2
  <2>8. Owed'
    BY <1>1, <2>1, <2>6, <2>7 DEF HttpInv, Owed
  <2>9. Matching(Stream', trip, "body")
    BY <1>2, <1>3, TailMatching
  <2>10. Matched'
    BY <1>1, <2>1, <2>3, <2>4, <2>9 DEF HttpInv, Matched
  <2>11. Resend'
    BY <2>1 DEF Resend
  <2>12. QED
    BY <2>5, <2>8, <2>10, <2>11 DEF HttpInv
<1>6. QED
  BY <1>4, <1>5

LEMMA EndKeeps ==
  ASSUME HttpInv, ReadHeadEof \/ HeaderTimeout \/ ReadBodyEof, UNCHANGED <<peer, answer>>
  PROVE  HttpInv'
<1>1. http \in {"head", "body"}
      /\ Dropped /\ UNCHANGED <<trip, sends, answered, fresh, head, pooled>>
  BY DEF ReadHeadEof, HeaderTimeout, ReadBodyEof
<1>2. CASE Return(Failure)
  BY <1>1, <1>2, FailKeeps
<1>3. CASE ReadHeadEof /\ rbuf = <<>> /\ Unanswered
  <2>1. ~answered /\ (~fresh => sends <= 1)
    BY <1>3 DEF ReadHeadEof, HttpInv, Resend
  <2>2. CASE fresh
    BY <1>1, <1>3, <2>2, FailKeeps DEF Unanswered
  <2>3. CASE ~fresh
    BY <1>1, <1>3, <2>1, <2>3, UnansweredKeeps
  <2>4. QED
    BY <2>2, <2>3
<1>4. QED
  BY <1>2, <1>3 DEF ReadHeadEof, HeaderTimeout, ReadBodyEof

LEMMA ReadBodyKeeps ==
  ASSUME HttpInv, ReadBody, UNCHANGED <<peer, answer>>
  PROVE  HttpInv'
<1>1. /\ http = "body" /\ http' = "rest" /\ result' = Response /\ ~pooled /\ req = 0
      /\ UNCHANGED <<trip, sends, answered, fresh, head>>
  BY DEF ReadBody, Return, HttpInv, Owed
<1>2. Matched'
  <2>1. head.status = "200" => head.of = trip
    BY <1>1 DEF HttpInv, Matched
  <2>2. result'.status = head.status /\ result'.of = head.of
    BY <1>1 DEF Response
  <2>3. QED
    BY <1>1, <2>1, <2>2 DEF HttpInv, Matched
<1>3. Resend'
  BY <1>1 DEF Resend
<1>4. CASE ~pooled' /\ Dropped
  BY <1>1, <1>2, <1>3, <1>4, DropKeeps DEF HttpInv, HttpTyped
<1>5. CASE pooled' /\ rbuf' = <<>> /\ UNCHANGED <<req, owes, in, line, junk>>
           /\ (head.framing = "none" \/ (head.framing = "sized" /\ rbuf # <<>>))
  <2>1. owes = NoHead
    <3>1. ASSUME owes # NoHead PROVE FALSE
      <4>1. Stream = <<>> /\ head = owes /\ owes.framing # "none"
        BY <1>1, <3>1 DEF HttpInv, Owed
      <4>2. rbuf = <<>>
        <5>1. rbuf \o in = <<>> /\ rbuf \in Seq(Pieces) /\ in \in Seq(Pieces)
          BY <4>1, Known
        <5>2. QED
          BY <5>1
      <4>3. QED
        BY <1>5, <4>1, <4>2
    <3>2. QED
      BY <3>1
  <2>2. HttpTyped'
    BY <1>1, <1>5 DEF HttpInv, HttpTyped
  <2>3. Owed'
    BY <1>1, <1>5, <2>1 DEF Owed
  <2>4. QED
    BY <1>2, <1>3, <2>2, <2>3 DEF HttpInv
<1>6. QED
  BY <1>4, <1>5 DEF ReadBody, PutIdle, Reusable

LEMMA ClientKeeps ==
  ASSUME HttpInv, Client, UNCHANGED <<peer, answer>>
  PROVE  HttpInv'
<1>1. CASE Dial
  BY <1>1, DialKeeps
<1>2. CASE Send
  BY <1>2, SendKeeps
<1>3. CASE Fill
  BY <1>3, FillKeeps
<1>4. CASE ReadHead
  BY <1>4, ReadHeadKeeps
<1>5. CASE ReadHeadEof \/ HeaderTimeout \/ ReadBodyEof
  BY <1>5, EndKeeps
<1>6. CASE ReadBody
  BY <1>6, ReadBodyKeeps
<1>7. QED
  BY <1>1, <1>2, <1>3, <1>4, <1>5, <1>6 DEF Client

(* The steps of the negotiation. *)

\* Nothing happens to the connection; an answer is the last response's.
LEMMA BrokerKeeps ==
  ASSUME HttpInv, UNCHANGED httpVars, peer' # "negotiate",
         answer' = answer \/ (answer' = result /\ result.ok /\ result.status = "200")
  PROVE  HttpInv'
<1>1. /\ UNCHANGED <<http, trip, sends, answered, fresh, head, result, pooled>>
      /\ UNCHANGED <<req, owes, in, rbuf, line>>
  BY DEF httpVars, clientVars, connVars
<1>2. Stream' = Stream
  BY <1>1 DEF Stream
<1>3. HttpTyped' /\ Resend'
  BY <1>1 DEF HttpInv, HttpTyped, Resend
<1>4. Owed'
  BY <1>1, <1>2 DEF HttpInv, Owed
<1>5. answer'.ok => answer'.of = trip'
  BY <1>1 DEF HttpInv, Matched
<1>6. Matched'
  BY <1>1, <1>2, <1>5 DEF HttpInv, Matched
<1>7. QED
  BY <1>3, <1>4, <1>6 DEF HttpInv

LEMMA NegotiatorKeeps ==
  ASSUME HttpInv, Negotiator
  PROVE  HttpInv'
<1>1. CASE CallAgain \/ SendDone \/ UrlFound \/ UrlAgain \/ ReceiveAgain
  <2>1. RoundTrip(TRUE) /\ answer' = answer /\ peer = "negotiate"
    BY <1>1 DEF CallAgain, SendDone, UrlFound, UrlAgain, ReceiveAgain, CallFailed,
       TripFinished, NextRequest
  <2>2. ~answer'.ok
    BY <2>1 DEF HttpInv, Matched
  <2>3. QED
    BY <2>1, <2>2, RoundTripKeeps
<1>2. CASE Exchanged \/ MessageReceived \/ SqsFailed
  <2>1. /\ UNCHANGED httpVars /\ peer' # "negotiate"
        /\ answer' = answer \/ (answer' = result /\ result.ok /\ result.status = "200")
    BY <1>2 DEF Exchanged, MessageReceived, SqsFailed, Negotiated, Succeeded
  <2>2. QED
    BY <2>1, BrokerKeeps
<1>3. QED
  BY <1>1, <1>2 DEF Negotiator, Sqs

LEMMA HttpStutter ==
  ASSUME HttpInv, UNCHANGED <<httpVars, answer, peer>>
  PROVE  HttpInv'
<1>1. /\ UNCHANGED <<http, trip, sends, answered, fresh, head, result, pooled>>
      /\ UNCHANGED <<req, owes, in, rbuf, line>>
  BY DEF httpVars, clientVars, connVars
<1>2. Stream' = Stream
  BY <1>1 DEF Stream
<1>3. QED
  BY <1>1, <1>2 DEF HttpInv, HttpTyped, Owed, Matched, Resend

LEMMA HttpNext == HttpInv /\ [ExchangeNext]_exchangeVars => HttpInv'
<1> SUFFICES ASSUME HttpInv, [ExchangeNext]_exchangeVars PROVE HttpInv'
  OBVIOUS
<1>1. CASE Connect
  <2>1. ~answer'.ok
    BY <1>1 DEF Connect, Failure
  <2>2. QED
    BY <1>1, <2>1, RoundTripKeeps DEF Connect
<1>2. CASE Negotiator
  BY <1>2, NegotiatorKeeps
<1>3. CASE Opens \/ OpenFails
  <2>1. UNCHANGED httpVars /\ answer' = answer /\ peer' # "negotiate"
    BY <1>3 DEF Opens, OpenFails, brokerVars
  <2>2. QED
    BY <2>1, BrokerKeeps
<1>4. CASE HttpStep
  BY <1>4, ClientKeeps, ServerKeeps DEF HttpStep, brokerVars, peerVars
<1>5. CASE ProbeStep \/ UNCHANGED exchangeVars
  <2>1. UNCHANGED <<httpVars, answer, peer>>
    BY <1>5 DEF ProbeStep, exchangeVars, brokerVars, peerVars
  <2>2. QED
    BY <2>1, HttpStutter
<1>6. QED
  BY <1>1, <1>2, <1>3, <1>4, <1>5 DEF ExchangeNext

LEMMA HttpInit == ExchangeInit => HttpInv
<1> SUFFICES ASSUME ExchangeInit PROVE HttpInv
  OBVIOUS
<1>1. /\ http = "rest" /\ trip = 0 /\ sends = 0 /\ pooled = FALSE /\ req = 0
      /\ owes = NoHead /\ in = <<>> /\ rbuf = <<>> /\ result = Failure
      /\ answer = Failure
  BY DEF ExchangeInit, InitHttp
<1>2. ~Failure.ok
  BY DEF Failure
<1>3. HttpTyped
  BY <1>1, EmptyStream DEF HttpTyped
<1>4. Owed /\ Matched /\ Resend
  BY <1>1, <1>2 DEF Owed, Matched, Resend
<1>5. QED
  BY <1>3, <1>4 DEF HttpInv

\* httpc.rs:158: an answer belongs to the request it is returned for, for every
\* framing of the bodies and every number of round trips and retries.
THEOREM AnswersMatch == ExchangeSpec => []AnswerMatches
<1>1. HttpInv => AnswerMatches
  BY DEF HttpInv, Matched, AnswerMatches
<1>2. QED
  BY <1>1, HttpInit, HttpNext, PTL DEF ExchangeSpec

\* httpc.rs:142, 164: a request is written a second time at most, and only if
\* nothing of a final response to it was read.
THEOREM SentTwiceUnanswered == ExchangeSpec => ResentUnanswered
<1>1. HttpInv /\ [ExchangeNext]_exchangeVars =>
        [trip' = trip /\ sends' > sends /\ sends > 0 => sends = 1 /\ ~answered]_exchangeVars
  <2> SUFFICES ASSUME HttpInv, ExchangeNext, trip' = trip, sends' > sends, sends > 0
               PROVE  sends = 1 /\ ~answered
    OBVIOUS
  <2>1. sends \in Nat /\ trip \in Nat
    BY DEF HttpInv, HttpTyped
  <2>2. CASE Connect \/ Negotiator
    <3>1. trip' = trip + 1 \/ sends' = sends
      BY <2>2 DEF Connect, Negotiator, Exchanged, Sqs, CallAgain, SendDone, UrlFound,
         UrlAgain, ReceiveAgain, MessageReceived, SqsFailed, CallFailed, NextRequest,
         Negotiated, RoundTrip, httpVars, clientVars
    <3>2. QED
      BY <2>1, <3>1
  <2>3. CASE Opens \/ OpenFails \/ ProbeStep
    BY <2>1, <2>3 DEF Opens, OpenFails, ProbeStep, httpVars, clientVars
  <2>4. CASE HttpStep
    <3>1. CASE Send
      BY <2>1, <3>1 DEF Send, HttpInv, Resend
    <3>2. CASE ~Send
      <4>1. sends' = sends
        BY <2>4, <3>2 DEF HttpStep, Client, Server, Dial, Fill, ReadHead, ReadHeadEof,
           HeaderTimeout, ReadBody, ReadBodyEof, ServerInterim, ServerAnswers,
           ServerBody, ServerCloses, ServerResets, ServerSpeaks, Quiet, clientVars
      <4>2. QED
        BY <2>1, <4>1
    <3>3. QED
      BY <3>1, <3>2
  <2>5. QED
    BY <2>2, <2>3, <2>4 DEF ExchangeNext
<1>2. QED
  BY <1>1, HttpInit, HttpNext, PTL DEF ExchangeSpec, ResentUnanswered
=============================================================================
