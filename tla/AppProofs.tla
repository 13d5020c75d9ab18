--------------------------------- MODULE AppProofs ---------------------------------
(***************************************************************************)
(* Proofs about the process: Lifecycle, for any number of connections and  *)
(* methods, and CopyLoop, the relay a connection ends in, for streams and  *)
(* buffers of any size.  Of Lifecycle: the monitor's count is the number   *)
(* of handlers past their first poll, the SOCKS replies tell the truth,    *)
(* and so do the transcript and the exit code.  Of CopyLoop: a clean close *)
(* has put every byte of the source on the socket, because bytes are       *)
(* conserved along the line of one direction and a step moves bytes of one *)
(* direction only.  The modules share no variable.                         *)
(***************************************************************************)
EXTENDS CopyLoop, Lifecycle, FiniteSetTheorems, TLAPS

Replies == {"Succeeded", "Failed"}

\* A handler's stage fits its side: SOCKS and dialing are a client's,
\* wrapping and the ORPort a bridge's.
Sides ==
  \A c \in Conns :
    /\ stage[c] \in {"socks", "dial", "refuse", "succeed"} => client
    /\ stage[c] \in {"wrap", "orport"} => ~client

\* What one connection's stage says of its replies.
Told(c) ==
  /\ Len(replies[c]) <= 1
  /\ stage[c] \in {"relay", "close"} => replies[c] = IF client THEN <<"Succeeded">> ELSE <<>>
  /\ stage[c] \notin {"relay", "close", "done"} => replies[c] = <<>>

\* The inductive invariant.
HandlerInv ==
  /\ client \in BOOLEAN
  /\ stage \in [Conns -> Stages]
  /\ replies \in [Conns -> Seq(Replies)]
  /\ HandlersCounted
  /\ Sides
  /\ \A c \in Conns : Told(c)

----------------------------------------------------------------------------
(* The count when one handler moves *)

\* The guarded handlers are finitely many, so their number can be counted.
LEMMA CountedFinite ==
  /\ IsFiniteSet(Counted)
  /\ Cardinality(Counted) \in Nat
<1>1. Counted \subseteq Conns
  BY DEF Counted
<1>2. IsFiniteSet(Conns)
  BY LifecycleAssumption
<1>3. IsFiniteSet(Counted)
  BY <1>1, <1>2, FS_Subset
<1>4. QED
  BY <1>3, FS_CardinalityType

\* A handler that stays guarded, or stays unguarded, leaves the set as it is.
LEMMA CountKept ==
  ASSUME stage \in [Conns -> Stages], NEW c \in Conns, NEW x \in Stages,
         stage' = [stage EXCEPT ![c] = x],
         stage[c] \in Guarded <=> x \in Guarded
  PROVE  Counted' = Counted
BY DEF Counted

\* A handler that takes its guard is added, ...
LEMMA CountUp ==
  ASSUME stage \in [Conns -> Stages], NEW c \in Conns, NEW x \in Guarded,
         stage' = [stage EXCEPT ![c] = x],
         stage[c] \notin Guarded
  PROVE  Cardinality(Counted') = Cardinality(Counted) + 1
<1>1. Counted' = Counted \cup {c}
  BY DEF Counted
<1>2. c \notin Counted
  BY DEF Counted
<1>3. QED
  BY <1>1, <1>2, CountedFinite, FS_AddElement

\* ... and one that drops it is removed.
LEMMA CountDown ==
  ASSUME stage \in [Conns -> Stages], NEW c \in Conns, NEW x \in Stages \ Guarded,
         stage' = [stage EXCEPT ![c] = x],
         stage[c] \in Guarded
  PROVE  Cardinality(Counted') = Cardinality(Counted) - 1
<1>1. Counted' = Counted \ {c}
  BY DEF Counted
<1>2. c \in Counted
  BY DEF Counted
<1>3. QED
  BY <1>1, <1>2, CountedFinite, FS_RemoveElement

----------------------------------------------------------------------------
(* The steps *)

\* Nothing is spawned, counted or answered at the start.
LEMMA InitHandlers == Init => HandlerInv
<1>1. SUFFICES ASSUME Init PROVE HandlerInv
  OBVIOUS
<1>2. stage = [c \in Conns |-> "none"] /\ replies = [c \in Conns |-> <<>>] /\ handlers = 0
  BY <1>1 DEF Init
<1>3. Counted = {}
  BY <1>2 DEF Counted, Guarded
<1>4. HandlersCounted
  BY <1>2, <1>3, FS_EmptySet DEF HandlersCounted
<1>5. stage \in [Conns -> Stages] /\ client \in BOOLEAN
  BY <1>1, <1>2 DEF Init, Stages, Ended
<1>6. replies \in [Conns -> Seq(Replies)]
  BY <1>2
<1>7. Sides /\ \A c \in Conns : Told(c)
  BY <1>2 DEF Sides, Told
<1>8. QED
  BY <1>4, <1>5, <1>6, <1>7 DEF HandlerInv

\* Steps of run, of the accept loops and of the signals leave the handlers
\* alone, and none changes which side this is.
LEMMA ElseStep ==
  ASSUME HandlerInv, UNCHANGED <<client, connVars>>
  PROVE  HandlerInv'
<1>1. UNCHANGED <<client, stage, replies, handlers>>
  BY DEF connVars
<1>2. Counted' = Counted
  BY <1>1 DEF Counted
<1>3. QED
  BY <1>1, <1>2 DEF HandlerInv, HandlersCounted, Sides, Told

\* A handler moves to x, its replies becoming r: what has to be seen of a step.
LEMMA HandlerStep ==
  ASSUME HandlerInv, NEW c \in Conns, NEW x \in Stages, NEW r \in Seq(Replies),
         client' = client,
         stage' = [stage EXCEPT ![c] = x],
         replies' = [replies EXCEPT ![c] = r],
         Cardinality(Counted') = handlers',
         x \in {"socks", "dial", "refuse", "succeed"} => client,
         x \in {"wrap", "orport"} => ~client,
         Len(r) <= 1,
         x \in {"relay", "close"} => r = IF client THEN <<"Succeeded">> ELSE <<>>,
         x \notin {"relay", "close", "done"} => r = <<>>
  PROVE  HandlerInv'
<1>1. stage' \in [Conns -> Stages] /\ replies' \in [Conns -> Seq(Replies)]
  BY DEF HandlerInv
<1>2. client' \in BOOLEAN
  BY DEF HandlerInv
<1>3. Sides'
  BY DEF HandlerInv, Sides
<1>4. ASSUME NEW d \in Conns PROVE Told(d)'
  <2>1. CASE d = c
    BY <2>1 DEF HandlerInv, Told
  <2>2. CASE d # c
    BY <2>2 DEF HandlerInv, Told
  <2>3. QED
    BY <2>1, <2>2
<1>5. HandlersCounted'
  BY DEF HandlersCounted
<1>6. QED
  BY <1>1, <1>2, <1>3, <1>4, <1>5 DEF HandlerInv

\* Move keeps the guard and the replies.
LEMMA MoveStep ==
  ASSUME HandlerInv, NEW c \in Conns, NEW from \in Guarded, NEW to \in Guarded,
         Move(c, from, to),
         to \in {"socks", "dial", "refuse", "succeed"} => client,
         to \in {"wrap", "orport"} => ~client,
         (to = "close" /\ from = "relay") \/ {from, to} \cap {"relay", "close"} = {}
  PROVE  HandlerInv'
<1>1. stage \in [Conns -> Stages] /\ replies \in [Conns -> Seq(Replies)] /\ Told(c)
  BY DEF HandlerInv
<1>2. /\ stage[c] = from
      /\ stage' = [stage EXCEPT ![c] = to]
      /\ replies' = replies /\ handlers' = handlers /\ client' = client
  BY DEF Move, runVars
<1>3. to \in Stages
  BY DEF Stages
<1>4. Counted' = Counted
  BY <1>1, <1>2, <1>3, CountKept
<1>5. Cardinality(Counted') = handlers'
  BY <1>2, <1>4 DEF HandlerInv, HandlersCounted
<1>6. /\ replies[c] \in Seq(Replies)
      /\ replies' = [replies EXCEPT ![c] = replies[c]]
  BY <1>1, <1>2
<1>7. /\ Len(replies[c]) <= 1
      /\ to \in {"relay", "close"} => replies[c] = IF client THEN <<"Succeeded">> ELSE <<>>
      /\ to \notin {"relay", "close", "done"} => replies[c] = <<>>
  BY <1>1, <1>2 DEF Told, Guarded
<1>8. QED
  BY <1>2, <1>3, <1>5, <1>6, <1>7, HandlerStep

\* Return drops the guard; at most one reply has been or is now sent.
LEMMA ReturnStep ==
  ASSUME HandlerInv, NEW c \in Conns, NEW from \in Guarded, NEW r \in Seq(Replies),
         Return(c, from), replies' = [replies EXCEPT ![c] = r], Len(r) <= 1
  PROVE  HandlerInv'
<1>1. stage \in [Conns -> Stages]
  BY DEF HandlerInv
<1>2. /\ stage[c] \in Guarded
      /\ stage' = [stage EXCEPT ![c] = "done"]
      /\ handlers' = handlers - 1 /\ client' = client
  BY DEF Return, runVars
<1>3. "done" \in Stages \ Guarded
  BY DEF Stages, Ended, Guarded
<1>4. Cardinality(Counted') = Cardinality(Counted) - 1
  BY <1>1, <1>2, <1>3, CountDown
<1>5. Cardinality(Counted') = handlers'
  BY <1>2, <1>4 DEF HandlerInv, HandlersCounted
<1>6. QED
  BY <1>2, <1>3, <1>5, HandlerStep

\* A return that sends nothing.
LEMMA SilentReturn ==
  ASSUME HandlerInv, NEW c \in Conns, NEW from \in Guarded,
         Return(c, from), UNCHANGED replies
  PROVE  HandlerInv'
<1>1. /\ replies[c] \in Seq(Replies)
      /\ replies' = [replies EXCEPT ![c] = replies[c]]
      /\ Len(replies[c]) <= 1
  BY DEF HandlerInv, Told
<1>2. QED
  BY <1>1, ReturnStep

\* The relay starts with the reply its side owes.
LEMMA RelayStep ==
  ASSUME HandlerInv, NEW c \in Conns, NEW from \in Guarded, NEW r \in Seq(Replies),
         StartRelay(c, from), replies' = [replies EXCEPT ![c] = r],
         r = IF client THEN <<"Succeeded">> ELSE <<>>
  PROVE  HandlerInv'
<1>1. stage \in [Conns -> Stages]
  BY DEF HandlerInv
<1>2. /\ stage[c] \in Guarded
      /\ stage' = [stage EXCEPT ![c] = "relay"]
      /\ handlers' = handlers /\ client' = client
  BY DEF StartRelay, runVars
<1>3. "relay" \in Stages /\ "relay" \in Guarded
  BY DEF Stages, Guarded
<1>4. Counted' = Counted
  BY <1>1, <1>2, <1>3, CountKept
<1>5. Cardinality(Counted') = handlers'
  BY <1>2, <1>4 DEF HandlerInv, HandlersCounted
<1>6. Len(r) <= 1
  OBVIOUS
<1>7. QED
  BY <1>2, <1>3, <1>5, <1>6, HandlerStep

\* A handler that goes no further than its reply has sent none before.
LEMMA NoneBefore ==
  ASSUME HandlerInv, NEW c \in Conns, stage[c] \in Stages \ {"relay", "close", "done"}
  PROVE  replies \in [Conns -> Seq(Replies)] /\ replies[c] = <<>>
BY DEF HandlerInv, Told

\* A handler that starts takes its guard and its side's first stage.
LEMMA StartStep ==
  ASSUME HandlerInv, NEW c \in Conns, HandlerStart(c)
  PROVE  HandlerInv'
<1> DEFINE x == IF client THEN "socks" ELSE "wrap"
<1>1. stage \in [Conns -> Stages] /\ client \in BOOLEAN
  BY DEF HandlerInv
<1>2. /\ stage[c] = "spawned"
      /\ stage' = [stage EXCEPT ![c] = x]
      /\ handlers' = handlers + 1 /\ client' = client /\ replies' = replies
  BY DEF HandlerStart, runVars
<1>3. x \in Guarded /\ x \in Stages /\ "spawned" \notin Guarded /\ "spawned" \in Stages
  BY DEF Stages, Guarded
<1>4. Cardinality(Counted') = Cardinality(Counted) + 1
  BY <1>1, <1>2, <1>3, CountUp
<1>5. Cardinality(Counted') = handlers'
  BY <1>2, <1>4 DEF HandlerInv, HandlersCounted
<1>6. replies \in [Conns -> Seq(Replies)] /\ replies[c] = <<>>
  BY <1>2, <1>3, NoneBefore
<1>7. replies' = [replies EXCEPT ![c] = <<>>]
  BY <1>2, <1>6
<1>8. <<>> \in Seq(Replies) /\ Len(<<>>) <= 1
  OBVIOUS
<1>9. /\ x \in {"socks", "dial", "refuse", "succeed"} => client
      /\ x \in {"wrap", "orport"} => ~client
      /\ x \notin {"relay", "close", "done"}
  BY <1>1
<1> HIDE DEF x
<1>10. QED
  BY <1>2, <1>3, <1>5, <1>7, <1>8, <1>9, HandlerStep

\* A connection accepted is spawned, and neither counted nor answered yet.
LEMMA AcceptStep ==
  ASSUME HandlerInv, NEW c \in Conns, Accept(c)
  PROVE  HandlerInv'
<1>1. stage \in [Conns -> Stages]
  BY DEF HandlerInv
<1>2. /\ stage[c] = "none"
      /\ stage' = [stage EXCEPT ![c] = "spawned"]
      /\ handlers' = handlers /\ client' = client /\ replies' = replies
  BY DEF Accept, runVars
<1>3. {"none", "spawned"} \subseteq Stages \ Guarded
  BY DEF Stages, Ended, Guarded
<1>4. Counted' = Counted
  BY <1>1, <1>2, <1>3, CountKept
<1>5. Cardinality(Counted') = handlers'
  BY <1>2, <1>4 DEF HandlerInv, HandlersCounted
<1>6. replies \in [Conns -> Seq(Replies)] /\ replies[c] = <<>>
  BY <1>2, <1>3, NoneBefore
<1>7. replies' = [replies EXCEPT ![c] = <<>>]
  BY <1>2, <1>6
<1>8. <<>> \in Seq(Replies) /\ Len(<<>>) <= 1
  OBVIOUS
<1>9. "spawned" \in Stages
  BY <1>3
<1>10. QED
  BY <1>2, <1>5, <1>7, <1>8, <1>9, HandlerStep

\* The steps of a client's handler.
LEMMA ClientStep ==
  ASSUME HandlerInv, NEW c \in Conns, Client(c)
  PROVE  HandlerInv'
<1>1. CASE SocksFails(c)
  BY <1>1, SilentReturn DEF SocksFails, Guarded
<1>2. CASE ArgsRefused(c)
  <2>1. client
    BY <1>2 DEF HandlerInv, Sides, ArgsRefused, Move
  <2>2. QED
    BY <1>2, <2>1, MoveStep DEF ArgsRefused, Guarded
<1>3. CASE SocksDone(c)
  <2>1. client
    BY <1>3 DEF HandlerInv, Sides, SocksDone, Move
  <2>2. QED
    BY <1>3, <2>1, MoveStep DEF SocksDone, Guarded
<1>4. CASE DialFails(c)
  <2>1. client
    BY <1>4 DEF HandlerInv, Sides, DialFails, Move
  <2>2. QED
    BY <1>4, <2>1, MoveStep DEF DialFails, Guarded
<1>5. CASE DialDone(c)
  <2>1. client
    BY <1>5 DEF HandlerInv, Sides, DialDone, Move
  <2>2. QED
    BY <1>5, <2>1, MoveStep DEF DialDone, Guarded
<1>6. CASE Refuse(c)
  <2>1. Return(c, "refuse") /\ stage[c] = "refuse" /\ "refuse" \in Guarded
    BY <1>6 DEF Refuse, Return, Guarded
  <2>2. replies \in [Conns -> Seq(Replies)] /\ replies[c] = <<>>
    BY <2>1, NoneBefore DEF Stages
  <2>3. CASE UNCHANGED replies
    BY <2>1, <2>3, SilentReturn
  <2>4. CASE replies' = [replies EXCEPT ![c] = Append(@, "Failed")]
    <3>1. replies' = [replies EXCEPT ![c] = <<"Failed">>]
      BY <2>2, <2>4
    <3>2. <<"Failed">> \in Seq(Replies) /\ Len(<<"Failed">>) <= 1
      BY DEF Replies
    <3>3. QED
      BY <2>1, <3>1, <3>2, ReturnStep
  <2>5. QED
    BY <1>6, <2>3, <2>4 DEF Refuse
<1>7. CASE ReplySent(c)
  <2>1. StartRelay(c, "succeed") /\ stage[c] = "succeed" /\ "succeed" \in Guarded
    BY <1>7 DEF ReplySent, StartRelay, Guarded
  <2>2. replies \in [Conns -> Seq(Replies)] /\ replies[c] = <<>>
    BY <2>1, NoneBefore DEF Stages
  <2>3. replies' = [replies EXCEPT ![c] = <<"Succeeded">>]
    BY <1>7, <2>2 DEF ReplySent
  <2>4. client
    BY <2>1 DEF HandlerInv, Sides
  <2>5. <<"Succeeded">> \in Seq(Replies)
    BY DEF Replies
  <2>6. QED
    BY <2>1, <2>3, <2>4, <2>5, RelayStep
<1>8. CASE ReplyFails(c)
  BY <1>8, SilentReturn DEF ReplyFails, Guarded
<1>9. QED
  BY <1>1, <1>2, <1>3, <1>4, <1>5, <1>6, <1>7, <1>8 DEF Client

\* The steps of a bridge's handler.
LEMMA BridgeStep ==
  ASSUME HandlerInv, NEW c \in Conns, Bridge(c)
  PROVE  HandlerInv'
<1>1. CASE WrapFails(c)
  BY <1>1, SilentReturn DEF WrapFails, Guarded
<1>2. CASE WrapDone(c)
  <2>1. ~client
    BY <1>2 DEF HandlerInv, Sides, WrapDone, Move
  <2>2. QED
    BY <1>2, <2>1, MoveStep DEF WrapDone, Guarded
<1>3. CASE OrPortFails(c)
  BY <1>3, SilentReturn DEF OrPortFails, Guarded
<1>4. CASE OrPortDone(c)
  <2>1. StartRelay(c, "orport") /\ stage[c] = "orport" /\ "orport" \in Guarded
    BY <1>4 DEF OrPortDone, StartRelay, Guarded
  <2>2. replies \in [Conns -> Seq(Replies)] /\ replies[c] = <<>>
    BY <2>1, NoneBefore DEF Stages
  <2>3. replies' = [replies EXCEPT ![c] = <<>>]
    BY <1>4, <2>2 DEF OrPortDone
  <2>4. ~client
    BY <2>1 DEF HandlerInv, Sides
  <2>5. QED
    BY <2>1, <2>2, <2>3, <2>4, RelayStep
<1>5. QED
  BY <1>1, <1>2, <1>3, <1>4 DEF Bridge

\* The steps of a relay.
LEMMA RelaySteps ==
  ASSUME HandlerInv, NEW c \in Conns, Relay(c)
  PROVE  HandlerInv'
<1>1. CASE CopyEnds(c)
  BY <1>1, ElseStep DEF CopyEnds, runVars, HandlerInv, HandlersCounted, Counted, Sides, Told
<1>2. CASE RelayEnds(c)
  BY <1>2, MoveStep DEF RelayEnds, Guarded
<1>3. CASE Closed(c)
  BY <1>3, SilentReturn DEF Closed, Guarded
<1>4. QED
  BY <1>1, <1>2, <1>3 DEF Relay

\* Every step of the system, and a stutter, keeps the invariant.
LEMMA NextHandlers == HandlerInv /\ [Next]_vars => HandlerInv'
<1>1. SUFFICES ASSUME HandlerInv, [Next]_vars PROVE HandlerInv'
  OBVIOUS
<1>2. CASE Run
  <2>1. UNCHANGED <<client, connVars>>
    BY <1>2 DEF Run, Launch, Negotiate, MethodFails, MethodStarts, MethodsDone,
                ServeTerm, ServeInt, DrainSignal, DrainIdle
  <2>2. QED
    BY <1>1, <2>1, ElseStep
<1>3. CASE Fatal \/ SignalArrives \/ WatcherFires
  <2>1. UNCHANGED <<client, connVars>>
    BY <1>3 DEF Fatal, SignalArrives, WatcherFires, runVars
  <2>2. QED
    BY <1>1, <2>1, ElseStep
<1>4. ASSUME NEW i \in DOMAIN lns, AcceptFails(i) \/ LoopAborts(i) PROVE HandlerInv'
  <2>1. UNCHANGED <<client, connVars>>
    BY <1>4 DEF AcceptFails, LoopAborts, runVars
  <2>2. QED
    BY <1>1, <2>1, ElseStep
<1>5. CASE UNCHANGED vars
  BY <1>1, <1>5, ElseStep DEF vars, runVars
<1>6. ASSUME NEW c \in Conns,
             Accept(c) \/ HandlerStart(c) \/ Client(c) \/ Bridge(c) \/ Relay(c)
      PROVE  HandlerInv'
  BY <1>1, <1>6, AcceptStep, StartStep, ClientStep, BridgeStep, RelaySteps
<1>7. QED
  BY <1>1, <1>2, <1>3, <1>4, <1>5, <1>6 DEF Next

----------------------------------------------------------------------------
(* The theorems *)

\* HandlerInv holds in every reachable state.
THEOREM HandlersInvariant == Spec => []HandlerInv
BY InitHandlers, NextHandlers, PTL DEF Spec

\* The count the monitor waits on (termmon.rs) is exact: each way a handler
\* can return drops its guard once.
THEOREM CountExact == Spec => []HandlersCounted
<1>1. HandlerInv => HandlersCounted
  BY DEF HandlerInv
<1>2. QED
  BY <1>1, HandlersInvariant, PTL

\* Each connection gets at most one SOCKS reply, and bytes flow only after
\* "Succeeded" (client.rs handle).
THEOREM RepliesTrue == Spec => []ReplyTruth
<1>1. HandlerInv => ReplyTruth
  BY DEF HandlerInv, ReplyTruth, Told
<1>2. QED
  BY <1>1, HandlersInvariant, PTL

----------------------------------------------------------------------------
(* Types, and what tor is told                                              *)

\* The parts of the type invariant that HandlerInv does not have.
RunTyped ==
  /\ phase \in {"launch", "negotiate", "register", "serve", "drain", "exited"}
  /\ todo \in Seq(Methods) /\ tor \in Seq(Lines)
  /\ lns \in Seq({"accepting", "aborted", "stopped"})
  /\ code \in {0, 1, 255}
  /\ cause \in {"running", "fatal", "nothing", "signal", "idle"}

RestTyped ==
  /\ copying \in [Conns -> SUBSET Halves]
  /\ queue \in Seq(Signals) /\ senders \subseteq {"listener", "watcher"}
  /\ sent \in 0 .. MaxSignals /\ due \subseteq Conns

HandlerSteps(c) == Accept(c) \/ HandlerStart(c) \/ Client(c) \/ Bridge(c) \/ Relay(c)

\* A handler's step is its own: run, the listeners and the signals stay.
LEMMA HandlerFrame ==
  ASSUME NEW c \in Conns, HandlerSteps(c)
  PROVE  UNCHANGED <<runVars, lns, sigVars>> /\ Running
BY DEF HandlerSteps, Accept, HandlerStart, Client, Bridge, Relay, SocksFails,
   ArgsRefused, SocksDone, DialFails, DialDone, Refuse, ReplySent, ReplyFails,
   WrapFails, WrapDone, OrPortFails, OrPortDone, CopyEnds, RelayEnds, Closed,
   Move, Return, StartRelay

\* A handler that was past its first poll stays so or is done, and no handler
\* comes back.
LEMMA HandlerOnward ==
  ASSUME HandlerInv, NEW c \in Conns, HandlerSteps(c), NEW d \in Conns
  PROVE  /\ stage[d] \in Guarded \cup {"done"} => stage'[d] \in Guarded \cup {"done"}
         /\ stage[d] = "done" => stage'[d] = "done"
<1> stage \in [Conns -> Stages]
  BY DEF HandlerInv
<1> USE DEF Stages, Guarded, Ended
<1>1. CASE Accept(c) \/ HandlerStart(c)
  BY <1>1 DEF Accept, HandlerStart
<1>2. CASE Client(c)
  BY <1>2 DEF Client, SocksFails, ArgsRefused, SocksDone, DialFails, DialDone,
     Refuse, ReplySent, ReplyFails, Move, Return, StartRelay
<1>3. CASE Bridge(c)
  BY <1>3 DEF Bridge, WrapFails, WrapDone, OrPortFails, OrPortDone, Move, Return,
     StartRelay
<1>4. CASE Relay(c)
  BY <1>4 DEF Relay, CopyEnds, RelayEnds, Closed, Move, Return
<1>5. QED
  BY <1>1, <1>2, <1>3, <1>4 DEF HandlerSteps

LEMMA LineTypes ==
  /\ Line("VERSION", "") \in Lines /\ Line("PROXY", "") \in Lines
  /\ Line("DONE", "") \in Lines /\ Line("ERROR", "") \in Lines
  /\ \A m \in Methods : Line("METHOD", m) \in Lines /\ Line("METHOD-ERROR", m) \in Lines
BY DEF Line, Lines

LEMMA ShortTypes ==
  /\ <<>> \in Seq(Lines)
  /\ \A a \in Lines : <<a>> \in Seq(Lines)
  /\ \A a, b \in Lines : <<a, b>> \in Seq(Lines)
  /\ \A s \in Seq(Lines), a \in Lines : Append(s, a) \in Seq(Lines)
OBVIOUS

Plain(line) == line.kw # "METHOD"

LEMMA PlainLines ==
  /\ \A i \in DOMAIN <<>> : Plain(<<>>[i])
  /\ \A a : Plain(a) => \A i \in DOMAIN <<a>> : Plain(<<a>>[i])
  /\ \A a, b : Plain(a) /\ Plain(b) => \A i \in DOMAIN <<a, b>> : Plain(<<a, b>>[i])
<1>1. \A i \in DOMAIN <<>> : Plain(<<>>[i])
  OBVIOUS
<1>2. ASSUME NEW a, Plain(a), NEW i \in DOMAIN <<a>> PROVE Plain(<<a>>[i])
  BY <1>2
<1>3. ASSUME NEW a, NEW b, Plain(a), Plain(b), NEW i \in DOMAIN <<a, b>>
      PROVE  Plain(<<a, b>>[i])
  BY <1>3
<1>4. QED
  BY <1>1, <1>2, <1>3

\* A fatal error and the negotiation start the transcript, without a METHOD.
LEMMA FirstLines ==
  ASSUME Fatal \/ Negotiate
  PROVE  tor' \in Seq(Lines) /\ ~Serving'
<1>1. tor' \in {<<>>, <<Line("ERROR", "")>>, <<Line("VERSION", "")>>,
               <<Line("VERSION", ""), Line("ERROR", "")>>,
               <<Line("VERSION", ""), Line("PROXY", "")>>}
  BY DEF Fatal, Negotiate
<1>2. tor' \in Seq(Lines)
  BY <1>1, LineTypes, ShortTypes
<1>3. Plain(Line("ERROR", "")) /\ Plain(Line("VERSION", "")) /\ Plain(Line("PROXY", ""))
  BY DEF Plain, Line
<1>4. \A i \in DOMAIN tor' : Plain(tor'[i])
  BY <1>1, <1>3, PlainLines
<1>5. QED
  BY <1>2, <1>4 DEF Serving, Plain

LEMMA RunTypedStep == RunTyped /\ [Next]_vars => RunTyped'
<1> SUFFICES ASSUME RunTyped, [Next]_vars PROVE RunTyped'
  OBVIOUS
<1> USE DEF RunTyped
<1>1. CASE UNCHANGED <<runVars, lns>>
  BY <1>1 DEF runVars
<1>3. CASE Fatal
  BY <1>3, FirstLines DEF Fatal, Exit
<1>4. CASE Launch
  BY <1>4 DEF Launch
<1>5. CASE Negotiate
  <2>1. PICK n \in 0 .. MaxMethods : \E ms \in [1 .. n -> Methods] : todo' = ms
    BY <1>5 DEF Negotiate
  <2>2. n \in Nat
    BY LifecycleAssumption
  <2>3. todo' \in Seq(Methods)
    BY <2>1, <2>2
  <2>4. QED
    BY <1>5, <2>3, FirstLines DEF Negotiate
<1>6. CASE MethodFails \/ MethodStarts
  <2>1. todo # <<>> /\ Head(todo) \in Methods /\ Tail(todo) \in Seq(Methods)
    BY <1>6 DEF MethodFails, MethodStarts
  <2>2. Line("METHOD", Head(todo)) \in Lines /\ Line("METHOD-ERROR", Head(todo)) \in Lines
    BY <2>1, LineTypes
  <2>3. tor' \in Seq(Lines)
    <3>1. CASE MethodFails
      BY <2>2, <3>1, ShortTypes DEF MethodFails
    <3>2. CASE MethodStarts
      BY <2>2, <3>2, ShortTypes DEF MethodStarts
    <3>3. QED
      BY <1>6, <3>1, <3>2
  <2>4. lns' \in Seq({"accepting", "aborted", "stopped"})
    <3>1. CASE MethodFails
      BY <3>1 DEF MethodFails
    <3>2. CASE MethodStarts
      BY <3>2 DEF MethodStarts
    <3>3. QED
      BY <1>6, <3>1, <3>2
  <2>5. QED
    BY <1>6, <2>1, <2>3, <2>4 DEF MethodFails, MethodStarts
<1>7. CASE MethodsDone
  <2>1. tor' \in Seq(Lines)
    BY <1>7, LineTypes, ShortTypes DEF MethodsDone
  <2>2. QED
    BY <1>7, <2>1 DEF MethodsDone, Exit
<1>8. CASE ServeTerm \/ DrainSignal \/ DrainIdle
  BY <1>8 DEF ServeTerm, DrainSignal, DrainIdle, Exit
<1>9. CASE ServeInt
  BY <1>9 DEF ServeInt, AbortAll
<1>10. ASSUME NEW i \in DOMAIN lns, AcceptFails(i) \/ LoopAborts(i) PROVE RunTyped'
  <2>1. CASE AcceptFails(i)
    BY <2>1 DEF AcceptFails, runVars
  <2>2. CASE LoopAborts(i)
    BY <2>2 DEF LoopAborts, runVars
  <2>3. QED
    BY <1>10, <2>1, <2>2
<1>11. CASE SignalArrives \/ WatcherFires \/ UNCHANGED vars
  BY <1>1, <1>11 DEF SignalArrives, WatcherFires, vars
<1>12. ASSUME NEW c \in Conns, HandlerSteps(c) PROVE RunTyped'
  BY <1>1, <1>12, HandlerFrame
<1>13. QED
  BY <1>3, <1>4, <1>5, <1>6, <1>7, <1>8, <1>9, <1>10, <1>11, <1>12
     DEF Next, Run, HandlerSteps

LEMMA RestTypedStep == RestTyped /\ [Next]_vars => RestTyped'
<1> SUFFICES ASSUME RestTyped, [Next]_vars PROVE RestTyped'
  OBVIOUS
<1> USE LifecycleAssumption DEF RestTyped
<1>1. CASE UNCHANGED <<copying, sigVars>>
  BY <1>1 DEF sigVars
<1>2. CASE Run \/ Fatal
  <2>1. CASE Fatal \/ Launch \/ Negotiate \/ MethodFails \/ MethodStarts
               \/ MethodsDone \/ DrainIdle
    <3>1. UNCHANGED <<connVars, sigVars>>
      BY <2>1 DEF Fatal, Launch, Negotiate, MethodFails, MethodStarts, MethodsDone,
         DrainIdle
    <3>2. QED
      BY <1>1, <3>1 DEF connVars
  <2>2. CASE ServeTerm \/ DrainSignal
    <3>1. queue' \in Seq(Signals)
      BY <2>2 DEF ServeTerm, DrainSignal
    <3>2. QED
      BY <2>2, <3>1 DEF ServeTerm, DrainSignal, connVars
  <2>3. CASE ServeInt
    BY <2>3 DEF ServeInt, Counted, connVars
  <2>4. QED
    BY <1>2, <2>1, <2>2, <2>3 DEF Run
<1>3. CASE SignalArrives \/ WatcherFires
  <2>1. queue' \in Seq(Signals)
    <3>1. \A x \in Signals : Append(queue, x) \in Seq(Signals)
      OBVIOUS
    <3>2. "Term" \in Signals
      BY DEF Signals
    <3>3. QED
      BY <1>3, <3>1, <3>2 DEF SignalArrives, WatcherFires
  <2>2. sent' \in 0 .. MaxSignals
    BY <1>3 DEF SignalArrives, WatcherFires
  <2>3. QED
    BY <1>3, <2>1, <2>2 DEF SignalArrives, WatcherFires, connVars
<1>4. ASSUME NEW i \in DOMAIN lns, AcceptFails(i) \/ LoopAborts(i) PROVE RestTyped'
  BY <1>1, <1>4 DEF AcceptFails, LoopAborts, connVars
<1>5. ASSUME NEW c \in Conns, HandlerSteps(c) PROVE RestTyped'
  <2>1. copying' \in [Conns -> SUBSET Halves]
    BY <1>5 DEF HandlerSteps, Accept, HandlerStart, Client, Bridge, Relay,
       SocksFails, ArgsRefused, SocksDone, DialFails, DialDone, Refuse, ReplySent,
       ReplyFails, WrapFails, WrapDone, OrPortFails, OrPortDone, CopyEnds,
       RelayEnds, Closed, Move, Return, StartRelay
  <2>2. QED
    BY <1>5, <2>1, HandlerFrame DEF sigVars
<1>6. QED
  BY <1>1, <1>2, <1>3, <1>4, <1>5 DEF Next, HandlerSteps, vars, connVars

LEMMA Types == Spec => [](RunTyped /\ RestTyped)
<1>1. Init => RunTyped /\ RestTyped
  BY LifecycleAssumption DEF Init, RunTyped, RestTyped
<1>2. QED
  BY <1>1, RunTypedStep, RestTypedStep, PTL DEF Spec

\* A line more is what the lines before it were, and itself.
LEMMA OneLineMore ==
  ASSUME tor \in Seq(Lines), NEW kw, NEW m, Line(kw, m) \in Lines,
         tor' = Append(tor, Line(kw, m))
  PROVE  /\ Serving' <=> Serving \/ kw = "METHOD"
         /\ tor'[Len(tor')].kw = kw
<1>1. /\ Len(tor) \in Nat /\ DOMAIN tor = 1 .. Len(tor)
      /\ DOMAIN tor' = 1 .. Len(tor) + 1 /\ Len(tor') = Len(tor) + 1
      /\ \A i \in 1 .. Len(tor) : tor'[i] = tor[i]
      /\ tor'[Len(tor) + 1].kw = kw
  BY DEF Line
<1>2. \A i \in DOMAIN tor' : i \in DOMAIN tor \/ i = Len(tor) + 1
  BY <1>1
<1>3. Len(tor) + 1 \in DOMAIN tor' /\ \A i \in DOMAIN tor : i \in DOMAIN tor'
  BY <1>1
<1>4. QED
  BY <1>1, <1>2, <1>3 DEF Serving

\* What stands in the transcript, by where run stands and why it ended.
ReportInv ==
  /\ phase # "exited" => cause = "running" /\ code = 0
  /\ phase \in {"launch", "negotiate"} => lns = <<>>
  /\ phase = "register" => (lns = <<>> <=> ~Serving)
  /\ phase \in {"serve", "drain"} => Serving
  /\ phase = "drain" => \A c \in due : stage[c] \in Guarded \cup {"done"}
  /\ phase = "exited" =>
       \/ cause = "fatal" /\ code = 1 /\ ~Serving
       \/ cause = "nothing" /\ code = 255 /\ ~Serving /\ tor[Len(tor)].kw = "DONE"
       \/ cause = "signal" /\ code = 0 /\ Serving
       \/ cause = "idle" /\ code = 0 /\ Serving /\ \A c \in due : stage[c] = "done"

\* The count is zero only if every handler is over or has yet to start.
LEMMA NoneGuarded ==
  ASSUME HandlerInv, handlers = 0
  PROVE  \A c \in Conns : stage[c] \notin Guarded
<1>1. Cardinality(Counted) = 0 /\ IsFiniteSet(Counted)
  BY CountedFinite DEF HandlerInv, HandlersCounted
<1>2. Counted = {}
  BY <1>1, FS_EmptySet
<1>3. QED
  BY <1>2 DEF Counted

LEMMA ReportRun ==
  ASSUME HandlerInv, RunTyped, RestTyped, ReportInv, Run \/ Fatal
  PROVE  ReportInv'
<1> USE DEF ReportInv, RunTyped
<1>1. CASE Fatal
  BY <1>1, FirstLines DEF Fatal, Exit
<1>2. CASE Launch
  BY <1>2 DEF Launch, connVars, sigVars
<1>3. CASE Negotiate
  BY <1>3, FirstLines DEF Negotiate
<1>4. CASE MethodFails \/ MethodStarts
  <2>1. Head(todo) \in Methods
    BY <1>4 DEF MethodFails, MethodStarts
  <2>2. Line("METHOD", Head(todo)) \in Lines /\ Line("METHOD-ERROR", Head(todo)) \in Lines
    BY <2>1, LineTypes
  <2>3. CASE MethodFails
    <3>1. lns' = lns /\ UNCHANGED <<phase, cause, code>>
      BY <2>3 DEF MethodFails
    <3>2. QED
      BY <2>2, <2>3, <3>1, OneLineMore DEF MethodFails
  <2>4. CASE MethodStarts
    <3>1. lns' # <<>> /\ Serving' /\ phase' = "register"
          /\ UNCHANGED <<cause, code>>
      BY <2>2, <2>4, OneLineMore DEF MethodStarts
    <3>2. QED
      BY <2>4, <3>1 DEF MethodStarts
  <2>5. QED
    BY <1>4, <2>3, <2>4
<1>5. CASE MethodsDone
  <2>1. Line("DONE", "") \in Lines /\ tor' = Append(tor, Line("DONE", ""))
    BY <1>5, LineTypes DEF MethodsDone
  <2>2. Serving' <=> Serving \/ "DONE" = "METHOD"
    BY <2>1, OneLineMore
  <2>3. tor'[Len(tor')].kw = "DONE"
    BY <2>1, OneLineMore
  <2>4. QED
    BY <1>5, <2>2, <2>3 DEF MethodsDone, Exit
<1>6. CASE ServeTerm \/ DrainSignal
  BY <1>6 DEF ServeTerm, DrainSignal, Exit, Serving
<1>7. CASE ServeInt
  BY <1>7 DEF ServeInt, connVars, Counted, Serving
<1>8. CASE DrainIdle
  BY <1>8, NoneGuarded DEF DrainIdle, Exit, Serving, connVars, sigVars, RestTyped
<1>9. QED
  BY <1>1, <1>2, <1>3, <1>4, <1>5, <1>6, <1>7, <1>8 DEF Run

LEMMA ReportStep ==
  HandlerInv /\ RunTyped /\ RestTyped /\ ReportInv /\ [Next]_vars => ReportInv'
<1> SUFFICES ASSUME HandlerInv, RunTyped, RestTyped, ReportInv, [Next]_vars
             PROVE  ReportInv'
  OBVIOUS
<1>1. CASE UNCHANGED <<runVars, lns, stage, due>>
  BY <1>1 DEF runVars, ReportInv, Serving
<1>2. CASE SignalArrives \/ WatcherFires \/ UNCHANGED vars
  BY <1>1, <1>2 DEF SignalArrives, WatcherFires, vars, connVars, sigVars
<1>3. ASSUME NEW i \in DOMAIN lns, AcceptFails(i) \/ LoopAborts(i) PROVE ReportInv'
  <2>1. lns # <<>> /\ lns' # <<>> /\ phase # "exited"
        /\ UNCHANGED <<runVars, stage, due>>
    BY <1>3 DEF AcceptFails, LoopAborts, RunTyped, connVars, sigVars, Running
  <2>2. QED
    BY <2>1 DEF ReportInv, runVars, Serving
<1>4. ASSUME NEW c \in Conns, HandlerSteps(c) PROVE ReportInv'
  <2>1. UNCHANGED <<runVars, lns, due>> /\ phase # "exited"
    BY <1>4, HandlerFrame DEF sigVars, Running
  <2>2. \A d \in due : stage[d] \in Guarded \cup {"done"}
                         => stage'[d] \in Guarded \cup {"done"}
    BY <1>4, HandlerOnward DEF RestTyped
  <2>3. QED
    BY <2>1, <2>2 DEF ReportInv, runVars, Serving
<1>5. QED
  BY <1>2, <1>3, <1>4, ReportRun DEF Next, HandlerSteps

\* Every variable keeps its type.
THEOREM TypeCorrect == Spec => []TypeOK
<1>1. HandlerInv /\ RunTyped /\ RestTyped => TypeOK
  BY CountedFinite DEF HandlerInv, HandlersCounted, RunTyped, RestTyped, TypeOK,
     Replies
<1>2. QED
  BY <1>1, HandlersInvariant, Types, PTL

\* app/mod.rs run: what tor was told, the exit code and what ended the run
\* agree, and a drain that nothing cut short waited for every handler.
THEOREM ReportsTrue == Spec => []ExitMatchesReport
<1>1. Init => ReportInv
  BY DEF Init, ReportInv, Serving
<1>2. ReportInv /\ RunTyped => ExitMatchesReport
  BY DEF ReportInv, RunTyped, ExitMatchesReport
<1>3. QED
  BY <1>1, <1>2, ReportStep, HandlersInvariant, Types, PTL DEF Spec

-----------------------------------------------------------------------------

Typed ==
  /\ \A f \in {made, taken, hand, held, sock, got} : f \in [Dirs -> Nat]
  /\ source \in [Dirs -> {"open", "eof", "error"}]
  /\ peer \in [Dirs -> {"reads", "stalled", "gone"}]
  /\ copy \in [Dirs -> {"copying", "ok", "failed"}]
  /\ shut \in [Dirs -> {"open", "shut", "timeout"}]

\* What was read is in the hand, held, in the socket or with the peer; only a
\* shutdown that times out drops some.
Accounted(d) ==
  /\ got[d] + sock[d] + held[d] + hand[d] <= taken[d]
  /\ shut[d] # "timeout" => got[d] + sock[d] + held[d] + hand[d] = taken[d]
  /\ taken[d] <= made[d] /\ made[d] <= MaxBytes

\* The buffers keep their sizes, and a plain writer holds nothing back.
Sizes(d) ==
  /\ hand[d] <= CopyBuffer /\ sock[d] <= SockSize /\ held[d] <= HeldSize
  /\ d \notin Buffering => held[d] = 0

\* An end of the copy, and of the shutdown, means what it says.
EndMeans(d) ==
  /\ copy[d] = "ok" => source[d] = "eof" /\ taken[d] = made[d] /\ hand[d] = 0
  /\ shut[d] # "open" => copy[d] # "copying"
  /\ shut[d] = "shut" /\ peer[d] # "gone" => held[d] = 0

LineInv == Typed /\ \A d \in Dirs : Accounted(d) /\ Sizes(d) /\ EndMeans(d)

LEMMA LeastLow ==
  ASSUME NEW m \in Nat, NEW n \in Nat
  PROVE  Least(m, n) \in Nat /\ Least(m, n) <= m /\ Least(m, n) <= n
         /\ Least(m, n) \in {m, n}
BY DEF Least

\* A step concerns one direction.
LEMMA OneDirection ==
  ASSUME Typed, NEW d \in Dirs, NEW e \in Dirs \ {d}, Ends(d) \/ Copy(d) \/ Close(d)
  PROVE  /\ made'[e] = made[e] /\ source'[e] = source[e] /\ taken'[e] = taken[e]
         /\ hand'[e] = hand[e] /\ held'[e] = held[e] /\ sock'[e] = sock[e]
         /\ got'[e] = got[e] /\ peer'[e] = peer[e] /\ copy'[e] = copy[e]
         /\ shut'[e] = shut[e]
<1> USE DEF Typed
<1>1. CASE Ends(d)
  BY <1>1 DEF Ends, SourceSends, SourceEnds, PeerReads, PeerQuits, envVars
<1>2. CASE Copy(d)
  BY <1>2 DEF Copy, Read, ReadEnds, Write, WriteFails, envVars
<1>3. CASE Close(d)
  BY <1>3 DEF Close, ShutdownWrites, Shutdown, ShutdownTimesOut, envVars
<1>4. QED
  BY <1>1, <1>2, <1>3

\* What write_all's poll does to the line: n bytes leave the hand, and as much
\* of what is held leaves for the socket as fits.
LEMMA WriteKeeps ==
  ASSUME LineInv, CopyAssumption, NEW d \in Dirs, Write(d)
  PROVE  Typed' /\ Accounted(d)' /\ Sizes(d)' /\ EndMeans(d)'
<1>1. /\ made[d] \in Nat /\ taken[d] \in Nat /\ hand[d] \in Nat
      /\ held[d] \in Nat /\ sock[d] \in Nat /\ got[d] \in Nat
      /\ CopyBuffer \in Nat /\ HeldSize \in Nat /\ SockSize \in Nat
      /\ sock[d] <= SockSize /\ held[d] <= HeldSize
  BY DEF LineInv, Typed, Sizes, CopyAssumption
<1> DEFINE n == Least(hand[d], Room(d))
           out == Least(held[d] + n, SockSize - sock[d])
<1>2. Room(d) \in Nat
  BY <1>1 DEF Room
<1>3. n \in Nat /\ n <= hand[d] /\ n <= Room(d)
  BY <1>1, <1>2, LeastLow
<1>4. held[d] + n \in Nat /\ SockSize - sock[d] \in Nat
  BY <1>1, <1>3
<1>5. /\ out \in Nat /\ out <= held[d] + n /\ out <= SockSize - sock[d]
      /\ out \in {held[d] + n, SockSize - sock[d]}
  BY <1>4, LeastLow
<1>6. /\ hand' = [hand EXCEPT ![d] = @ - n]
      /\ held' = [held EXCEPT ![d] = @ + n - out]
      /\ sock' = [sock EXCEPT ![d] = @ + out]
      /\ UNCHANGED <<envVars, taken, got, copy, shut>>
      /\ copy[d] = "copying"
  BY DEF Write
<1> HIDE DEF n, out
<1>7. hand[d] - n \in Nat /\ held[d] + n - out \in Nat /\ sock[d] + out \in Nat
  BY <1>1, <1>3, <1>5
<1>8. Typed'
  BY <1>6, <1>7 DEF LineInv, Typed, envVars
<1>9. /\ hand'[d] = hand[d] - n /\ held'[d] = held[d] + n - out
      /\ sock'[d] = sock[d] + out
  BY <1>6 DEF LineInv, Typed
<1>10. Accounted(d)'
  BY <1>1, <1>3, <1>5, <1>6, <1>9 DEF LineInv, Accounted, envVars
<1>11. held[d] + n - out <= HeldSize /\ (d \notin Buffering => held[d] + n - out = 0)
  <2>1. CASE out = held[d] + n
    BY <2>1, <1>1, <1>3
  <2>2. CASE out = SockSize - sock[d] /\ d \in Buffering
    BY <2>2, <1>1, <1>3, <1>5 DEF Room
  <2>3. CASE out = SockSize - sock[d] /\ d \notin Buffering
    <3>1. held[d] = 0 /\ n <= SockSize - sock[d]
      BY <2>3, <1>1, <1>3 DEF Room, LineInv, Sizes
    <3>2. QED
      BY <2>3, <3>1, <1>1, <1>3, <1>5
  <2>4. QED
    BY <2>1, <2>2, <2>3, <1>5
<1>12. hand[d] <= CopyBuffer
  BY DEF LineInv, Sizes
<1>13. Sizes(d)'
  BY <1>1, <1>3, <1>5, <1>9, <1>11, <1>12 DEF Sizes
<1>14. EndMeans(d)'
  BY <1>6 DEF LineInv, EndMeans, envVars
<1>15. QED
  BY <1>8, <1>10, <1>13, <1>14

\* The shutdown moves what is held into the socket.
LEMMA ShutdownWritesKeeps ==
  ASSUME LineInv, CopyAssumption, NEW d \in Dirs, ShutdownWrites(d)
  PROVE  Typed' /\ Accounted(d)' /\ Sizes(d)' /\ EndMeans(d)'
<1>1. /\ made[d] \in Nat /\ taken[d] \in Nat /\ hand[d] \in Nat
      /\ held[d] \in Nat /\ sock[d] \in Nat /\ got[d] \in Nat
      /\ HeldSize \in Nat /\ SockSize \in Nat
      /\ sock[d] <= SockSize /\ held[d] <= HeldSize
      /\ d \notin Buffering => held[d] = 0
  BY DEF LineInv, Typed, Sizes, CopyAssumption
<1> DEFINE out == Least(held[d], SockSize - sock[d])
<1>2. out \in Nat /\ out <= held[d] /\ out <= SockSize - sock[d]
  <2>1. held[d] \in Nat /\ SockSize - sock[d] \in Nat
    BY <1>1
  <2>2. QED
    BY <2>1, LeastLow, Zenon
<1>3. /\ held' = [held EXCEPT ![d] = @ - out]
      /\ sock' = [sock EXCEPT ![d] = @ + out]
      /\ UNCHANGED <<envVars, taken, hand, got, copy, shut>>
      /\ shut[d] = "open"
  BY DEF ShutdownWrites, Turn
<1> HIDE DEF out
<1>4. held[d] - out \in Nat /\ sock[d] + out \in Nat
  BY <1>1, <1>2
<1>5. Typed'
  BY <1>3, <1>4 DEF LineInv, Typed, envVars
<1>6. held'[d] = held[d] - out /\ sock'[d] = sock[d] + out
  BY <1>3 DEF LineInv, Typed
<1>7. Accounted(d)'
  BY <1>1, <1>2, <1>3, <1>6 DEF LineInv, Accounted, envVars
<1>8. Sizes(d)'
  BY <1>1, <1>2, <1>3, <1>6 DEF LineInv, Sizes
<1>9. EndMeans(d)'
  BY <1>3 DEF LineInv, EndMeans, envVars
<1>10. QED
  BY <1>5, <1>7, <1>8, <1>9

\* Reads, ends and the two ends of the line.
LEMMA OthersKeep ==
  ASSUME LineInv, CopyAssumption, NEW d \in Dirs,
         \/ Ends(d) \/ Read(d) \/ ReadEnds(d) \/ WriteFails(d)
         \/ Shutdown(d) \/ ShutdownTimesOut(d)
  PROVE  Typed' /\ Accounted(d)' /\ Sizes(d)' /\ EndMeans(d)'
<1>1. /\ made[d] \in Nat /\ taken[d] \in Nat /\ hand[d] \in Nat
      /\ held[d] \in Nat /\ sock[d] \in Nat /\ got[d] \in Nat
      /\ CopyBuffer \in Nat /\ HeldSize \in Nat /\ SockSize \in Nat /\ MaxBytes \in Nat
  BY DEF LineInv, Typed, CopyAssumption
<1> USE <1>1 DEF LineInv, Typed, Accounted, Sizes, EndMeans
<1>2. CASE SourceSends(d)
  BY <1>2 DEF SourceSends
<1>3. CASE SourceEnds(d)
  BY <1>3 DEF SourceEnds
<1>4. CASE PeerReads(d)
  BY <1>4 DEF PeerReads, envVars
<1>5. CASE PeerQuits(d)
  BY <1>5 DEF PeerQuits
<1>6. CASE Read(d)
  <2>1. PICK n \in 1 .. Least(CopyBuffer, made[d] - taken[d]) :
          /\ hand' = [hand EXCEPT ![d] = n]
          /\ taken' = [taken EXCEPT ![d] = @ + n]
    BY <1>6 DEF Read
  <2>2. /\ n \in Nat /\ n <= CopyBuffer /\ taken[d] + n <= made[d]
    <3> DEFINE room == made[d] - taken[d]
    <3>1. room \in Nat /\ CopyBuffer \in Nat
      BY <1>6 DEF Read
    <3>2. Least(CopyBuffer, room) \in Nat /\ Least(CopyBuffer, room) <= CopyBuffer
          /\ Least(CopyBuffer, room) <= room
      BY <3>1, LeastLow
    <3> HIDE DEF room
    <3>3. n \in Nat /\ n <= Least(CopyBuffer, room)
      BY <2>1, <3>2 DEF room
    <3>4. n <= CopyBuffer /\ n <= room
      BY <3>1, <3>2, <3>3
    <3>5. QED
      BY <3>3, <3>4 DEF room
  <2>3. /\ copy[d] = "copying" /\ hand[d] = 0
        /\ UNCHANGED <<envVars, held, sock, got, copy, shut>>
    BY <1>6 DEF Read
  <2>4. hand'[d] = n /\ taken'[d] = taken[d] + n
    BY <2>1
  <2>5. Typed'
    BY <2>1, <2>2, <2>3 DEF envVars
  <2>6. Accounted(d)'
    BY <2>2, <2>3, <2>4 DEF envVars
  <2>7. Sizes(d)'
    BY <2>2, <2>3, <2>4
  <2>8. EndMeans(d)'
    BY <2>3 DEF envVars
  <2>9. QED
    BY <2>5, <2>6, <2>7, <2>8
<1>7. CASE ReadEnds(d)
  BY <1>7 DEF ReadEnds, envVars
<1>8. CASE WriteFails(d)
  BY <1>8 DEF WriteFails, envVars
<1>9. CASE Shutdown(d)
  BY <1>9 DEF Shutdown, Turn, Joined, envVars
<1>10. CASE ShutdownTimesOut(d)
  BY <1>10 DEF ShutdownTimesOut, Turn, Joined, envVars
<1>11. QED
  BY <1>2, <1>3, <1>4, <1>5, <1>6, <1>7, <1>8, <1>9, <1>10 DEF Ends

LEMMA LineStep == LineInv /\ CopyAssumption /\ [CopyNext]_copyVars => LineInv'
<1> SUFFICES ASSUME LineInv, CopyAssumption, [CopyNext]_copyVars PROVE LineInv'
  OBVIOUS
<1>1. CASE UNCHANGED copyVars
  BY <1>1 DEF copyVars, envVars, LineInv, Typed, Accounted, Sizes, EndMeans
<1>2. ASSUME NEW d \in Dirs, Ends(d) \/ Copy(d) \/ Close(d) PROVE LineInv'
  <2>1. Typed' /\ Accounted(d)' /\ Sizes(d)' /\ EndMeans(d)'
    BY <1>2, WriteKeeps, ShutdownWritesKeeps, OthersKeep DEF Copy, Close
  <2>2. ASSUME NEW e \in Dirs \ {d} PROVE Accounted(e)' /\ Sizes(e)' /\ EndMeans(e)'
    BY <1>2, <2>2, OneDirection DEF LineInv, Accounted, Sizes, EndMeans
  <2>3. QED
    BY <2>1, <2>2 DEF LineInv
<1>3. QED
  BY <1>1, <1>2 DEF CopyNext

THEOREM LineInvariant == CopySpec => []LineInv
<1>1. CopyInit => LineInv
  BY CopyAssumption DEF CopyInit, Zero, LineInv, Typed, Accounted, Sizes, EndMeans,
     CopyAssumption
<1>2. QED
  BY <1>1, LineStep, CopyAssumption, PTL DEF CopySpec

\* relay.rs: every buffer keeps its size.
THEOREM CopyTypeCorrect == CopySpec => []CopyTypeOK
<1>1. LineInv => CopyTypeOK
  <2> SUFFICES ASSUME LineInv PROVE CopyTypeOK
    OBVIOUS
  <2>1. \A d \in Dirs :
          /\ made[d] \in 0 .. MaxBytes /\ taken[d] \in 0 .. MaxBytes
          /\ hand[d] \in 0 .. CopyBuffer /\ held[d] \in 0 .. HeldSize
          /\ sock[d] \in 0 .. SockSize /\ got[d] \in 0 .. MaxBytes
    BY CopyAssumption DEF LineInv, Typed, Accounted, Sizes, CopyAssumption
  <2>2. QED
    BY <2>1 DEF LineInv, Typed, CopyTypeOK
<1>2. QED
  BY <1>1, LineInvariant, PTL

\* relay.rs copy_loop: a relay that ended well lost nothing, for every size of
\* the buffers and whichever writers are TLS streams.
THEOREM NothingLost == CopySpec => []CleanClose
<1>1. LineInv => CleanClose
  BY DEF LineInv, Typed, Accounted, EndMeans, CleanClose
<1>2. QED
  BY <1>1, LineInvariant, PTL
=============================================================================
