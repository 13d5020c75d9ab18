--------------------------- MODULE SnowflakeSession ---------------------------
(***************************************************************************)
(* One snowflake session: the pool (Peers) composed with the dial loop of  *)
(* RedialPacketConn, the dial closure of `new_session`, and the teardown   *)
(* of SnowflakeConn.                                                       *)
(*                                                                         *)
(* The dial loop pops a snowflake, writes the Turbo Tunnel token and the   *)
(* client id to it, exchanges packets until it fails, closes it and dials  *)
(* again; an error of the dial closes the packet connection for good.      *)
(***************************************************************************)
EXTENDS PoolSize, Sequences

VARIABLES
  link, active, chan, collector, hand, melt, drained, dying,   \* Peers
  dial,      \* where dial_loop stands
  carrier,   \* the snowflake the dial loop popped: {} or {p}
  pconn,     \* RedialPacketConn.closed: "open", or closed by "owner" / "error"
  teardown   \* the owner: "up", "closing" (Drop), "failed" (dial), "down"

Pool == INSTANCE Peers

poolVars == <<link, active, chan, collector, hand, melt, drained, dying>>
sessionVars == <<dial, carrier, pconn, teardown>>
vars == <<poolVars, sessionVars>>

TypeOK ==
  /\ Pool!TypeOK
  /\ dial \in {"check", "dialing", "token", "clientid", "exchange", "stopped"}
  /\ carrier \subseteq Peer
  /\ pconn \in {"open", "owner", "error"}
  /\ teardown \in {"up", "closing", "failed", "down"}

Init ==
  /\ Pool!Init
  /\ dial = "check"
  /\ carrier = {}
  /\ pconn = "open"
  /\ teardown = "up"

\* close_with_error: the first close wins.
ClosedBy(who) == IF pconn = "open" THEN who ELSE pconn

-----------------------------------------------------------------------------
(* connect_loop, unchanged by the session *)

StartPeer(p) == p \notin carrier /\ Pool!StartPeer(p)

ConnectLoop ==
  /\ \/ Pool!CollectMelted \/ Pool!CollectAtCapacity \/ Pool!CollectStart
     \/ Pool!RendezvousFailed \/ Pool!OpenFailed \/ Pool!Opened
     \/ Pool!CatchMelted \/ Pool!Push \/ Pool!SendOk \/ Pool!SendMelted
     \/ Pool!Retry \/ Pool!Stop
     \/ \E p \in Peer : StartPeer(p)
  /\ UNCHANGED sessionVars

\* A snowflake goes stale, disconnects, or its data channel closes.
Die(p) == Pool!Close(p) /\ UNCHANGED sessionVars

-----------------------------------------------------------------------------
(* dial_loop *)

DialStart ==
  /\ dial = "check"
  /\ dial' = IF pconn = "open" THEN "dialing" ELSE "stopped"
  /\ UNCHANGED <<poolVars, carrier, pconn, teardown>>

\* select!: the connection closed while the dial waits in pop.
DialAborted ==
  /\ dial = "dialing"
  /\ pconn # "open"
  /\ dial' = "stopped"
  /\ UNCHANGED <<poolVars, carrier, pconn, teardown>>

PopDiscard ==
  /\ dial = "dialing"
  /\ Pool!PopDiscard
  /\ UNCHANGED sessionVars

PopTake(p) ==
  /\ dial = "dialing"
  /\ Pool!PopTake(p)
  /\ carrier' = {p}
  /\ dial' = "token"
  /\ UNCHANGED <<pconn, teardown>>

\* mutant: the loop ends without closing the connection
DialErrorSilent ==
  /\ dial' = "stopped"
  /\ carrier' = {}
  /\ UNCHANGED <<poolVars, pconn, teardown>>

DialError ==
  /\ dial' = "stopped"
  /\ carrier' = {}
  /\ pconn' = ClosedBy("error")
  /\ UNCHANGED <<poolVars, teardown>>

\* pop returned None: "handler: Received invalid Snowflake".
PopMelted ==
  /\ dial = "dialing"
  /\ melt
  /\ DialError

\* The two writes of the dial closure; each fails on a closed snowflake
\* (its outgoing queue is empty, so neither waits).
WriteToken ==
  /\ dial = "token"
  /\ carrier \subseteq Pool!Live
  /\ dial' = "clientid"
  /\ UNCHANGED <<poolVars, carrier, pconn, teardown>>

WriteClientId ==
  /\ dial = "clientid"
  /\ carrier \subseteq Pool!Live
  /\ dial' = "exchange"
  /\ UNCHANGED <<poolVars, carrier, pconn, teardown>>

WriteFailed ==
  /\ dial \in {"token", "clientid"}
  /\ ~(carrier \subseteq Pool!Live)
  /\ DialError

\* exchange returned; the loop closes its carrier and starts over.
\* mutant: the carrier goes back to the pool instead of being closed
ExchangeEndRequeue ==
  /\ dial = "exchange"
  /\ ~(carrier \subseteq Pool!Live) \/ pconn # "open"
  /\ \E p \in carrier : chan' = Append(chan, p)
  /\ carrier' = {}
  /\ dial' = "check"
  /\ UNCHANGED <<link, active, collector, hand, melt, drained, dying,
                 pconn, teardown>>

ExchangeEnd ==
  /\ dial = "exchange"
  /\ ~(carrier \subseteq Pool!Live) \/ pconn # "open"
  /\ link' = Pool!Closing(carrier)
  /\ carrier' = {}
  /\ dial' = "check"
  /\ UNCHANGED <<active, chan, collector, hand, melt, drained, dying,
                 pconn, teardown>>

DialLoop ==
  \/ DialStart \/ DialAborted \/ PopDiscard \/ PopMelted
  \/ WriteToken \/ WriteClientId \/ WriteFailed \/ ExchangeEnd
  \/ \E p \in Peer : PopTake(p)

-----------------------------------------------------------------------------
(* The owner *)

\* Both halves dropped: the closing task starts with stream.close().
DropConn ==
  /\ teardown = "up"
  /\ teardown' = "closing"
  /\ UNCHANGED <<poolVars, dial, carrier, pconn>>

\* open_stream failed in SnowflakeClient::dial: pconn goes first.
OpenStreamFailed ==
  /\ teardown = "up"
  /\ pconn' = ClosedBy("owner")
  /\ teardown' = "failed"
  /\ UNCHANGED <<poolVars, dial, carrier>>

EndPool ==
  /\ teardown \in {"closing", "failed"}
  /\ Pool!End
  /\ UNCHANGED sessionVars

TeardownDone ==
  /\ teardown \in {"closing", "failed"}
  /\ drained
  /\ dying = {}
  /\ pconn' = ClosedBy("owner")
  /\ teardown' = "down"
  /\ UNCHANGED <<poolVars, dial, carrier>>

Owner == DropConn \/ OpenStreamFailed \/ EndPool \/ TeardownDone

Next ==
  \/ ConnectLoop
  \/ DialLoop
  \/ Owner
  \/ \E p \in Peer : Die(p)

Spec == Init /\ [][Next]_vars

-----------------------------------------------------------------------------
(* Fairness.  The tasks are scheduled: weak fairness of each of them.      *)
(* Stop needs strong fairness: a select! with a fresh, unexpired timer     *)
(* takes the melt.  The teardown, once begun, runs to its end.             *)

TaskFairness ==
  /\ WF_vars(ConnectLoop)
  /\ SF_vars(Pool!Stop /\ UNCHANGED sessionVars)
  /\ WF_vars(DialLoop)
  /\ WF_vars(EndPool \/ TeardownDone)

\* A catch is not refused forever: some proxy is found again and again, and
\* its data channel opens again and again.
CatchFairness ==
  /\ SF_vars(\E p \in Peer : StartPeer(p) /\ UNCHANGED sessionVars)
  /\ SF_vars(Pool!Opened /\ UNCHANGED sessionVars)

\* check_for_staleness: a snowflake that carries no session hears nothing
\* from its proxy for SNOWFLAKE_TIMEOUT and is closed.
StalenessFairness ==
  \A p \in Peer : WF_vars(p \notin carrier /\ melt /\ link[p] = "open" /\ Die(p))

FairSpec == Spec /\ TaskFairness /\ CatchFairness /\ StalenessFairness

-----------------------------------------------------------------------------
(* Properties *)

\* The session uses its pool only through the pool's operations, so what is
\* proved of every pool (SnowflakeProofs) holds of the pool of every session.
PoolSpec == Pool!Spec

\* client.rs pop / turbotunnel.rs dial_loop: the dial loop owns its carrier
\* alone; a snowflake in use waits in no queue and is not in collect's hands,
\* so no second carrier is made of it.
CarrierExclusive ==
  /\ carrier \cap (Pool!Queued \cup hand) = {}
  /\ Cardinality(Pool!Queued) = Len(chan)

\* turbotunnel.rs dial_loop: it never stops behind the session's back; when
\* it is over, recv and send of the packet connection fail.
StoppedIsClosed == dial = "stopped" => carrier = {} /\ pconn # "open"

Finished == teardown = "down" /\ dial = "stopped" /\ collector = "stopped"

\* client.rs SnowflakeConn: what keeps the stream alive is torn down.  A
\* snowflake pushed after end() emptied the pool (end does not wait for the
\* catch in progress) is closed by its staleness timer only; in the end
\* every loop and snowflake is over for good.
DropReleasesAll ==
  teardown \in {"closing", "failed"} ~> [](Finished /\ Pool!Live = {})

NoMoreDeaths == <>[][~\E p \in Peer : Die(p)]_vars

\* If snowflakes stop dying and catches go on succeeding, a waiting dial is
\* served (or the session ends): closed snowflakes in the channel and a
\* collector blocked on a full channel never starve it.
DialServed == NoMoreDeaths => [](dial = "dialing" ~> dial # "dialing")

\* "a pool of snowflakes kept topped up": if snowflakes stop dying, the pool
\* is at its capacity in the end (or the session is over).
KeptToppedUp ==
  NoMoreDeaths =>
    <>[](Cardinality(Pool!Live) = Max \/ melt \/ teardown # "up" \/ pconn # "open")

\* The session moves on until it is torn down, and then for good: a waiting dial
\* is served, the pool refilled, and a drop releases every task and snowflake.
\* (The pool is refilled with the default capacity of one; with two, spare
\* snowflakes that die in the channel keep it below its capacity.)
SessionMoves == DropReleasesAll /\ DialServed /\ KeptToppedUp
=============================================================================
