------------------------------- MODULE Peers -------------------------------
(***************************************************************************)
(* The pool of snowflakes of one session: snowflake/domain/client.rs       *)
(* `Peers` and `connect_loop`, with the life of one snowflake as far as    *)
(* the pool sees it (peer.rs `Peer::connect`, `close`, staleness).         *)
(*                                                                         *)
(* A snowflake is a member of Peer.  Identities are reused: a closed       *)
(* snowflake that the pool no longer refers to may be caught again as a    *)
(* new one, so runs are unbounded.                                         *)
(*                                                                         *)
(* Tasks run on several threads (main.rs builds a multi-thread runtime),   *)
(* so `end` may run between any two steps of `collect`.  A tokio select!   *)
(* with two ready branches takes either one.                               *)
(***************************************************************************)
EXTENDS PoolSize, Sequences

VARIABLES
  link,       \* link[p]: "closed" (or never caught), "opening", "open"
  active,     \* Peers.active (a Vec used as a set)
  chan,       \* the mpsc channel of caught snowflakes
  collector,  \* where connect_loop / collect stands
  hand,       \* the snowflake collect is working on: {} or {p}
  melt,       \* Peers.melt
  drained,    \* end() has emptied `active`
  dying       \* snowflakes end() took from `active` and has yet to close

vars == <<link, active, chan, collector, hand, melt, drained, dying>>

Queued == {chan[i] : i \in 1..Len(chan)}

Live == {p \in Peer : link[p] # "closed"}

\* A snowflake nothing in the pool refers to: its identity is free.
Unused == Peer \ (Live \cup active \cup Queued \cup hand \cup dying)

CollectorStates == {"idle", "rendezvous", "opening", "caught", "sending",
                    "waiting", "stopped"}

TypeOK ==
  /\ link \in [Peer -> {"closed", "opening", "open"}]
  /\ active \subseteq Peer
  /\ chan \in Seq(Peer) /\ Len(chan) <= Max
  /\ collector \in CollectorStates
  /\ hand \subseteq Peer
  /\ melt \in BOOLEAN
  /\ drained \in BOOLEAN
  /\ dying \subseteq Peer

Init ==
  /\ link = [p \in Peer |-> "closed"]
  /\ active = {}
  /\ chan = <<>>
  /\ collector = "idle"
  /\ hand = {}
  /\ melt = FALSE
  /\ drained = FALSE
  /\ dying = {}

Closing(S) == [p \in Peer |-> IF p \in S THEN "closed" ELSE link[p]]

-----------------------------------------------------------------------------
(* collect(): runs under collect_lock; connect_loop is its only caller.    *)

\* `is_melted` at the top of collect.
CollectMelted ==
  /\ collector = "idle"
  /\ melt
  /\ collector' = "waiting"
  /\ UNCHANGED <<link, active, chan, hand, melt, drained, dying>>

\* `count()`: drops closed snowflakes from `active`, then counts.
Counted == active \cap Live

AtCapacity(n) == n >= Max

CollectAtCapacity ==
  /\ collector = "idle"
  /\ ~melt
  /\ active' = Counted
  /\ AtCapacity(Cardinality(Counted))
  /\ collector' = "waiting"
  /\ UNCHANGED <<link, chan, hand, melt, drained, dying>>

CollectStart ==
  /\ collector = "idle"
  /\ ~melt
  /\ active' = Counted
  /\ ~AtCapacity(Cardinality(Counted))
  /\ collector' = "rendezvous"
  /\ UNCHANGED <<link, chan, hand, melt, drained, dying>>

\* Peer::connect fails before a Peer exists: offer, broker or bad answer.
RendezvousFailed ==
  /\ collector = "rendezvous"
  /\ collector' = "waiting"
  /\ UNCHANGED <<link, active, chan, hand, melt, drained, dying>>

\* The broker answered: the Peer exists and its driver task is started.
StartPeer(p) ==
  /\ collector = "rendezvous"
  /\ p \in Unused
  /\ link' = [link EXCEPT ![p] = "opening"]
  /\ hand' = {p}
  /\ collector' = "opening"
  /\ UNCHANGED <<active, chan, melt, drained, dying>>

\* DATA_CHANNEL_TIMEOUT, or the peer closed before its channel opened.
OpenFailed ==
  /\ collector = "opening"
  /\ link' = Closing(hand)
  /\ hand' = {}
  /\ collector' = "waiting"
  /\ UNCHANGED <<active, chan, melt, drained, dying>>

\* The data channel opened: connect returns the peer, its guard disarmed.
Opened ==
  /\ collector = "opening"
  /\ hand \subseteq Live
  /\ link' = [p \in Peer |-> IF p \in hand THEN "open" ELSE link[p]]
  /\ collector' = "caught"
  /\ UNCHANGED <<active, chan, hand, melt, drained, dying>>

\* select!: melted drops the catch; CloseOnDrop closes a started peer.
CatchMelted ==
  /\ collector \in {"rendezvous", "opening"}
  /\ melt
  /\ link' = Closing(hand)
  /\ hand' = {}
  /\ collector' = "waiting"
  /\ UNCHANGED <<active, chan, melt, drained, dying>>

Push ==
  /\ collector = "caught"
  /\ active' = active \cup hand
  /\ collector' = "sending"
  /\ UNCHANGED <<link, chan, hand, melt, drained, dying>>

SendOk ==
  /\ collector = "sending"
  /\ Len(chan) < Max
  /\ \E p \in hand : chan' = Append(chan, p)
  /\ hand' = {}
  /\ collector' = "waiting"
  /\ UNCHANGED <<link, active, melt, drained, dying>>

SendMelted ==
  /\ collector = "sending"
  /\ melt
  /\ link' = Closing(hand)
  /\ hand' = {}
  /\ collector' = "waiting"
  /\ UNCHANGED <<active, chan, melt, drained, dying>>

\* connect_loop's select!: the reconnect timer, or the melt.
Retry ==
  /\ collector = "waiting"
  /\ collector' = "idle"
  /\ UNCHANGED <<link, active, chan, hand, melt, drained, dying>>

StopNever == FALSE /\ UNCHANGED vars     \* mutant: no melted branch

Stop ==
  /\ collector = "waiting"
  /\ melt
  /\ collector' = "stopped"
  /\ UNCHANGED <<link, active, chan, hand, melt, drained, dying>>

-----------------------------------------------------------------------------
(* pop(): called by the dial loop; a closed snowflake is skipped.          *)

PopDiscard ==
  /\ chan # <<>>
  /\ Head(chan) \notin Live
  /\ chan' = Tail(chan)
  /\ UNCHANGED <<link, active, collector, hand, melt, drained, dying>>

\* mutant: the snowflake is handed out but stays queued
PopTakePeek(p) ==
  /\ chan # <<>>
  /\ p = Head(chan)
  /\ p \in Live
  /\ UNCHANGED vars

PopTake(p) ==
  /\ chan # <<>>
  /\ p = Head(chan)
  /\ p \in Live
  /\ chan' = Tail(chan)
  /\ UNCHANGED <<link, active, collector, hand, melt, drained, dying>>

\* Peer::close by anyone: a stale or disconnected snowflake, a closed data
\* channel, the dial loop done with its carrier.
Close(p) ==
  /\ p \in Live
  /\ link' = Closing({p})
  /\ UNCHANGED <<active, chan, collector, hand, melt, drained, dying>>

-----------------------------------------------------------------------------
(* end(): sets the melt (the first caller only), empties `active`, then    *)
(* closes what it took.  It does not take collect_lock.                    *)

EndMelt ==
  /\ ~melt
  /\ melt' = TRUE
  /\ UNCHANGED <<link, active, chan, collector, hand, drained, dying>>

EndDrain ==
  /\ melt
  /\ ~drained
  /\ drained' = TRUE
  /\ dying' = active
  /\ active' = {}
  /\ UNCHANGED <<link, chan, collector, hand, melt>>

EndClose(p) ==
  /\ p \in dying
  /\ dying' = dying \ {p}
  /\ link' = Closing({p})
  /\ UNCHANGED <<active, chan, collector, hand, melt, drained>>

-----------------------------------------------------------------------------
Collect ==
  \/ CollectMelted \/ CollectAtCapacity \/ CollectStart
  \/ RendezvousFailed \/ OpenFailed \/ Opened \/ CatchMelted
  \/ Push \/ SendOk \/ SendMelted \/ Retry \/ Stop
  \/ \E p \in Peer : StartPeer(p)

End == EndMelt \/ EndDrain \/ \E p \in Peer : EndClose(p)

Next ==
  \/ Collect
  \/ End
  \/ PopDiscard
  \/ \E p \in Peer : PopTake(p) \/ Close(p)

Spec == Init /\ [][Next]_vars

-----------------------------------------------------------------------------
(* Safety *)

\* client.rs collect, "At capacity": a session never keeps more than Max
\* snowflakes connecting or connected, however closes, pops and end()
\* interleave with a collect in progress.
Capacity == Cardinality(Live) <= Max

\* count() sees every snowflake that could be open: until end() empties
\* `active`, a live snowflake is in it or in the hands of collect.
LiveCounted == ~drained => Live \subseteq active \cup hand

\* end() does not wait for collect: of the snowflakes live after end() took
\* `active`, at most one escapes the closing, the one collect was catching.
OneSurvivor == drained => \A p, q \in Live \ dying : p = q

-----------------------------------------------------------------------------
(* The inductive invariant behind Capacity, LiveCounted and OneSurvivor.   *)

Handling == {"opening", "caught", "sending"}

\* collect holds one snowflake from the start of its driver task until it is
\* sent or given up.
HandInv ==
  /\ collector \in Handling => \E p \in Peer : hand = {p}
  /\ collector \notin Handling => hand = {}

\* While a catch is under way there is room for it: the count taken at the
\* top of collect stays valid, because only this task adds snowflakes.
RoomInv ==
  collector \in Handling \cup {"rendezvous"} => Cardinality(Live \ hand) < Max

\* Until end() takes it, a snowflake waiting to be sent is in `active`.
PushedInv == collector = "sending" /\ ~drained => hand \subseteq active

\* What may be live after end() took `active`.
SurvivorInv ==
  drained =>
    /\ melt
    /\ collector \in Handling \cup {"rendezvous"} => Live \ dying \subseteq hand
    /\ OneSurvivor

IInv ==
  /\ TypeOK
  /\ HandInv
  /\ RoomInv
  /\ Capacity
  /\ PushedInv
  /\ LiveCounted
  /\ SurvivorInv

=============================================================================
