----------------------------- MODULE Lifecycle -----------------------------
(***************************************************************************)
(* The process: launch under tor, the listeners it reports, the handler    *)
(* task of each connection, and shutdown (app/mod.rs, client.rs,           *)
(* server.rs, termmon.rs; the triggers of signals.rs).                     *)
(*                                                                         *)
(* The run task, every accept loop, every handler and the signal senders   *)
(* interleave.  A handler is counted only from its first poll on: between  *)
(* tokio::spawn and that poll the connection is accepted but unknown to    *)
(* the termination monitor.                                                *)
(***************************************************************************)
EXTENDS Naturals, Sequences, FiniteSets

CONSTANTS
  Methods,     \* transport names tor may ask for
  Conns,       \* connections that may be accepted
  MaxMethods,  \* bound on the methods of one launch
  MaxSignals   \* bound on the signals sent

ASSUME LifecycleAssumption ==
  /\ IsFiniteSet(Conns)
  /\ MaxMethods \in Nat
  /\ MaxSignals \in Nat

VARIABLES
  phase,     \* where run stands
  client,    \* is_client
  todo,      \* the methods setup has still to register
  tor,       \* the control lines written to tor
  lns,       \* state of each listener's accept loop
  stage,     \* where each connection's handler stands
  copying,   \* the directions each relay still copies
  replies,   \* the SOCKS replies each connection got
  handlers,  \* TermMonitor.handlers
  queue,     \* the signal channel
  senders,   \* live senders of that channel
  sent,      \* signals sent so far
  due,       \* history: connections counted when SIGINT was taken
  code,      \* exit code
  cause      \* history: what ended run

runVars  == <<phase, client, todo, tor, code, cause>>
connVars == <<stage, copying, replies, handlers>>
sigVars  == <<queue, senders, sent, due>>
vars     == <<runVars, lns, connVars, sigVars>>

Signals == {"Int", "Term"}
Halves  == {"a_to_b", "b_to_a"}

\* Handlers past their first poll: their HandlerGuard is alive.
Guarded == {"socks", "dial", "refuse", "succeed", "wrap", "orport", "relay", "close"}
Ended   == {"none", "done"}
Stages  == Guarded \cup Ended \cup {"spawned"}

Lines == [kw : {"VERSION", "PROXY", "DONE", "ERROR"}, m : {""}]
           \cup [kw : {"METHOD", "METHOD-ERROR"}, m : Methods]
Line(kw, m) == [kw |-> kw, m |-> m]
Serving     == \E i \in DOMAIN tor : tor[i].kw = "METHOD"

Running == phase # "exited"
Counted == {c \in Conns : stage[c] \in Guarded}

TypeOK ==
  /\ phase \in {"launch", "negotiate", "register", "serve", "drain", "exited"}
  /\ client \in BOOLEAN
  /\ todo \in Seq(Methods)
  /\ tor \in Seq(Lines)
  /\ lns \in Seq({"accepting", "aborted", "stopped"})
  /\ stage \in [Conns -> Stages]
  /\ copying \in [Conns -> SUBSET Halves]
  /\ replies \in [Conns -> Seq({"Succeeded", "Failed"})]
  /\ handlers \in Nat
  /\ queue \in Seq(Signals)
  /\ senders \subseteq {"listener", "watcher"}
  /\ sent \in 0 .. MaxSignals
  /\ due \subseteq Conns
  /\ code \in {0, 1, 255}
  /\ cause \in {"running", "fatal", "nothing", "signal", "idle"}

\* OsSignals::watch: the signal listener may fail to install; the stdin or
\* parent watcher is there, or the kernel was asked for PDEATHSIG instead.
Init ==
  /\ phase = "launch"
  /\ client \in BOOLEAN
  /\ todo = <<>> /\ tor = <<>> /\ lns = <<>>
  /\ stage = [c \in Conns |-> "none"]
  /\ copying = [c \in Conns |-> {}]
  /\ replies = [c \in Conns |-> <<>>]
  /\ handlers = 0
  /\ queue = <<>> /\ sent = 0 /\ due = {}
  /\ senders \in SUBSET {"listener", "watcher"}
  /\ code = 0 /\ cause = "running"

Exit(c, why) ==
  /\ phase' = "exited"
  /\ code' = c
  /\ cause' = why

----------------------------------------------------------------------------
(* run and setup *)

\* Not a managed transport, no state directory, no log file, a bad
\* environment or proxy: run returns Err and main exits with 1.
Fatal ==
  /\ phase \in {"launch", "negotiate"}
  /\ Exit(1, "fatal")
  /\ tor' \in IF phase = "launch" THEN {<<>>, <<Line("ERROR", "")>>}
              ELSE {<<Line("ERROR", "")>>, <<Line("VERSION", ""), Line("ERROR", "")>>}
  /\ UNCHANGED <<client, todo, lns, connVars, sigVars>>

Launch ==
  /\ phase = "launch"
  /\ phase' = "negotiate"
  /\ UNCHANGED <<client, todo, tor, code, cause, lns, connVars, sigVars>>

NoRepeats(s) == \A i, j \in DOMAIN s : s[i] = s[j] => i = j

\* TOR_PT_CLIENT_TRANSPORTS is never empty but may name a method twice;
\* a bridge's bindaddrs name it once and are filtered by tor's list.
Wanted(ms) == IF client THEN ms # <<>> ELSE NoRepeats(ms)

\* client_setup or server_setup, then the proxy (clients only).
Negotiate ==
  /\ phase = "negotiate"
  /\ \E n \in 0 .. MaxMethods : \E ms \in [1 .. n -> Methods] :
       /\ Wanted(ms)
       /\ todo' = ms
  /\ \/ tor' = <<Line("VERSION", "")>>
     \/ client /\ tor' = <<Line("VERSION", ""), Line("PROXY", "")>>
  /\ phase' = "register"
  /\ UNCHANGED <<client, code, cause, lns, connVars, sigVars>>

\* Unknown transport, its factory fails, or the listen does.
MethodFails ==
  /\ phase = "register" /\ todo # <<>>
  /\ tor' = Append(tor, Line("METHOD-ERROR", Head(todo)))
  /\ todo' = Tail(todo)
  /\ UNCHANGED <<phase, client, code, cause, lns, connVars, sigVars>>

\* The accept loop is spawned, then tor is told.
MethodStarts ==
  /\ phase = "register" /\ todo # <<>>
  /\ lns' = Append(lns, "accepting")
  /\ tor' = Append(tor, Line("METHOD", Head(todo)))
  /\ todo' = Tail(todo)
  /\ UNCHANGED <<phase, client, code, cause, connVars, sigVars>>

\* Mutant: serves even with no listener.
MethodsDoneServes ==
  /\ phase = "register" /\ todo = <<>>
  /\ tor' = Append(tor, Line("DONE", ""))
  /\ phase' = "serve"
  /\ UNCHANGED <<client, todo, code, cause, lns, connVars, sigVars>>

MethodsDone ==
  /\ phase = "register" /\ todo = <<>>
  /\ tor' = Append(tor, Line("DONE", ""))
  /\ IF lns = <<>>
       THEN Exit(255, "nothing")
       ELSE phase' = "serve" /\ UNCHANGED <<code, cause>>
  /\ UNCHANGED <<client, todo, lns, connVars, sigVars>>

AbortAll == [i \in DOMAIN lns |-> IF lns[i] = "accepting" THEN "aborted" ELSE lns[i]]

\* wait(false): Term, or the channel is closed and empty.
ServeTerm ==
  /\ phase = "serve"
  /\ IF queue # <<>> THEN Head(queue) = "Term" ELSE senders = {}
  /\ queue' = IF queue # <<>> THEN Tail(queue) ELSE queue
  /\ Exit(0, "signal")
  /\ UNCHANGED <<client, todo, tor, lns, connVars, senders, sent, due>>

\* wait(false): Int.  abort() only asks: each accept loop ends at its next
\* await.
ServeInt ==
  /\ phase = "serve"
  /\ queue # <<>> /\ Head(queue) = "Int"
  /\ queue' = Tail(queue)
  /\ lns' = AbortAll
  /\ phase' = "drain"
  /\ due' = Counted
  /\ UNCHANGED <<client, todo, tor, code, cause, connVars, senders, sent>>

\* wait(true): any further signal, or a closed channel.
DrainSignal ==
  /\ phase = "drain"
  /\ queue # <<>> \/ senders = {}
  /\ queue' = IF queue # <<>> THEN Tail(queue) ELSE queue
  /\ Exit(0, "signal")
  /\ UNCHANGED <<client, todo, tor, lns, connVars, senders, sent, due>>

\* Mutant: waits for the count to change to 0, not to be 0.
DrainIdleEdge ==
  /\ phase = "drain"
  /\ handlers = 0
  /\ \E c \in Conns : stage[c] = "done"
  /\ Exit(0, "idle")
  /\ UNCHANGED <<client, todo, tor, lns, connVars, sigVars>>

\* wait(true): the handler count is 0.
DrainIdle ==
  /\ phase = "drain"
  /\ handlers = 0
  /\ Exit(0, "idle")
  /\ UNCHANGED <<client, todo, tor, lns, connVars, sigVars>>

Run == Launch \/ Negotiate \/ MethodFails \/ MethodStarts \/ MethodsDone
         \/ ServeTerm \/ ServeInt \/ DrainSignal \/ DrainIdle

----------------------------------------------------------------------------
(* signals *)

\* SIGINT or SIGTERM; the parent's death under PDEATHSIG is a SIGTERM.
SignalArrives ==
  /\ Running
  /\ "listener" \in senders
  /\ sent < MaxSignals
  /\ \E s \in Signals : queue' = Append(queue, s)
  /\ sent' = sent + 1
  /\ UNCHANGED <<runVars, lns, connVars, senders, due>>

\* stdin closes or the parent changes: Term, and the watcher is gone.
WatcherFires ==
  /\ Running
  /\ "watcher" \in senders
  /\ sent < MaxSignals
  /\ queue' = Append(queue, "Term")
  /\ sent' = sent + 1
  /\ senders' = senders \ {"watcher"}
  /\ UNCHANGED <<runVars, lns, connVars, due>>

----------------------------------------------------------------------------
(* accept loops and handlers *)

\* accept() returns and the handler is spawned.  A loop asked to abort may
\* still do this in the poll it is in.
Accept(c) ==
  /\ Running
  /\ stage[c] = "none"
  /\ \E i \in DOMAIN lns : lns[i] \in {"accepting", "aborted"}
  /\ stage' = [stage EXCEPT ![c] = "spawned"]
  /\ UNCHANGED <<runVars, lns, copying, replies, handlers, sigVars>>

\* A lasting accept error ends the loop (temporary ones are retried).
AcceptFails(i) ==
  /\ Running
  /\ lns[i] = "accepting"
  /\ lns' = [lns EXCEPT ![i] = "stopped"]
  /\ UNCHANGED <<runVars, connVars, sigVars>>

LoopAborts(i) ==
  /\ Running
  /\ lns[i] = "aborted"
  /\ lns' = [lns EXCEPT ![i] = "stopped"]
  /\ UNCHANGED <<runVars, connVars, sigVars>>

\* First poll: the guard is taken, then the handler begins.
HandlerStart(c) ==
  /\ Running
  /\ stage[c] = "spawned"
  /\ handlers' = handlers + 1
  /\ stage' = [stage EXCEPT ![c] = IF client THEN "socks" ELSE "wrap"]
  /\ UNCHANGED <<runVars, lns, copying, replies, sigVars>>

Move(c, from, to) ==
  /\ Running
  /\ stage[c] = from
  /\ stage' = [stage EXCEPT ![c] = to]
  /\ UNCHANGED <<runVars, lns, copying, replies, handlers, sigVars>>

\* The handler returns and its guard is dropped.
Return(c, from) ==
  /\ Running
  /\ stage[c] = from
  /\ stage' = [stage EXCEPT ![c] = "done"]
  /\ handlers' = handlers - 1
  /\ UNCHANGED <<runVars, lns, copying, sigVars>>

SocksFails(c) == Return(c, "socks") /\ UNCHANGED replies
ArgsRefused(c) == Move(c, "socks", "refuse")
SocksDone(c)  == Move(c, "socks", "dial")
DialFails(c)  == Move(c, "dial", "refuse")
DialDone(c)   == Move(c, "dial", "succeed")

\* Mutant: no return after the refusal.
RefuseGoesOn(c) ==
  /\ Running
  /\ stage[c] = "refuse"
  /\ stage' = [stage EXCEPT ![c] = "succeed"]
  /\ replies' = [replies EXCEPT ![c] = Append(@, "Failed")]
  /\ UNCHANGED <<runVars, lns, copying, handlers, sigVars>>

\* The refusal is sent, or sending it fails: either way the handler is done.
Refuse(c) ==
  /\ Return(c, "refuse")
  /\ \/ replies' = [replies EXCEPT ![c] = Append(@, "Failed")]
     \/ UNCHANGED replies

StartRelay(c, from) ==
  /\ Running
  /\ stage[c] = from
  /\ stage' = [stage EXCEPT ![c] = "relay"]
  /\ copying' = [copying EXCEPT ![c] = Halves]
  /\ UNCHANGED <<runVars, lns, handlers, sigVars>>

ReplySent(c) ==
  /\ StartRelay(c, "succeed")
  /\ replies' = [replies EXCEPT ![c] = Append(@, "Succeeded")]

\* Mutant: a failed reply leaves the guard alive.
ReplyFailsLeaks(c) == Move(c, "succeed", "done")

ReplyFails(c) == Return(c, "succeed") /\ UNCHANGED replies

WrapFails(c)   == Return(c, "wrap") /\ UNCHANGED replies
WrapDone(c)    == Move(c, "wrap", "orport")
OrPortFails(c) == Return(c, "orport") /\ UNCHANGED replies
OrPortDone(c)  == StartRelay(c, "orport") /\ UNCHANGED replies

\* One direction reads EOF or fails; the other copies on.
CopyEnds(c) ==
  /\ Running
  /\ stage[c] = "relay"
  /\ \E h \in copying[c] : copying' = [copying EXCEPT ![c] = @ \ {h}]
  /\ UNCHANGED <<runVars, lns, stage, replies, handlers, sigVars>>

\* join! has both: shut both writers down.
RelayEnds(c) == copying[c] = {} /\ Move(c, "relay", "close")

\* Both shutdowns returned or timed out.
Closed(c) == Return(c, "close") /\ UNCHANGED replies

Client(c) == SocksFails(c) \/ ArgsRefused(c) \/ SocksDone(c) \/ DialFails(c)
               \/ DialDone(c) \/ Refuse(c) \/ ReplySent(c) \/ ReplyFails(c)
Bridge(c) == WrapFails(c) \/ WrapDone(c) \/ OrPortFails(c) \/ OrPortDone(c)
Relay(c)  == CopyEnds(c) \/ RelayEnds(c) \/ Closed(c)

Next ==
  \/ Run \/ Fatal
  \/ SignalArrives \/ WatcherFires
  \/ \E i \in DOMAIN lns : AcceptFails(i) \/ LoopAborts(i)
  \/ \E c \in Conns : Accept(c) \/ HandlerStart(c) \/ Client(c) \/ Bridge(c) \/ Relay(c)

Spec == Init /\ [][Next]_vars

\* The runtime polls ready tasks.  What waits on a peer is not fair, except
\* where the code bounds it: the relay's shutdown (1 s each).
Fairness ==
  /\ WF_vars(Run)
  /\ \A i \in 1 .. MaxMethods : WF_vars(i \in DOMAIN lns /\ LoopAborts(i))
  /\ \A c \in Conns :
       /\ WF_vars(HandlerStart(c))
       /\ WF_vars(RelayEnds(c))
       /\ WF_vars(Closed(c))

FairSpec == Spec /\ Fairness
----------------------------------------------------------------------------
(* Properties *)

\* The count the monitor waits on is the number of handlers past their
\* first poll, on every way a handler can return (HandlerGuard).
HandlersCounted == handlers = Cardinality(Counted)

\* What tor was told and how the process ends agree: it serves only after
\* a METHOD line, exits 255 only after DONE without one, and a fatal
\* error comes before any method is reported.  A drain that nothing cut
\* short has let every connection counted at the SIGINT finish; one that was
\* accepted and whose handler had not been polled may be lost.
ExitMatchesReport ==
  /\ phase \in {"serve", "drain"} \/ cause \in {"signal", "idle"} => Serving
  /\ code = 255 => ~Serving /\ tor[Len(tor)].kw = "DONE"
  /\ cause = "fatal" => code = 1 /\ ~Serving
  /\ cause = "idle" => \A c \in due : stage[c] = "done"

\* tor gets at most one SOCKS reply per connection; bytes flow only after
\* "Succeeded", which is never followed or preceded by a refusal; a bridge
\* sends none.
ReplyTruth ==
  \A c \in Conns :
    /\ Len(replies[c]) <= 1
    /\ stage[c] \in {"relay", "close"} => replies[c] = IF client THEN <<"Succeeded">> ELSE <<>>
    /\ stage[c] \notin {"relay", "close", "done"} => replies[c] = <<>>

\* Term, a second signal of any kind, or the loss of every signal source
\* ends the process, whatever the handlers are stuck in (wait).
SignalsEndRun ==
  (\/ \E i \in DOMAIN queue : queue[i] = "Term"
   \/ sent >= 2
   \/ senders = {}) ~> phase = "exited"

\* A drain whose listeners are stopped and whose connections are over ends,
\* also when no connection was open at the SIGINT.
DrainEnds ==
  (/\ phase = "drain"
   /\ \A i \in DOMAIN lns : lns[i] = "stopped"
   /\ \A c \in Conns : stage[c] \in Ended) ~> phase = "exited"

\* The process always gets out: a signal that means it ends the process though
\* every relay hangs, and a drain that has nothing left to wait for ends too.
RunEnds == SignalsEndRun /\ DrainEnds
============================================================================
