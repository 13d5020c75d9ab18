------------------------------- MODULE Tunnel -------------------------------
(***************************************************************************)
(* The set-up of connections on behalf of tor, from the first SOCKS byte    *)
(* to a tunnel that relays.                                                 *)
(*                                                                         *)
(* A client connection goes through the SOCKS5 server (socks5.rs), the     *)
(* outbound proxy if there is one (proxy.rs), TLS and the HTTP upgrade of   *)
(* webtunnel, with a server name from a generator that the dials of one     *)
(* client factory share (servername.rs).  A server connection, whose near   *)
(* end has done its transport's handshake, is connected to tor's plain or   *)
(* Extended ORPort (extorport.rs).                                          *)
(*                                                                         *)
(* The near end is tor, or the bridge's client; the far end is the proxy    *)
(* and then the bridge, or the ORPort.  Both are environment: they send     *)
(* messages, also several at once, and may stop.  A message is one value; a *)
(* read takes any number of the messages that arrived, as a read of bytes   *)
(* would.                                                                   *)
(***************************************************************************)
EXTENDS Naturals, Sequences, SequencesExt

CONSTANTS
  Conns,        \* handlers at work at one time
  Plans,        \* Conns -> sequence of [script, route, line]: what connects
  Specs,        \* servername= specs that parse
  Names,        \* Specs -> sequence of the names of a spec, maybe empty
  Hostnames,    \* the names that rustls takes for a server name
  Certs,        \* certificate chains a far end may show
  CertNames,    \* Certs -> the names webpki accepts the chain for
  Messages,     \* what the near end may send, and what a tunnel may carry
  FarData       \* the messages the far end sends through the tunnel, in order

Routes == {"direct", "http", "socks4", "socks5", "socks5 user", "or", "extor"}
Lines == [url : STRING, servername : STRING, imitation : STRING,
          certdomain : STRING, utls : STRING, pin : STRING]
Cases == [script : Seq(Messages), route : Routes, line : Lines]

ASSUME PlansAssumption == \A p \in Plans : p \in [Conns -> Seq(Cases)]
\* An empty spec has no names: the dial has no generator then.
ASSUME NamesAssumption ==
  Names \in [Specs -> Seq(STRING)] /\ "" \in Specs /\ Names[""] = <<>>
ASSUME DataAssumption == FarData \in Seq(Messages)

\* A chain is not taken for an answer of another kind.
ASSUME CertsAssumption == Certs \cap {"no", "okay", "100", "101"} = {}

VARIABLES
  kase,         \* what the connection is
  stage,        \* where its handler is
  nearIn,       \* messages from the near end not read yet
  nearSent,     \* how many messages of its script the near end has sent
  nearOut,      \* what was written to the near end
  farIn,        \* messages from the far end not read yet
  farBuf,       \* Connection.rbuf: read by read_head, not used yet
  farOut,       \* messages of the tunnel written to the far end
  farSent,      \* how many of FarData the far end has sent
  asked,        \* the far end owes an answer
  open,         \* the far end has accepted, and may use the tunnel
  heard,        \* the answers of the far end, in the order they were read
  shut,         \* ends ("near", "far") that have closed
  name,         \* the server name of this dial
  given,        \* advances of its generator when the name was given
  position,     \* Generator.position, 0 for a spec without a generator
  advances,     \* how often the generator of a spec has advanced
  plan          \* the connections still to come, in the place of each handler

nearVars == <<nearIn, nearSent, nearOut>>
farVars == <<farIn, farBuf, farOut, farSent, asked, open, heard>>
nameVars == <<name, given, position, advances>>
vars == <<kase, stage, nearVars, farVars, shut, nameVars, plan>>

SocksStages == {"greeting", "auth", "command"}
Stages == SocksStages \cup
          {"idle", "connect", "negotiate", "tls", "upgrade", "relay", "ended"}

NoCase == [script |-> <<>>, route |-> "none", line |-> <<>>]
Line(c) == kase[c].line
Route(c) == kase[c].route
FromBridge(c) == Route(c) \in {"or", "extor"}

(***************************************************************************)
(* What a bridge line asks for (config.rs).  The host of its URL is "host". *)
(* An argument that is there may be empty, which is not the same as Absent; *)
(* an empty pin or utls is.                                                 *)
(***************************************************************************)
Absent == "(absent)"

SpecOf(line) == IF line.servername # Absent THEN line.servername
               ELSE IF line.imitation # Absent THEN line.imitation ELSE "host"

VerifyName(line) == IF line.certdomain # Absent THEN line.certdomain
                    ELSE IF line.imitation # Absent THEN "host" ELSE ""

\* The check of the certificate, "error" when there is none to make.
Check(line, sni) ==
  IF line.pin = "bad" \/ line.utls = "unknown" THEN [kind |-> "error"]
  ELSE IF line.pin # "" THEN [kind |-> "pin", pin |-> line.pin]
  ELSE IF line.utls # "none" /\ VerifyName(line) = "*" THEN [kind |-> "error"]
  ELSE IF line.utls # "none" /\ VerifyName(line) # ""
    THEN [kind |-> "name", name |-> VerifyName(line)]
  ELSE IF sni = "" THEN [kind |-> "error"]
  ELSE [kind |-> "name", name |-> sni]

\* Whether rustls can make the check: it must take every name for one.
Prepares(line, sni) ==
  LET check == Check(line, sni) IN
  /\ check.kind # "error"
  /\ check.kind = "name" => check.name \in Hostnames
  /\ sni # "" => sni \in Hostnames

\* Mutant: a pinned bridge line skips the check of the chain.
VerifiesAnyPinned(check, cert) ==
  CASE check.kind = "pin" -> TRUE
    [] check.kind = "name" -> check.name \in CertNames[cert]
    [] OTHER -> FALSE

\* Whether rustls, with the verifier of this check, accepts a chain.
Verifies(check, cert) ==
  CASE check.kind = "pin" -> cert = check.pin
    [] check.kind = "name" -> check.name \in CertNames[cert]
    [] OTHER -> FALSE

(***************************************************************************)
(* The answers that a proxy or an ORPort must give, one after the other.    *)
(* The answer to the SOCKS5 greeting decides whether a password follows.    *)
(***************************************************************************)
HttpConnect == {<<"200">>}
Socks4Connect == {<<"granted">>}
Socks5Connect(user) ==
  {<<"no auth", "succeeded">>}
  \cup (IF user THEN {<<"userpass", "welcome", "succeeded">>} ELSE {})
Authenticate == <<"auth types", "server hash", "status">>
SetMetadata == <<"okay">>

Accepting(route) ==
  CASE route = "http" -> HttpConnect
    [] route = "socks4" -> Socks4Connect
    [] route = "socks5" -> Socks5Connect(FALSE)
    [] route = "socks5 user" -> Socks5Connect(TRUE)
    [] route = "extor" -> {Authenticate \o SetMetadata}
    [] OTHER -> {<<>>}

OnTheWay(route, answers) ==
  \E s \in Accepting(route) : IsStrictPrefix(answers, s)

-----------------------------------------------------------------------------
(***************************************************************************)
(* The two ends.                                                            *)
(***************************************************************************)
NearSends(c) ==
  /\ stage[c] \notin {"idle", "ended"}
  /\ "near" \notin shut[c] /\ nearSent[c] < Len(kase[c].script)
  /\ nearSent' = [nearSent EXCEPT ![c] = @ + 1]
  /\ nearIn' = [nearIn EXCEPT ![c] = Append(@, kase[c].script[nearSent[c] + 1])]
  /\ UNCHANGED <<kase, stage, nearOut, farVars, shut, nameVars, plan>>

NearCloses(c) ==
  /\ stage[c] \in SocksStages /\ "near" \notin shut[c]
  /\ shut' = [shut EXCEPT ![c] = @ \cup {"near"}]
  /\ UNCHANGED <<kase, stage, nearVars, farVars, nameVars, plan>>

Answers(c) ==
  CASE stage[c] = "negotiate" ->
         {s[Len(heard[c]) + 1] :
            s \in {t \in Accepting(Route(c)) : IsStrictPrefix(heard[c], t)}}
         \cup {"no"}
    [] stage[c] = "tls" -> Certs \cup {"no"}
    [] stage[c] = "upgrade" -> {"101", "no"}
    [] OTHER -> {}

FarAnswers(c) ==
  /\ asked[c] /\ "far" \notin shut[c]
  /\ \E a \in Answers(c) :
       /\ farIn' = [farIn EXCEPT ![c] = Append(@, a)]
       /\ open' = [open EXCEPT ![c] = @ \/ a \in {"101", "okay"}]
  /\ asked' = [asked EXCEPT ![c] = FALSE]
  /\ UNCHANGED <<kase, stage, nearVars, farBuf, farOut, farSent, heard, shut,
                 nameVars, plan>>

\* An interim response to the upgrade, before the final one.
FarInterim(c) ==
  /\ stage[c] = "upgrade" /\ asked[c] /\ "far" \notin shut[c]
  /\ \A t \in {farIn[c], farBuf[c], heard[c]} : "100" \notin ToSet(t)
  /\ farIn' = [farIn EXCEPT ![c] = Append(@, "100")]
  /\ UNCHANGED <<kase, stage, nearVars, farBuf, farOut, farSent, asked, open,
                 heard, shut, nameVars, plan>>

FarSends(c) ==
  /\ open[c] /\ farSent[c] < Len(FarData) /\ stage[c] # "ended"
  /\ farSent' = [farSent EXCEPT ![c] = @ + 1]
  /\ farIn' = [farIn EXCEPT ![c] = Append(@, FarData[farSent[c] + 1])]
  /\ UNCHANGED <<kase, stage, nearVars, farBuf, farOut, asked, open, heard,
                 shut, nameVars, plan>>

FarCloses(c) ==
  /\ stage[c] \in {"negotiate", "tls", "upgrade"} /\ asked[c]
  /\ "far" \notin shut[c]
  /\ shut' = [shut EXCEPT ![c] = @ \cup {"far"}]
  /\ UNCHANGED <<kase, stage, nearVars, farVars, nameVars, plan>>

-----------------------------------------------------------------------------
(***************************************************************************)
(* The SOCKS5 server.  A message must not be followed by another in the     *)
(* same read: what the buffered reader holds would be lost with it.         *)
(***************************************************************************)
\* A new connection: from tor to a SOCKS listener, or to the bridge.
Accept(c) ==
  /\ stage[c] = "idle" /\ plan[c] # <<>>
  /\ plan' = [plan EXCEPT ![c] = Tail(@)]
  /\ LET k == Head(plan[c]) IN
     /\ kase' = [kase EXCEPT ![c] = k]
     /\ stage' = [stage EXCEPT ![c] =
          IF k.route \in {"or", "extor"} THEN "connect" ELSE "greeting"]
  /\ UNCHANGED <<nearVars, farVars, shut, nameVars>>

\* The handler returns after an answer, "" for none; its connection is closed.
End(c, answer) ==
  /\ stage' = [stage EXCEPT ![c] = "ended"]
  /\ nearOut' = [nearOut EXCEPT ![c] =
                   IF answer = "" THEN @ ELSE Append(@, answer)]

\* The handler answers and goes on.
Say(c, answer, next) ==
  /\ stage' = [stage EXCEPT ![c] = next]
  /\ nearOut' = [nearOut EXCEPT ![c] = Append(@, answer)]

\* A read returns n messages.
Read(c, n) == nearIn' = [nearIn EXCEPT ![c] = SubSeq(@, n + 1, Len(@))]

\* Mutant: the handshake goes on though more was read than its message.
NoTrailingIgnored(n) == n >= 1

\* check_no_trailing, of a read that returned n messages.
NoTrailing(n) == n = 1

Greeting(c, n) ==
  /\ stage[c] = "greeting"
  /\ LET m == nearIn[c][1] IN
     \/ /\ m = "userpass" /\ NoTrailing(n)
        /\ Say(c, "method 2", "auth")
     \/ /\ m = "noauth" /\ NoTrailing(n)
        /\ Say(c, "method 0", "command")
     \/ /\ m \in {"userpass", "noauth"} /\ ~NoTrailing(n)
        /\ End(c, IF m = "noauth" THEN "method 0" ELSE "method 2")
     \/ m = "gssapi" /\ End(c, "method 255")
     \/ m \notin {"userpass", "noauth", "gssapi"} /\ End(c, "")

\* The user name and password hold arguments that parse.
Parameters(m) == m = "args"

Auth(c, n) ==
  /\ stage[c] = "auth"
  /\ LET good == Parameters(nearIn[c][1]) IN
     \/ good /\ NoTrailing(n) /\ Say(c, "auth ok", "command")
     \/ good /\ ~NoTrailing(n) /\ End(c, "auth ok")
     \/ ~good /\ End(c, "auth failed")

\* A good command: parse_args, whose errors are answered, then the dial.
Command(c, n) ==
  /\ stage[c] = "command"
  /\ LET m == nearIn[c][1] IN
     \/ m = "connect" /\ ~NoTrailing(n) /\ End(c, "")
     \/ /\ m = "connect" /\ NoTrailing(n) /\ Line(c).url \notin {"http", "https"}
        /\ End(c, "general failure")
     \/ /\ m = "connect" /\ NoTrailing(n) /\ Line(c).url \in {"http", "https"}
        /\ stage' = [stage EXCEPT ![c] = "connect"] /\ UNCHANGED nearOut
     \/ m = "bind" /\ End(c, "command not supported")
     \/ m = "bad address" /\ End(c, "address not supported")
     \/ m \notin {"connect", "bind", "bad address"} /\ End(c, "general failure")

SocksRead(c) ==
  /\ \E n \in 1..Len(nearIn[c]) :
       Read(c, n) /\ (Greeting(c, n) \/ Auth(c, n) \/ Command(c, n))
  /\ UNCHANGED <<kase, nearSent, farVars, shut, nameVars, plan>>

SocksEof(c) ==
  /\ stage[c] \in SocksStages /\ nearIn[c] = <<>> /\ "near" \in shut[c]
  /\ End(c, CASE stage[c] = "greeting" -> "" [] stage[c] = "auth" -> "auth failed"
              [] OTHER -> "general failure")
  /\ UNCHANGED <<kase, nearIn, nearSent, farVars, shut, nameVars, plan>>

\* Mutant: the deadline of the Extended ORPort is forgotten.
TimedSocks(c) == stage[c] \in SocksStages

\* Five seconds, for the SOCKS handshake and for the Extended ORPort.
Timed(c) == stage[c] \in SocksStages \/ (stage[c] = "negotiate" /\ Route(c) = "extor")

TimesOut(c) ==
  /\ Timed(c) /\ End(c, "")
  /\ UNCHANGED <<kase, nearIn, nearSent, farVars, shut, nameVars, plan>>

-----------------------------------------------------------------------------
(***************************************************************************)
(* The dial.                                                                *)
(***************************************************************************)
\* What a failed dial answers: a SOCKS client hears, a bridge's does not.
Failed(c) == End(c, IF FromBridge(c) THEN "" ELSE "general failure")

Ask(c) == asked' = [asked EXCEPT ![c] = TRUE]

\* Mutant: the generator advances at every failure.
RerollAlways(c) ==
  LET s == SpecOf(Line(c)) IN
  IF Names[s] = <<>>
    THEN UNCHANGED <<position, advances>>
    ELSE /\ position' = [position EXCEPT ![s] = (@ % Len(Names[s])) + 1]
         /\ advances' = [advances EXCEPT ![s] = @ + 1]

\* reroll_if_unchanged: compares the names, as other dials may have advanced.
Reroll(c) ==
  LET s == SpecOf(Line(c)) IN
  IF Names[s] = <<>> \/ Names[s][position[s]] # name[c]
    THEN UNCHANGED <<position, advances>>
    ELSE /\ position' = [position EXCEPT ![s] = (@ % Len(Names[s])) + 1]
         /\ advances' = [advances EXCEPT ![s] = @ + 1]

\* Where the generator of a spec is: at its first use it starts anywhere.
Positions(s) == IF position[s] # 0 THEN {position[s]}
                ELSE IF Names[s] = <<>> THEN {0} ELSE DOMAIN Names[s]

\* The rest of dial_impl once there is a connection to the bridge: a name,
\* and the checks; their errors leave the generator alone, at a name that
\* rustls refuses too.  http asks for the upgrade at once.
Prepare(c) ==
  LET s == SpecOf(Line(c)) IN
  IF s \notin Specs
    THEN Failed(c) /\ UNCHANGED <<asked, nameVars>>
    ELSE \E p \in Positions(s) :
           LET sni == IF p = 0 THEN "" ELSE Names[s][p] IN
           /\ position' = [position EXCEPT ![s] = p]
           /\ name' = [name EXCEPT ![c] = sni]
           /\ given' = [given EXCEPT ![c] = advances[s]]
           /\ UNCHANGED advances
           /\ IF Line(c).url = "https" /\ ~Prepares(Line(c), sni)
                THEN Failed(c) /\ UNCHANGED asked
                ELSE /\ stage' = [stage EXCEPT ![c] =
                          IF Line(c).url = "https" THEN "tls" ELSE "upgrade"]
                     /\ Ask(c) /\ UNCHANGED nearOut

\* Set-up is over: a bridge's connection relays, a client's goes on.
Through(c) ==
  IF FromBridge(c)
    THEN /\ stage' = [stage EXCEPT ![c] = "relay"]
         /\ UNCHANGED <<nearOut, asked, nameVars>>
    ELSE Prepare(c)

\* TCP to the first hop, or its failure.
Connect(c) ==
  /\ stage[c] = "connect"
  /\ \/ Failed(c) /\ UNCHANGED <<asked, nameVars, open>>
     \/ /\ <<>> \notin Accepting(Route(c))
        /\ stage' = [stage EXCEPT ![c] = "negotiate"] /\ Ask(c)
        /\ UNCHANGED <<nearOut, nameVars, open>>
     \/ /\ <<>> \in Accepting(Route(c)) /\ Through(c)
        /\ open' = [open EXCEPT ![c] = Route(c) = "or"]
  /\ UNCHANGED <<kase, nearIn, nearSent, farIn, farBuf, farOut, farSent, heard,
                 shut, plan>>

\* One answer of the proxy or the ORPort, read to its last byte.
Negotiate(c) ==
  /\ stage[c] = "negotiate" /\ farIn[c] # <<>>
  /\ farIn' = [farIn EXCEPT ![c] = Tail(@)]
  /\ LET h == Append(heard[c], Head(farIn[c])) IN
     /\ heard' = [heard EXCEPT ![c] = h]
     /\ \/ h \in Accepting(Route(c)) /\ Through(c)
        \/ /\ OnTheWay(Route(c), h) /\ Ask(c)
           /\ UNCHANGED <<stage, nearOut, nameVars>>
        \/ /\ h \notin Accepting(Route(c)) /\ ~OnTheWay(Route(c), h)
           /\ Failed(c) /\ UNCHANGED <<asked, nameVars>>
  /\ UNCHANGED <<kase, nearIn, nearSent, farBuf, farOut, farSent, open, shut, plan>>

NegotiateEof(c) ==
  /\ stage[c] = "negotiate" /\ farIn[c] = <<>> /\ "far" \in shut[c]
  /\ Failed(c)
  /\ UNCHANGED <<kase, nearIn, nearSent, farVars, shut, nameVars, plan>>

\* The TLS handshake: an alert or a certificate, which must verify.
TlsConnect(c) ==
  /\ stage[c] = "tls" /\ farIn[c] # <<>>
  /\ farIn' = [farIn EXCEPT ![c] = Tail(@)]
  /\ heard' = [heard EXCEPT ![c] = Append(@, Head(farIn[c]))]
  /\ LET good == /\ Head(farIn[c]) \in Certs
                 /\ Verifies(Check(Line(c), name[c]), Head(farIn[c])) IN
     \/ /\ good /\ stage' = [stage EXCEPT ![c] = "upgrade"] /\ Ask(c)
        /\ UNCHANGED <<nearOut, position, advances>>
     \/ ~good /\ Failed(c) /\ Reroll(c) /\ UNCHANGED asked
  /\ UNCHANGED <<kase, nearIn, nearSent, farBuf, farOut, farSent, open, shut,
                 name, given, plan>>

\* read_head fills its buffer when it holds no head.
FillHead(c) ==
  /\ stage[c] = "upgrade" /\ farBuf[c] = <<>>
  /\ \E n \in 1..Len(farIn[c]) :
       /\ farBuf' = [farBuf EXCEPT ![c] = SubSeq(farIn[c], 1, n)]
       /\ farIn' = [farIn EXCEPT ![c] = SubSeq(@, n + 1, Len(@))]
  /\ UNCHANGED <<kase, stage, nearVars, farOut, farSent, asked, open, heard,
                 shut, nameVars, plan>>

\* A head: interim responses are skipped, 101 makes a tunnel of the
\* connection and what else was read, anything else is a failure.
ReadHead(c) ==
  /\ stage[c] = "upgrade" /\ farBuf[c] # <<>>
  /\ farBuf' = [farBuf EXCEPT ![c] = Tail(@)]
  /\ heard' = [heard EXCEPT ![c] = Append(@, Head(farBuf[c]))]
  /\ LET h == Head(farBuf[c]) IN
     \/ h = "100" /\ UNCHANGED <<stage, nearOut, position, advances>>
     \/ h = "101" /\ Say(c, "succeeded", "relay") /\ UNCHANGED <<position, advances>>
     \/ h \notin {"100", "101"} /\ Failed(c) /\ Reroll(c)
  /\ UNCHANGED <<kase, nearIn, nearSent, farIn, farOut, farSent, asked, open,
                 shut, name, given, plan>>

DialEof(c) ==
  /\ stage[c] \in {"tls", "upgrade"} /\ farIn[c] = <<>> /\ farBuf[c] = <<>>
  /\ "far" \in shut[c]
  /\ Failed(c) /\ Reroll(c)
  /\ UNCHANGED <<kase, nearIn, nearSent, farVars, shut, name, given, plan>>

-----------------------------------------------------------------------------
\* The reader of the tunnel gives what was read with the head first.
Down(c) ==
  /\ stage[c] = "relay"
  /\ \/ /\ farBuf[c] # <<>>
        /\ nearOut' = [nearOut EXCEPT ![c] = Append(@, Head(farBuf[c]))]
        /\ farBuf' = [farBuf EXCEPT ![c] = Tail(@)] /\ UNCHANGED farIn
     \/ /\ farBuf[c] = <<>> /\ farIn[c] # <<>>
        /\ nearOut' = [nearOut EXCEPT ![c] = Append(@, Head(farIn[c]))]
        /\ farIn' = [farIn EXCEPT ![c] = Tail(@)] /\ UNCHANGED farBuf
  /\ UNCHANGED <<kase, stage, nearIn, nearSent, farOut, farSent, asked, open,
                 heard, shut, nameVars, plan>>

Up(c) ==
  /\ stage[c] = "relay" /\ nearIn[c] # <<>>
  /\ farOut' = [farOut EXCEPT ![c] = Append(@, Head(nearIn[c]))]
  /\ nearIn' = [nearIn EXCEPT ![c] = Tail(@)]
  /\ UNCHANGED <<kase, stage, nearSent, nearOut, farIn, farBuf, farSent, asked,
                 open, heard, shut, nameVars, plan>>

\* The handler of an ended connection is gone; another may take its place.
Release(c) ==
  /\ stage[c] = "ended"
  /\ stage' = [stage EXCEPT ![c] = "idle"]
  /\ nearIn' = [nearIn EXCEPT ![c] = <<>>] /\ nearSent' = [nearSent EXCEPT ![c] = 0]
  /\ nearOut' = [nearOut EXCEPT ![c] = <<>>] /\ farIn' = [farIn EXCEPT ![c] = <<>>]
  /\ farBuf' = [farBuf EXCEPT ![c] = <<>>] /\ farOut' = [farOut EXCEPT ![c] = <<>>]
  /\ farSent' = [farSent EXCEPT ![c] = 0] /\ asked' = [asked EXCEPT ![c] = FALSE]
  /\ open' = [open EXCEPT ![c] = FALSE] /\ heard' = [heard EXCEPT ![c] = <<>>]
  /\ shut' = [shut EXCEPT ![c] = {}] /\ name' = [name EXCEPT ![c] = ""]
  /\ given' = [given EXCEPT ![c] = 0]
  /\ kase' = [kase EXCEPT ![c] = NoCase]
  /\ UNCHANGED <<position, advances, plan>>

-----------------------------------------------------------------------------
Init ==
  /\ plan \in Plans
  /\ kase = [c \in Conns |-> NoCase]
  /\ stage = [c \in Conns |-> "idle"]
  /\ nearIn = [c \in Conns |-> <<>>] /\ nearSent = [c \in Conns |-> 0]
  /\ nearOut = [c \in Conns |-> <<>>] /\ farIn = [c \in Conns |-> <<>>]
  /\ farBuf = [c \in Conns |-> <<>>] /\ farOut = [c \in Conns |-> <<>>]
  /\ farSent = [c \in Conns |-> 0] /\ asked = [c \in Conns |-> FALSE]
  /\ open = [c \in Conns |-> FALSE] /\ heard = [c \in Conns |-> <<>>]
  /\ shut = [c \in Conns |-> {}] /\ name = [c \in Conns |-> ""]
  /\ given = [c \in Conns |-> 0]
  /\ position = [s \in Specs |-> 0] /\ advances = [s \in Specs |-> 0]

\* A step of the handler of a connection.
Handler(c) ==
  \/ SocksRead(c) \/ SocksEof(c) \/ Connect(c) \/ Negotiate(c)
  \/ NegotiateEof(c) \/ TlsConnect(c) \/ FillHead(c) \/ ReadHead(c)
  \/ DialEof(c) \/ Down(c) \/ Up(c)

Environment(c) ==
  \/ NearSends(c) \/ NearCloses(c) \/ FarAnswers(c) \/ FarInterim(c)
  \/ FarSends(c) \/ FarCloses(c)

Next == \E c \in Conns :
  Accept(c) \/ TimesOut(c) \/ Handler(c) \/ Environment(c) \/ Release(c)

Spec == Init /\ [][Next]_vars

\* The tasks run and timers fire.  A proxy or a bridge that was asked
\* answers or closes, as nothing else bounds a proxy, a TLS handshake or an
\* upgrade; nothing is assumed of tor and of the Extended ORPort.
Fairness == \A c \in Conns :
  /\ WF_vars(Handler(c)) /\ WF_vars(TimesOut(c))
  /\ WF_vars(Route(c) # "extor" /\ (FarAnswers(c) \/ FarCloses(c)))

FairSpec == Spec /\ Fairness

-----------------------------------------------------------------------------
\* The SOCKS messages of a connection that is set up, and the answers to them.
Socks(c) == IF FromBridge(c) THEN 0
            ELSE IF kase[c].script[1] = "userpass" THEN 3 ELSE 2

\* Nothing of the tunnel is lost, repeated or reordered, however its first
\* messages arrived: pipelined behind the SOCKS request (socks5.rs:70) or
\* behind the upgrade's reply (transport.rs:173).
TunnelWhole == \A c \in Conns : stage[c] = "relay" =>
  /\ SubSeq(nearOut[c], Socks(c) + 1, Len(nearOut[c])) \o farBuf[c] \o farIn[c]
       = SubSeq(FarData, 1, farSent[c])
  /\ farOut[c] \o nearIn[c] = SubSeq(kase[c].script, Socks(c) + 1, nearSent[c])

\* The certificates a bridge line trusts: the pinned chain alone; with uTLS,
\* those of cert-domain, or of the URL's host when another name is imitated;
\* else, or when cert-domain is empty, those of the name sent.
Trusted(line, sni) ==
  {k \in Certs :
     \/ line.pin = k
     \/ /\ line.pin = ""
        /\ LET real == IF line.utls = "none" \/ line.certdomain = "" THEN sni
                       ELSE IF line.certdomain # Absent THEN line.certdomain
                       ELSE IF line.imitation # Absent THEN "host" ELSE sni
           IN real \in CertNames[k]}

\* Tor hears Succeeded, and a tunnel relays, only when every hop has agreed:
\* the proxy or the ORPort to the whole exchange, then for a client the
\* bridge, with a certificate that the bridge line trusts, to the upgrade.
TunnelReal == \A c \in Conns :
  (stage[c] = "relay" \/ "succeeded" \in ToSet(nearOut[c])) =>
    \E s \in Accepting(Route(c)) :
      LET tls == ~FromBridge(c) /\ Line(c).url = "https"
          from == IF tls THEN Len(s) + 1 ELSE Len(s)
          last == Len(heard[c]) IN
      /\ IsPrefix(s, heard[c])
      /\ tls => last >= from /\ heard[c][from] \in Trusted(Line(c), name[c])
      /\ IF FromBridge(c) THEN last = from
         ELSE /\ last > from /\ heard[c][last] = "101"
              /\ \A i \in from + 1 .. last - 1 : heard[c][i] = "100"

\* One failing name moves the generator by one, however many dials were
\* using it (servername.rs:67): an advance on behalf of a dial that was given
\* an earlier name happens only when the names have gone all the way round.
\* It is stated of specs whose names differ.
Distinct(s) == \A i, j \in DOMAIN Names[s] : Names[s][i] = Names[s][j] => i = j
AdvanceOnce == [][\A s \in Specs : Distinct(s) /\ advances'[s] # advances[s] =>
  /\ advances'[s] = advances[s] + 1
  /\ \E c \in Conns :
       /\ stage[c] \in {"tls", "upgrade"} /\ stage'[c] = "ended"
       /\ SpecOf(Line(c)) = s
       /\ \/ given[c] = advances[s]
          \/ advances[s] - given[c] >= Len(Names[s])]_vars

\* Every set-up ends: the SOCKS handshake and the Extended ORPort in time
\* whatever the other end does, the rest once the far end answers or closes.
SetupsEnd == \A c \in Conns :
  stage[c] \notin {"idle", "relay", "ended"} ~> stage[c] \in {"relay", "ended"}

=============================================================================
