---------------------------- MODULE TunnelProofs ----------------------------
(***************************************************************************)
(* Proofs about the set-up of connections, for any number of handlers and  *)
(* connections, any bridge lines, names, certificates and messages.  What  *)
(* the near end sent and a handler has not thrown away lies, in order, in  *)
(* the tunnel and the near socket (NearInv); where the far end's answers   *)
(* are, and what they were, depends on the stage (FarInv); a dial knows    *)
(* how far its generator has moved since it gave the name (NameInv).       *)
(***************************************************************************)
EXTENDS Tunnel, TLAPS

\* What a handler writes to the near end.
Replies == {"method 0", "method 2", "method 255", "auth ok", "auth failed",
            "general failure", "command not supported", "address not supported",
            "succeeded"}

\* What a far end answers, certificates apart.
FarWords == {"no", "100", "101", "okay", "200", "granted", "no auth",
             "userpass", "welcome", "succeeded", "auth types", "server hash", "status"}
Words == Messages \cup Certs \cup Replies \cup FarWords

\* The types.
Typing ==
  /\ kase \in [Conns -> Cases \cup {NoCase}]
  /\ stage \in [Conns -> Stages]
  /\ nearIn \in [Conns -> Seq(Words)] /\ nearOut \in [Conns -> Seq(Words)]
  /\ nearSent \in [Conns -> Nat] /\ farSent \in [Conns -> Nat]
  /\ farIn \in [Conns -> Seq(Words)] /\ farBuf \in [Conns -> Seq(Words)]
  /\ farOut \in [Conns -> Seq(Words)] /\ heard \in [Conns -> Seq(Words)]
  /\ asked \in [Conns -> BOOLEAN] /\ open \in [Conns -> BOOLEAN]
  /\ shut \in [Conns -> SUBSET {"near", "far"}]
  /\ name = [c \in Conns |-> name[c]] /\ given \in [Conns -> Nat]
  /\ position \in [Specs -> Nat] /\ advances \in [Specs -> Nat]
  /\ plan \in [Conns -> Seq(Cases)]

\* The connection has a TLS layer.
Secure(c) == ~FromBridge(c) /\ Line(c).url = "https"

\* A place without a connection.
Fresh(c) ==
  /\ nearIn[c] = <<>> /\ nearOut[c] = <<>> /\ nearSent[c] = 0
  /\ farOut[c] = <<>>

\* The SOCKS messages the handler has read.
Taken(c) == CASE stage[c] = "greeting" -> 0
              [] stage[c] = "auth" -> 1
              [] stage[c] = "command" -> Socks(c) - 1
              [] OTHER -> Socks(c)

\* How many answers it has given.
Said(c) == CASE stage[c] \in {"greeting", "auth", "command"} -> Taken(c)
             [] OTHER -> IF FromBridge(c) THEN 0 ELSE Socks(c) - 1

\* What was read of the near end is answered or relayed.
NearInv(c) ==
  IF stage[c] = "idle" THEN Fresh(c)
  ELSE stage[c] # "ended" =>
    /\ kase[c] \in Cases
    /\ Taken(c) <= nearSent[c] /\ nearSent[c] <= Len(kase[c].script)
    /\ farOut[c] \o nearIn[c] = SubSeq(kase[c].script, Taken(c) + 1, nearSent[c])
    /\ stage[c] \in SocksStages => ~FromBridge(c)
    /\ stage[c] = "auth" => kase[c].script[1] = "userpass"
    /\ stage[c] = "relay" => Len(nearOut[c]) >= Socks(c)
    /\ stage[c] # "relay" => farOut[c] = <<>> /\ Len(nearOut[c]) = Said(c)

\* Before anything is asked of the far end.
Unasked(c) ==
  /\ farIn[c] = <<>> /\ farBuf[c] = <<>> /\ farSent[c] = 0 /\ heard[c] = <<>>
  /\ ~asked[c] /\ ~open[c]

\* An answer at most is on its way, and no byte of the tunnel.
OneAnswer(c) ==
  /\ ~open[c] /\ farSent[c] = 0
  /\ Len(farIn[c]) <= 1 /\ (asked[c] => farIn[c] = <<>>)
  /\ farIn[c] # <<>> => farIn[c][1] \notin {"okay", "101"}

\* The last answer of the Extended ORPort, and the tunnel behind it.
LastAnswer(c) ==
  /\ open[c] /\ ~asked[c] /\ Route(c) = "extor"
  /\ heard[c] = Authenticate
  /\ farIn[c] # <<>> /\ farIn[c][1] = "okay"
  /\ Tail(farIn[c]) = SubSeq(FarData, 1, farSent[c])

\* Replies to the upgrade: k interim ones, the final one, the tunnel.
Pending(c) == farBuf[c] \o farIn[c]
UpgradeReplies(p, accepted, owed, sent, k) ==
  /\ k <= Len(p)
  /\ \A i \in 1..k : p[i] = "100"
  /\ accepted => /\ ~owed /\ k < Len(p) /\ p[k + 1] = "101"
                 /\ SubSeq(p, k + 2, Len(p)) = SubSeq(FarData, 1, sent)
  /\ ~accepted => sent = 0
  /\ ~accepted /\ owed => Len(p) = k
  /\ ~accepted /\ ~owed => Len(p) = k + 1 /\ p[k + 1] = "no"
Upgrading(c, k) == UpgradeReplies(Pending(c), open[c], asked[c], farSent[c], k)

\* The answers of an upgrade that is under way: those of the hops before it,
\* a certificate that is trusted, interim replies.
Hops(c, s) == IF Secure(c) THEN Len(s) + 1 ELSE Len(s)
Trusting(c, s) ==
  /\ s \in Accepting(Route(c)) /\ IsPrefix(s, heard[c])
  /\ Hops(c, s) <= Len(heard[c])
  /\ Secure(c) => heard[c][Len(s) + 1] \in Trusted(Line(c), name[c])

\* The far end, stage by stage.
NegotiateInv(c) ==
  /\ OnTheWay(Route(c), heard[c]) /\ farBuf[c] = <<>>
  /\ OneAnswer(c) \/ LastAnswer(c)

TlsInv(c) ==
  /\ heard[c] \in Accepting(Route(c)) /\ farBuf[c] = <<>> /\ OneAnswer(c)
  /\ Secure(c)

Upgraded(c, s) ==
  Trusting(c, s) /\ \A i \in Hops(c, s) + 1 .. Len(heard[c]) : heard[c][i] = "100"

UpgradeInv(c) ==
  /\ ~FromBridge(c)
  /\ \E s \in Accepting(Route(c)) : Upgraded(c, s)
  /\ \E k \in Nat : Upgrading(c, k)

\* The answers of a tunnel that relays.
Agreed(c, s) ==
  /\ Trusting(c, s)
  /\ IF FromBridge(c) THEN Len(heard[c]) = Len(s)
     ELSE /\ Len(heard[c]) > Hops(c, s) /\ heard[c][Len(heard[c])] = "101"
          /\ \A i \in Hops(c, s) + 1 .. Len(heard[c]) - 1 : heard[c][i] = "100"

RelayInv(c) ==
  /\ ~asked[c]
  /\ SubSeq(nearOut[c], Socks(c) + 1, Len(nearOut[c])) \o farBuf[c] \o farIn[c]
       = SubSeq(FarData, 1, farSent[c])
  /\ \E s \in Accepting(Route(c)) : Agreed(c, s)

Early == {"idle", "connect"} \cup SocksStages

FarInv(c) ==
  /\ stage[c] \in Early => Unasked(c)
  /\ stage[c] = "negotiate" => NegotiateInv(c)
  /\ stage[c] = "tls" => TlsInv(c)
  /\ stage[c] = "upgrade" => UpgradeInv(c)
  /\ stage[c] = "relay" => RelayInv(c)
  /\ farSent[c] <= Len(FarData)

\* No handler says Succeeded before it relays.
Unsaid(c) == stage[c] # "relay" => "succeeded" \notin ToSet(nearOut[c])

\* The generator of a spec, and the place a dial was given.
NameInv(c) ==
  LET s == SpecOf(Line(c)) IN
  stage[c] \in {"tls", "upgrade"} =>
    /\ s \in Specs /\ given[c] <= advances[s]
    /\ Names[s] # <<>> =>
         /\ position[s] \in DOMAIN Names[s]
         /\ \E p \in DOMAIN Names[s] :
              LET k == advances[s] - given[c] IN
              /\ name[c] = Names[s][p]
              /\ k < Len(Names[s]) =>
                   position[s] = p + k \/ position[s] = p + k - Len(Names[s])

\* A generator is at one of its names.
Positioned == \A s \in Specs : position[s] <= Len(Names[s])


IInv == /\ \A c \in Conns : NearInv(c) /\ FarInv(c) /\ Unsaid(c) /\ NameInv(c)
        /\ Positioned
-----------------------------------------------------------------------------
(* Sequences *)

LEMMA TailIsRest ==
  ASSUME NEW T, NEW s \in Seq(T), s # <<>>
  PROVE  /\ SubSeq(s, 2, Len(s)) = Tail(s) /\ Tail(s) \in Seq(T)
         /\ Len(Tail(s)) = Len(s) - 1 /\ Head(s) = s[1] /\ s[1] \in T /\ Len(s) >= 1
         /\ \A i \in 1 .. Len(s) - 1 : Tail(s)[i] = s[i + 1]
  OBVIOUS

LEMMA SliceGrows ==
  ASSUME NEW T, NEW S \in Seq(T), NEW k \in Nat, NEW n \in Nat, k <= n, n < Len(S)
  PROVE  SubSeq(S, k + 1, n + 1) = Append(SubSeq(S, k + 1, n), S[n + 1])
  OBVIOUS

LEMMA SliceTail ==
  ASSUME NEW T, NEW S \in Seq(T), NEW k \in Nat, NEW n \in Nat, k <= n, n <= Len(S),
         SubSeq(S, k + 1, n) # <<>>
  PROVE  /\ k < n
         /\ SubSeq(S, k + 1, n)[1] = S[k + 1]
         /\ Tail(SubSeq(S, k + 1, n)) = SubSeq(S, k + 2, n)
  OBVIOUS

LEMMA AppendConcat ==
  ASSUME NEW T, NEW s \in Seq(T), NEW t \in Seq(T), NEW x \in T
  PROVE  s \o Append(t, x) = Append(s \o t, x)
  OBVIOUS

LEMMA HeadMoves ==
  ASSUME NEW T, NEW s \in Seq(T), NEW t \in Seq(T), t # <<>>
  PROVE  Append(s, Head(t)) \o Tail(t) = s \o t
  OBVIOUS

LEMMA EmptyConcat ==
  ASSUME NEW T, NEW s \in Seq(T)
  PROVE  <<>> \o s = s /\ s \o <<>> = s
  OBVIOUS

LEMMA SliceType ==
  ASSUME NEW T, NEW S \in Seq(T), NEW m \in Nat, NEW n \in Nat, n <= Len(S)
  PROVE  SubSeq(S, m + 1, n) \in Seq(T)
  OBVIOUS

LEMMA TupleType ==
  ASSUME NEW T, NEW a \in T, NEW b \in T, NEW d \in T, NEW e \in T
  PROVE  /\ <<>> \in Seq(T) /\ <<a>> \in Seq(T) /\ <<a, b>> \in Seq(T)
         /\ <<a, b, d>> \in Seq(T) /\ <<a, b, d, e>> \in Seq(T)
  OBVIOUS

LEMMA SameSequence ==
  ASSUME NEW T, NEW s \in Seq(T), NEW t \in Seq(T), Len(s) = Len(t),
         \A i \in 1..Len(s) : s[i] = t[i]
  PROVE  s = t
  OBVIOUS

LEMMA ThreeAndOne ==
  ASSUME NEW T, NEW a \in T, NEW b \in T, NEW d \in T, NEW e \in T
  PROVE  <<a, b, d>> \o <<e>> = <<a, b, d, e>>
<1> DEFINE s == <<a, b, d>> \o <<e>>
<1>1. <<a, b, d>> \in Seq(T) /\ <<e>> \in Seq(T) /\ <<a, b, d, e>> \in Seq(T)
  BY TupleType
<1>2. Len(<<a, b, d>>) = 3 /\ Len(<<e>>) = 1 /\ Len(<<a, b, d, e>>) = 4
  OBVIOUS
<1>3. s \in Seq(T) /\ Len(s) = 4
  BY <1>1, <1>2
<1>4. s[1] = a /\ s[2] = b /\ s[3] = d /\ s[4] = e
  BY <1>1, <1>2
<1>5. \A i \in 1..4 : s[i] = <<a, b, d, e>>[i]
  BY <1>4
<1> HIDE DEF s
<1>6. s = <<a, b, d, e>>
  BY <1>1, <1>2, <1>3, <1>5, SameSequence
<1> QED BY <1>6 DEF s

LEMMA TupleItems ==
  ASSUME NEW a, NEW b, NEW d, NEW e
  PROVE  /\ Len(<<a, b>>) = 2 /\ <<a, b>>[1] = a /\ <<a, b>>[2] = b
         /\ Len(<<a, b, d>>) = 3 /\ <<a, b, d>>[1] = a /\ <<a, b, d>>[2] = b
         /\ <<a, b, d>>[3] = d
         /\ Len(<<a, b, d, e>>) = 4 /\ <<a, b, d, e>>[1] = a /\ <<a, b, d, e>>[2] = b
         /\ <<a, b, d, e>>[3] = d /\ <<a, b, d, e>>[4] = e
  OBVIOUS

LEMMA PrefixFacts ==
  ASSUME NEW T, NEW s \in Seq(T), NEW t \in Seq(T)
  PROVE  /\ IsPrefix(s, t) <=> Len(s) <= Len(t) /\ \A i \in 1..Len(s) : s[i] = t[i]
         /\ IsStrictPrefix(s, t) => Len(s) < Len(t)
<1>1. SubSeq(s, 1, Len(s)) = s OBVIOUS
<1>2. ASSUME Len(s) <= Len(t)
      PROVE  s = SubSeq(t, 1, Len(s)) <=> \A i \in 1..Len(s) : s[i] = t[i]
  BY <1>2
<1>3. IsPrefix(s, t) <=> Len(s) <= Len(t) /\ \A i \in 1..Len(s) : s[i] = t[i]
  BY <1>1, <1>2 DEF IsPrefix
<1>4. ASSUME IsStrictPrefix(s, t), Len(s) = Len(t) PROVE FALSE
  <2>1. s = t BY <1>3, <1>4 DEF IsStrictPrefix
  <2> QED BY <2>1, <1>4 DEF IsStrictPrefix
<1> QED BY <1>3, <1>4 DEF IsStrictPrefix

LEMMA ToSetAppend ==
  ASSUME NEW T, NEW s \in Seq(T), NEW x \in T
  PROVE  \A w : w \in ToSet(Append(s, x)) <=> w \in ToSet(s) \/ w = x
<1> DEFINE t == Append(s, x)
<1>1. /\ t \in Seq(T) /\ Len(t) = Len(s) + 1 /\ t[Len(s) + 1] = x
      /\ \A i \in 1..Len(s) : t[i] = s[i]
  OBVIOUS
<1>2. DOMAIN t = 1 .. Len(s) + 1 /\ DOMAIN s = 1..Len(s)
  OBVIOUS
<1> HIDE DEF t
<1>3. ASSUME NEW w PROVE w \in ToSet(t) <=> w \in ToSet(s) \/ w = x
  <2>1. w \in ToSet(t) <=> \E i \in 1 .. Len(s) + 1 : w = t[i]
    BY <1>2 DEF ToSet
  <2>2. w \in ToSet(s) <=> \E i \in 1 .. Len(s) : w = s[i]
    BY <1>2 DEF ToSet
  <2> QED BY <1>1, <2>1, <2>2
<1> QED BY <1>3 DEF t

LEMMA Splits ==
  ASSUME NEW T, NEW s \in Seq(T), NEW n \in 1..Len(s)
  PROVE  SubSeq(s, 1, n) \o SubSeq(s, n + 1, Len(s)) = s
  OBVIOUS

-----------------------------------------------------------------------------
(* Types *)

LEMMA ReadType ==
  ASSUME Typing, NEW c \in Conns, NEW n \in 1..Len(nearIn[c])
  PROVE  nearIn[c][1] \in Words /\ SubSeq(nearIn[c], n + 1, Len(nearIn[c])) \in Seq(Words)
<1>1. nearIn[c] \in Seq(Words) BY DEF Typing
<1> QED BY <1>1, SliceType

\* Writing a word to a stream, taking the first, leaving the rest.
LEMMA StreamType ==
  ASSUME NEW f \in [Conns -> Seq(Words)], NEW c \in Conns
  PROVE  /\ \A w \in Words : [f EXCEPT ![c] = Append(f[c], w)] \in [Conns -> Seq(Words)]
         /\ f[c] # <<>> =>
              Head(f[c]) \in Words /\ [f EXCEPT ![c] = Tail(f[c])] \in [Conns -> Seq(Words)]
         /\ \A t \in Seq(Words) : [f EXCEPT ![c] = t] \in [Conns -> Seq(Words)]
<1>1. f[c] \in Seq(Words) OBVIOUS
<1>2. \A w \in Words : Append(f[c], w) \in Seq(Words) BY <1>1
<1>3. f[c] # <<>> => Head(f[c]) \in Words /\ Tail(f[c]) \in Seq(Words)
  BY <1>1, TailIsRest
<1> QED BY <1>2, <1>3

LEMMA InitTyping == Init => Typing
  <1> SUFFICES ASSUME Init PROVE Typing OBVIOUS
  <1>1. plan \in [Conns -> Seq(Cases)] BY PlansAssumption DEF Init
  <1>2. /\ kase \in [Conns -> Cases \cup {NoCase}]
        /\ stage \in [Conns -> Stages]
    BY DEF Init, Stages, SocksStages
  <1>3. /\ nearIn \in [Conns -> Seq(Words)] /\ nearOut \in [Conns -> Seq(Words)]
        /\ farIn \in [Conns -> Seq(Words)] /\ farBuf \in [Conns -> Seq(Words)]
        /\ farOut \in [Conns -> Seq(Words)] /\ heard \in [Conns -> Seq(Words)]
    <2>1. <<>> \in Seq(Words) OBVIOUS
    <2>2. [c \in Conns |-> <<>>] \in [Conns -> Seq(Words)] BY <2>1
    <2> QED BY <2>2 DEF Init
  <1>4. /\ nearSent \in [Conns -> Nat] /\ farSent \in [Conns -> Nat]
        /\ given \in [Conns -> Nat]
        /\ position \in [Specs -> Nat] /\ advances \in [Specs -> Nat]
    BY DEF Init
  <1>6. /\ asked \in [Conns -> BOOLEAN] /\ open \in [Conns -> BOOLEAN]
    BY DEF Init
  <1>7. shut \in [Conns -> SUBSET {"near", "far"}]
    BY DEF Init
  <1>5. name = [c \in Conns |-> name[c]]
    BY DEF Init
  <1> QED BY <1>1, <1>2, <1>3, <1>4, <1>5, <1>6, <1>7 DEF Typing

EndTypes == stage' \in [Conns -> Stages] /\ nearOut' \in [Conns -> Seq(Words)]

LEMMA EndType ==
  ASSUME Typing, NEW c \in Conns, NEW w \in Replies \cup {""}, End(c, w)
  PROVE  EndTypes
<1>1. stage' \in [Conns -> Stages]
  BY DEF Typing, End, Stages
<1>2. nearOut \in [Conns -> Seq(Words)] BY DEF Typing
<1>3. w # "" => w \in Words BY DEF Words
<1>4. CASE w = ""
  BY <1>2, <1>4 DEF End, EndTypes, Typing, Stages
<1>5. CASE w # ""
  <2>1. nearOut' = [nearOut EXCEPT ![c] = Append(nearOut[c], w)] BY <1>5 DEF End
  <2> QED BY <1>1, <1>2, <1>3, <1>5, <2>1, StreamType DEF EndTypes
<1> QED BY <1>4, <1>5

LEMMA SayType ==
  ASSUME Typing, NEW c \in Conns, NEW w \in Replies, NEW st \in Stages, Say(c, w, st)
  PROVE  EndTypes
<1>1. nearOut \in [Conns -> Seq(Words)] /\ w \in Words BY DEF Typing, Words
<1>2. stage' \in [Conns -> Stages]
  BY DEF Typing, Say
<1>3. nearOut' \in [Conns -> Seq(Words)]
  BY <1>1, StreamType DEF Say
<1> QED BY <1>2, <1>3 DEF EndTypes

LEMMA FailedType ==
  ASSUME Typing, NEW c \in Conns, Failed(c)
  PROVE  EndTypes
  BY EndType DEF Failed, Replies

LEMMA SocksType ==
  ASSUME Typing, NEW c \in Conns, NEW n \in Nat,
         Greeting(c, n) \/ Auth(c, n) \/ Command(c, n)
  PROVE  EndTypes
<1>1. CASE Greeting(c, n)
  BY <1>1, EndType, SayType DEF Greeting, Replies, Stages, SocksStages
<1>2. CASE Auth(c, n)
  BY <1>2, EndType, SayType DEF Auth, Replies, Stages, SocksStages
<1>3. CASE Command(c, n)
  <2>1. CASE stage' = [stage EXCEPT ![c] = "connect"] /\ UNCHANGED nearOut
    BY <2>1 DEF EndTypes, Typing, Stages
  <2>2. CASE \E w \in Replies \cup {""} : End(c, w)
    BY <2>2, EndType
  <2> QED BY <1>3, <2>1, <2>2 DEF Command, Replies
<1> QED BY <1>1, <1>2, <1>3

NameTypes == /\ name' = [c \in Conns |-> name'[c]] /\ given' \in [Conns -> Nat]
             /\ position' \in [Specs -> Nat] /\ advances' \in [Specs -> Nat]

LEMMA NamesOf ==
  ASSUME NEW s \in Specs
  PROVE  /\ Len(Names[s]) \in Nat /\ DOMAIN Names[s] = 1..Len(Names[s])
         /\ Names[s] # <<>> => Len(Names[s]) > 0
<1>1. Names[s] \in Seq(STRING) BY NamesAssumption
<1> QED BY <1>1

LEMMA PositionsOf ==
  ASSUME Typing, Positioned, NEW s \in Specs, NEW p \in Positions(s)
  PROVE  /\ p \in Nat /\ p <= Len(Names[s])
         /\ Names[s] # <<>> => p \in DOMAIN Names[s]
         /\ position[s] # 0 => p = position[s]
  BY NamesOf DEF Typing, Positions, Positioned

\* The cases of the rest of the dial.
LEMMA PrepareCases ==
  ASSUME NEW c \in Conns, Prepare(c)
  PROVE  \/ Failed(c) /\ UNCHANGED <<asked, nameVars>>
         \/ /\ SpecOf(Line(c)) \in Specs
            /\ \E p \in Positions(SpecOf(Line(c))) :
                 LET s == SpecOf(Line(c))
                     sni == IF p = 0 THEN "" ELSE Names[s][p] IN
                 /\ position' = [position EXCEPT ![s] = p]
                 /\ name' = [name EXCEPT ![c] = sni]
                 /\ given' = [given EXCEPT ![c] = advances[s]]
                 /\ UNCHANGED advances
                 /\ \/ Failed(c) /\ UNCHANGED asked
                    \/ /\ stage' = [stage EXCEPT ![c] =
                             IF Line(c).url = "https" THEN "tls" ELSE "upgrade"]
                       /\ Ask(c) /\ UNCHANGED nearOut
  BY DEF Prepare

LEMMA PrepareType ==
  ASSUME Typing, Positioned, NEW c \in Conns, Prepare(c)
  PROVE  EndTypes /\ NameTypes /\ asked' \in [Conns -> BOOLEAN]
<1>1. CASE Failed(c) /\ UNCHANGED <<asked, nameVars>>
  BY <1>1, FailedType DEF Typing, NameTypes, nameVars
<1>2. CASE SpecOf(Line(c)) \in Specs
  <2> DEFINE s == SpecOf(Line(c))
  <2>1. CASE Failed(c) /\ UNCHANGED <<asked, nameVars>>
    BY <2>1, <1>1
  <2>2. ASSUME NEW p \in Positions(s), NEW sni,
               position' = [position EXCEPT ![s] = p],
               name' = [name EXCEPT ![c] = sni],
               given' = [given EXCEPT ![c] = advances[s]],
               UNCHANGED advances,
               \/ Failed(c) /\ UNCHANGED asked
               \/ /\ stage' = [stage EXCEPT ![c] =
                             IF Line(c).url = "https" THEN "tls" ELSE "upgrade"]
                  /\ Ask(c) /\ UNCHANGED nearOut
        PROVE  EndTypes /\ NameTypes /\ asked' \in [Conns -> BOOLEAN]
    <3>1. p \in Nat BY <1>2, <2>2, PositionsOf
    <3>2. position' \in [Specs -> Nat] BY <3>1, <2>2 DEF Typing
    <3>3. given' \in [Conns -> Nat] /\ advances' \in [Specs -> Nat]
      BY <1>2, <2>2 DEF Typing
    <3>4. name' = [d \in Conns |-> name'[d]]
      BY <2>2 DEF Typing
    <3>5. CASE Failed(c) /\ UNCHANGED asked
      BY <3>2, <3>3, <3>4, <3>5, FailedType DEF Typing, NameTypes
    <3>6. CASE /\ stage' = [stage EXCEPT ![c] =
                             IF Line(c).url = "https" THEN "tls" ELSE "upgrade"]
               /\ Ask(c) /\ UNCHANGED nearOut
      <4>1. EndTypes BY <3>6 DEF EndTypes, Typing, Stages
      <4>2. asked' \in [Conns -> BOOLEAN] BY <3>6 DEF Ask, Typing
      <4> QED BY <3>2, <3>3, <3>4, <4>1, <4>2 DEF NameTypes
    <3> QED BY <2>2, <3>5, <3>6
  <2>3. \/ Failed(c) /\ UNCHANGED <<asked, nameVars>>
        \/ \E p \in Positions(s) : \E sni \in {IF p = 0 THEN "" ELSE Names[s][p]} :
             /\ position' = [position EXCEPT ![s] = p]
             /\ name' = [name EXCEPT ![c] = sni]
             /\ given' = [given EXCEPT ![c] = advances[s]]
             /\ UNCHANGED advances
             /\ \/ Failed(c) /\ UNCHANGED asked
                \/ /\ stage' = [stage EXCEPT ![c] =
                          IF Line(c).url = "https" THEN "tls" ELSE "upgrade"]
                   /\ Ask(c) /\ UNCHANGED nearOut
    BY PrepareCases
  <2> HIDE DEF s
  <2>4. (\E p \in Positions(s) : \E sni \in {IF p = 0 THEN "" ELSE Names[s][p]} :
             /\ position' = [position EXCEPT ![s] = p]
             /\ name' = [name EXCEPT ![c] = sni]
             /\ given' = [given EXCEPT ![c] = advances[s]]
             /\ UNCHANGED advances
             /\ \/ Failed(c) /\ UNCHANGED asked
                \/ /\ stage' = [stage EXCEPT ![c] =
                          IF Line(c).url = "https" THEN "tls" ELSE "upgrade"]
                   /\ Ask(c) /\ UNCHANGED nearOut)
         => EndTypes /\ NameTypes /\ asked' \in [Conns -> BOOLEAN]
    BY <2>2, Zenon
  <2> QED BY <2>1, <2>3, <2>4, Zenon
<1> QED BY <1>1, <1>2, PrepareCases

LEMMA ThroughType ==
  ASSUME Typing, Positioned, NEW c \in Conns, Through(c)
  PROVE  EndTypes /\ NameTypes /\ asked' \in [Conns -> BOOLEAN]
<1>1. CASE FromBridge(c)
  BY <1>1 DEF Through, Typing, EndTypes, NameTypes, Stages, nameVars
<1>2. CASE ~FromBridge(c)
  BY <1>2, PrepareType DEF Through
<1> QED BY <1>1, <1>2

LEMMA RerollType ==
  ASSUME Typing, NEW c \in Conns, Reroll(c), UNCHANGED <<name, given>>
  PROVE  NameTypes
<1> DEFINE s == SpecOf(Line(c))
<1>1. CASE UNCHANGED <<position, advances>>
  BY <1>1 DEF NameTypes, Typing
<1>2. CASE /\ position' = [position EXCEPT ![s] = (position[s] % Len(Names[s])) + 1]
           /\ advances' = [advances EXCEPT ![s] = advances[s] + 1]
  <2>2. CASE s \in Specs /\ Names[s] # <<>>
    <3>1. (position[s] % Len(Names[s])) + 1 \in Nat
      BY <2>2, NamesOf DEF Typing
    <3>2. advances[s] + 1 \in Nat BY <2>2 DEF Typing
    <3> QED BY <1>2, <3>1, <3>2 DEF NameTypes, Typing
  <2>3. CASE s \notin Specs
    <3>1. position' = position /\ advances' = advances
      BY <1>2, <2>3 DEF Typing
    <3> QED BY <3>1 DEF NameTypes, Typing
  <2> QED BY <1>1, <2>2, <2>3 DEF Reroll
<1> QED BY <1>1, <1>2 DEF Reroll

\* What a case says is among the words.
LEMMA CaseWords ==
  ASSUME Typing, NEW c \in Conns, nearSent[c] < Len(kase[c].script)
  PROVE  kase[c] \in Cases /\ kase[c].script[nearSent[c] + 1] \in Words
<1>1. nearSent[c] \in Nat /\ kase[c] \in Cases \cup {NoCase} BY DEF Typing
<1>2. CASE kase[c] \in Cases
  <2>1. kase[c].script \in Seq(Messages) BY <1>2 DEF Cases
  <2>2. kase[c].script[nearSent[c] + 1] \in Messages BY <1>1, <2>1
  <2> QED BY <1>2, <2>2 DEF Words
<1>3. CASE kase[c] = NoCase
  BY <1>1, <1>3 DEF NoCase
<1> QED BY <1>1, <1>2, <1>3

\* The exchanges, one by one.
LEMMA Exchanges ==
  ASSUME NEW r, NEW s \in Accepting(r)
  PROVE  /\ s \in Seq(FarWords) /\ s \in Seq(Words)
         /\ \/ r = "http" /\ s = <<"200">>
            \/ r = "socks4" /\ s = <<"granted">>
            \/ r \in {"socks5", "socks5 user"} /\ s = <<"no auth", "succeeded">>
            \/ r = "socks5 user" /\ s = <<"userpass", "welcome", "succeeded">>
            \/ r = "extor" /\ s = <<"auth types", "server hash", "status", "okay">>
            \/ s = <<>> /\ r \notin {"http", "socks4", "socks5", "socks5 user", "extor"}
<1>1. Authenticate \o SetMetadata = <<"auth types", "server hash", "status", "okay">>
  <2> DEFINE T == {"auth types", "server hash", "status", "okay"}
  <2>1. "auth types" \in T /\ "server hash" \in T /\ "status" \in T /\ "okay" \in T
    OBVIOUS
  <2> QED BY <2>1, ThreeAndOne DEF Authenticate, SetMetadata
<1>2. \/ r = "http" /\ s = <<"200">>
      \/ r = "socks4" /\ s = <<"granted">>
      \/ r \in {"socks5", "socks5 user"} /\ s = <<"no auth", "succeeded">>
      \/ r = "socks5 user" /\ s = <<"userpass", "welcome", "succeeded">>
      \/ r = "extor" /\ s = <<"auth types", "server hash", "status", "okay">>
      \/ s = <<>> /\ r \notin {"http", "socks4", "socks5", "socks5 user", "extor"}
  BY <1>1 DEF Accepting, HttpConnect, Socks4Connect, Socks5Connect
<1>3. FarWords \subseteq Words BY DEF Words
<1>4. /\ "200" \in FarWords /\ "granted" \in FarWords /\ "no auth" \in FarWords
      /\ "userpass" \in FarWords /\ "welcome" \in FarWords
      /\ "succeeded" \in FarWords /\ "auth types" \in FarWords
      /\ "server hash" \in FarWords /\ "status" \in FarWords /\ "okay" \in FarWords
  BY DEF FarWords
<1>5. <<>> \in Seq(FarWords)
  OBVIOUS
<1>11. <<"200">> \in Seq(FarWords)
  BY <1>4, TupleType
<1>12. <<"granted">> \in Seq(FarWords)
  BY <1>4, TupleType
<1>8. <<"no auth", "succeeded">> \in Seq(FarWords)
  BY <1>4, TupleType
<1>9. <<"userpass", "welcome", "succeeded">> \in Seq(FarWords)
  BY <1>4, TupleType
<1>10. <<"auth types", "server hash", "status", "okay">> \in Seq(FarWords)
  BY <1>4, TupleType
<1>6. s \in Seq(FarWords) BY <1>2, <1>5, <1>8, <1>9, <1>10, <1>11, <1>12
<1>7. s \in Seq(Words)
  <2>1. \A i \in 1..Len(s) : s[i] \in Words BY <1>3, <1>6
  <2> QED BY <1>6, <2>1
<1> QED BY <1>2, <1>6, <1>7

LEMMA ExtorAnswers ==
  ASSUME NEW r, r = "extor", NEW s \in Accepting(r)
  PROVE  /\ s = <<"auth types", "server hash", "status", "okay">>
         /\ Len(s) = 4 /\ s[4] = "okay"
<1>1. s = <<"auth types", "server hash", "status", "okay">>
  BY Exchanges
<1> QED BY <1>1, TupleItems

LEMMA AnswerWords ==
  ASSUME Typing, NEW c \in Conns, NEW a \in Answers(c)
  PROVE  a \in Words
<1>1. CASE stage[c] = "negotiate"
  <2>1. a = "no" \/ \E s \in Accepting(Route(c)) :
                       IsStrictPrefix(heard[c], s) /\ a = s[Len(heard[c]) + 1]
    BY <1>1 DEF Answers
  <2>2. ASSUME NEW s \in Accepting(Route(c)), IsStrictPrefix(heard[c], s),
               a = s[Len(heard[c]) + 1]
        PROVE  a \in FarWords
    <3>1. s \in Seq(FarWords) /\ s \in Seq(Words)
      BY Exchanges
    <3>2. heard[c] \in Seq(Words) BY DEF Typing
    <3>3. Len(heard[c]) < Len(s) BY <2>2, <3>1, <3>2, PrefixFacts
    <3> QED BY <2>2, <3>1, <3>2, <3>3
  <2> QED BY <2>1, <2>2 DEF Words, FarWords
<1> QED BY <1>1 DEF Answers, Words, FarWords

\* The parts of Typing, to put together again.
StreamTypes ==
  /\ nearIn \in [Conns -> Seq(Words)] /\ farIn \in [Conns -> Seq(Words)]
  /\ farBuf \in [Conns -> Seq(Words)] /\ farOut \in [Conns -> Seq(Words)]
  /\ heard \in [Conns -> Seq(Words)]
OtherTypes ==
  /\ kase \in [Conns -> Cases \cup {NoCase}] /\ plan \in [Conns -> Seq(Cases)]
  /\ nearSent \in [Conns -> Nat] /\ farSent \in [Conns -> Nat]
  /\ open \in [Conns -> BOOLEAN]
  /\ shut \in [Conns -> SUBSET {"near", "far"}]
AskTypes == asked \in [Conns -> BOOLEAN]

LEMMA TypingParts ==
  Typing' <=> EndTypes /\ NameTypes /\ StreamTypes' /\ OtherTypes' /\ AskTypes'
  BY DEF Typing, EndTypes, NameTypes, StreamTypes, OtherTypes, AskTypes

LEMMA TypingKept ==
  ASSUME Typing
  PROVE  /\ UNCHANGED <<stage, nearOut>> => EndTypes
         /\ UNCHANGED nameVars => NameTypes
         /\ UNCHANGED <<nearIn, farIn, farBuf, farOut, heard>> => StreamTypes'
         /\ UNCHANGED <<kase, plan, nearSent, farSent, open, shut>> => OtherTypes'
         /\ UNCHANGED asked => AskTypes'
  BY DEF Typing, EndTypes, NameTypes, StreamTypes, OtherTypes, AskTypes, nameVars

LEMMA EnvironmentTyped ==
  ASSUME Typing, NEW c \in Conns, Environment(c)
  PROVE  Typing'
<1>1. CASE NearSends(c)
  <2>1. kase[c].script[nearSent[c] + 1] \in Words BY <1>1, CaseWords DEF NearSends
  <2>2. StreamTypes'
    BY <1>1, <2>1, StreamType DEF NearSends, StreamTypes, Typing, farVars
  <2>3. OtherTypes'
    <3>1. nearSent \in [Conns -> Nat] BY DEF Typing
    <3>2. nearSent' = [nearSent EXCEPT ![c] = nearSent[c] + 1]
      BY <1>1 DEF NearSends
    <3>3. nearSent' \in [Conns -> Nat] BY <3>1, <3>2
    <3>4. UNCHANGED <<kase, plan, farSent, open, shut>>
      BY <1>1 DEF NearSends, farVars
    <3> QED BY <3>3, <3>4 DEF OtherTypes, Typing
  <2> QED BY <1>1, <2>2, <2>3, TypingParts, TypingKept DEF NearSends, farVars
<1>2. CASE NearCloses(c)
  <2>1. OtherTypes' BY <1>2 DEF NearCloses, OtherTypes, Typing, nearVars, farVars
  <2> QED BY <1>2, <2>1, TypingParts, TypingKept DEF NearCloses, nearVars, farVars
<1>3. CASE FarAnswers(c)
  <2>1. PICK a \in Answers(c) :
          /\ farIn' = [farIn EXCEPT ![c] = Append(farIn[c], a)]
          /\ open' = [open EXCEPT ![c] = open[c] \/ a \in {"101", "okay"}]
    BY <1>3 DEF FarAnswers
  <2>2. StreamTypes'
    BY <1>3, <2>1, AnswerWords, StreamType DEF FarAnswers, StreamTypes, Typing, nearVars
  <2>3. open' \in [Conns -> BOOLEAN]
    BY <2>1 DEF Typing
  <2>4. OtherTypes'
    BY <1>3, <2>3 DEF FarAnswers, OtherTypes, Typing, nearVars
  <2>5. AskTypes' BY <1>3 DEF FarAnswers, AskTypes, Typing
  <2> QED BY <1>3, <2>2, <2>4, <2>5, TypingParts, TypingKept DEF FarAnswers, nearVars
<1>4. CASE FarInterim(c)
  <2>1. StreamTypes'
    BY <1>4, StreamType DEF FarInterim, StreamTypes, Typing, nearVars, Words, FarWords
  <2> QED BY <1>4, <2>1, TypingParts, TypingKept DEF FarInterim, nearVars
<1>5. CASE FarSends(c)
  <2>1. FarData[farSent[c] + 1] \in Words
    <3>1. farSent[c] \in Nat /\ farSent[c] < Len(FarData) BY <1>5 DEF FarSends, Typing
    <3> QED BY <3>1, DataAssumption DEF Words
  <2>2. StreamTypes'
    BY <1>5, <2>1, StreamType DEF FarSends, StreamTypes, Typing, nearVars
  <2>3. OtherTypes' BY <1>5 DEF FarSends, OtherTypes, Typing, nearVars
  <2> QED BY <1>5, <2>2, <2>3, TypingParts, TypingKept DEF FarSends, nearVars
<1>6. CASE FarCloses(c)
  <2>1. OtherTypes' BY <1>6 DEF FarCloses, OtherTypes, Typing, nearVars, farVars
  <2> QED BY <1>6, <2>1, TypingParts, TypingKept DEF FarCloses, nearVars, farVars
<1> QED BY <1>1, <1>2, <1>3, <1>4, <1>5, <1>6 DEF Environment

LEMMA SetupTyped ==
  ASSUME Typing, NEW c \in Conns, Accept(c) \/ TimesOut(c) \/ SocksRead(c) \/ SocksEof(c)
  PROVE  Typing'
<1>1. CASE Accept(c)
  <2>1. plan[c] \in Seq(Cases) BY DEF Typing
  <2>2. Head(plan[c]) \in Cases /\ Tail(plan[c]) \in Seq(Cases)
    BY <1>1, <2>1, TailIsRest DEF Accept
  <2>3. OtherTypes'
    BY <1>1, <2>2 DEF Accept, OtherTypes, Typing, nearVars, farVars
  <2>4. EndTypes BY <1>1 DEF Accept, EndTypes, Typing, Stages, SocksStages, nearVars
  <2> QED BY <1>1, <2>3, <2>4, TypingParts, TypingKept DEF Accept, nearVars, farVars
<1>2. CASE TimesOut(c)
  <2>1. EndTypes BY <1>2, EndType DEF TimesOut
  <2> QED BY <1>2, <2>1, TypingParts, TypingKept DEF TimesOut, farVars
<1>3. CASE SocksRead(c)
  <2>1. PICK n \in 1..Len(nearIn[c]) :
          Read(c, n) /\ (Greeting(c, n) \/ Auth(c, n) \/ Command(c, n))
    BY <1>3 DEF SocksRead
  <2>2. EndTypes
    <3>1. n \in Nat OBVIOUS
    <3> QED BY <2>1, <3>1, SocksType
  <2>3. StreamTypes'
    BY <1>3, <2>1, ReadType, StreamType DEF SocksRead, Read, StreamTypes, Typing, farVars
  <2> QED BY <1>3, <2>2, <2>3, TypingParts, TypingKept DEF SocksRead, farVars
<1>4. CASE SocksEof(c)
  <2>1. EndTypes BY <1>4, EndType DEF SocksEof, Replies
  <2> QED BY <1>4, <2>1, TypingParts, TypingKept DEF SocksEof, farVars
<1> QED BY <1>1, <1>2, <1>3, <1>4

LEMMA DialTyped ==
  ASSUME Typing, Positioned, NEW c \in Conns,
         Connect(c) \/ Negotiate(c) \/ NegotiateEof(c) \/ TlsConnect(c)
  PROVE  Typing'
<1>1. CASE Connect(c)
  <2>1. open' \in [Conns -> BOOLEAN] BY <1>1 DEF Connect, Typing
  <2>2. OtherTypes' BY <1>1, <2>1 DEF Connect, OtherTypes, Typing
  <2>3. CASE Failed(c) /\ UNCHANGED <<asked, nameVars, open>>
    BY <1>1, <2>2, <2>3, FailedType, TypingParts, TypingKept DEF Connect
  <2>4. CASE /\ stage' = [stage EXCEPT ![c] = "negotiate"] /\ Ask(c)
             /\ UNCHANGED <<nearOut, nameVars, open>>
    <3>1. EndTypes BY <2>4 DEF EndTypes, Typing, Stages
    <3>2. AskTypes' BY <2>4 DEF AskTypes, Ask, Typing
    <3> QED BY <1>1, <2>2, <2>4, <3>1, <3>2, TypingParts, TypingKept DEF Connect
  <2>5. CASE Through(c)
    BY <1>1, <2>2, <2>5, ThroughType, TypingParts, TypingKept DEF Connect, AskTypes
  <2> QED BY <1>1, <2>3, <2>4, <2>5 DEF Connect
<1>2. CASE Negotiate(c)
  <2>1. StreamTypes'
    BY <1>2, StreamType DEF Negotiate, StreamTypes, Typing
  <2>2. CASE Through(c)
    BY <1>2, <2>1, <2>2, ThroughType, TypingParts, TypingKept DEF Negotiate, AskTypes
  <2>3. CASE Ask(c) /\ UNCHANGED <<stage, nearOut, nameVars>>
    <3>1. AskTypes' BY <2>3 DEF AskTypes, Ask, Typing
    <3> QED BY <1>2, <2>1, <2>3, <3>1, TypingParts, TypingKept DEF Negotiate
  <2>4. CASE Failed(c) /\ UNCHANGED <<asked, nameVars>>
    BY <1>2, <2>1, <2>4, FailedType, TypingParts, TypingKept DEF Negotiate
  <2> QED BY <1>2, <2>2, <2>3, <2>4 DEF Negotiate
<1>3. CASE NegotiateEof(c)
  BY <1>3, FailedType, TypingParts, TypingKept DEF NegotiateEof, farVars
<1>4. CASE TlsConnect(c)
  <2>1. StreamTypes'
    BY <1>4, StreamType DEF TlsConnect, StreamTypes, Typing
  <2>2. CASE /\ stage' = [stage EXCEPT ![c] = "upgrade"] /\ Ask(c)
             /\ UNCHANGED <<nearOut, position, advances>>
    <3>1. EndTypes BY <2>2 DEF EndTypes, Typing, Stages
    <3>2. AskTypes' BY <2>2 DEF AskTypes, Ask, Typing
    <3> QED BY <1>4, <2>1, <2>2, <3>1, <3>2, TypingParts, TypingKept DEF TlsConnect, nameVars
  <2>3. CASE Failed(c) /\ Reroll(c) /\ UNCHANGED asked
    BY <1>4, <2>1, <2>3, FailedType, RerollType, TypingParts, TypingKept DEF TlsConnect
  <2> QED BY <1>4, <2>2, <2>3 DEF TlsConnect
<1> QED BY <1>1, <1>2, <1>3, <1>4

LEMMA RestTyped ==
  ASSUME Typing, NEW c \in Conns,
         FillHead(c) \/ ReadHead(c) \/ DialEof(c) \/ Down(c) \/ Up(c) \/ Release(c)
  PROVE  Typing'
<1>1. CASE FillHead(c)
  <2>1. PICK n \in 1..Len(farIn[c]) :
          /\ farBuf' = [farBuf EXCEPT ![c] = SubSeq(farIn[c], 1, n)]
          /\ farIn' = [farIn EXCEPT ![c] = SubSeq(farIn[c], n + 1, Len(farIn[c]))]
    BY <1>1 DEF FillHead
  <2>2. /\ SubSeq(farIn[c], 1, n) \in Seq(Words)
        /\ SubSeq(farIn[c], n + 1, Len(farIn[c])) \in Seq(Words)
    <3>1. farIn[c] \in Seq(Words) BY DEF Typing
    <3> QED BY <3>1
  <2>3. StreamTypes'
    BY <1>1, <2>1, <2>2, StreamType DEF FillHead, StreamTypes, Typing, nearVars
  <2> QED BY <1>1, <2>3, TypingParts, TypingKept DEF FillHead, nearVars
<1>2. CASE ReadHead(c)
  <2>1. StreamTypes'
    BY <1>2, StreamType DEF ReadHead, StreamTypes, Typing
  <2>2. CASE UNCHANGED <<stage, nearOut, position, advances>>
    BY <1>2, <2>1, <2>2, TypingParts, TypingKept DEF ReadHead, nameVars
  <2>3. CASE Say(c, "succeeded", "relay") /\ UNCHANGED <<position, advances>>
    <3>1. EndTypes BY <2>3, SayType DEF Replies, Stages
    <3> QED BY <1>2, <2>1, <2>3, <3>1, TypingParts, TypingKept DEF ReadHead, nameVars
  <2>4. CASE Failed(c) /\ Reroll(c)
    BY <1>2, <2>1, <2>4, FailedType, RerollType, TypingParts, TypingKept DEF ReadHead
  <2> QED BY <1>2, <2>2, <2>3, <2>4 DEF ReadHead
<1>3. CASE DialEof(c)
  BY <1>3, FailedType, RerollType, TypingParts, TypingKept DEF DialEof, farVars
<1>4. CASE Down(c)
  <2>1. PICK f \in {farBuf, farIn} :
          /\ f[c] # <<>>
          /\ nearOut' = [nearOut EXCEPT ![c] = Append(nearOut[c], Head(f[c]))]
          /\ \/ f = farBuf /\ farBuf' = [f EXCEPT ![c] = Tail(f[c])] /\ UNCHANGED farIn
             \/ f = farIn /\ farIn' = [f EXCEPT ![c] = Tail(f[c])] /\ UNCHANGED farBuf
    BY <1>4 DEF Down
  <2>2. f \in [Conns -> Seq(Words)] /\ nearOut \in [Conns -> Seq(Words)]
    BY DEF Typing
  <2>3. Head(f[c]) \in Words /\ [f EXCEPT ![c] = Tail(f[c])] \in [Conns -> Seq(Words)]
    BY <2>1, <2>2, StreamType
  <2>4. nearOut' \in [Conns -> Seq(Words)]
    BY <2>1, <2>2, <2>3, StreamType
  <2>5. EndTypes BY <1>4, <2>4 DEF Down, EndTypes, Typing
  <2>6. StreamTypes' BY <1>4, <2>1, <2>3 DEF Down, StreamTypes, Typing
  <2> QED BY <1>4, <2>5, <2>6, TypingParts, TypingKept DEF Down
<1>5. CASE Up(c)
  <2>1. StreamTypes'
    BY <1>5, StreamType DEF Up, StreamTypes, Typing
  <2> QED BY <1>5, <2>1, TypingParts, TypingKept DEF Up
<1>6. CASE Release(c)
  <2>1. <<>> \in Seq(Words) OBVIOUS
  <2>2. StreamTypes' /\ nearOut' \in [Conns -> Seq(Words)]
    BY <1>6, <2>1, StreamType DEF Release, StreamTypes, Typing
  <2>3. EndTypes BY <1>6, <2>2 DEF Release, EndTypes, Typing, Stages
  <2>4. name' = [d \in Conns |-> name'[d]] BY <1>6 DEF Release, Typing
  <2>5. NameTypes BY <1>6, <2>4 DEF Release, NameTypes, Typing
  <2>6. OtherTypes' BY <1>6 DEF Release, OtherTypes, Typing
  <2>7. AskTypes' BY <1>6 DEF Release, AskTypes, Typing
  <2> QED BY <2>2, <2>3, <2>5, <2>6, <2>7, TypingParts
<1> QED BY <1>1, <1>2, <1>3, <1>4, <1>5, <1>6

LEMMA TypingStep == Typing /\ Positioned /\ [Next]_vars => Typing'
<1> SUFFICES ASSUME Typing, Positioned, [Next]_vars PROVE Typing'
  OBVIOUS
<1>1. CASE UNCHANGED vars
  BY <1>1, TypingParts, TypingKept DEF vars, nearVars, farVars, nameVars
<1>2. ASSUME NEW c \in Conns,
             Accept(c) \/ TimesOut(c) \/ Handler(c) \/ Environment(c) \/ Release(c)
      PROVE  Typing'
  BY <1>2, EnvironmentTyped, SetupTyped, DialTyped, RestTyped DEF Handler
<1> QED BY <1>1, <1>2 DEF Next

-----------------------------------------------------------------------------
(* A step of one connection leaves the others alone. *)

Step(c) == Accept(c) \/ TimesOut(c) \/ Handler(c) \/ Environment(c) \/ Release(c)

KeptNear(d) ==
  /\ kase'[d] = kase[d] /\ stage'[d] = stage[d] /\ nearIn'[d] = nearIn[d]
  /\ nearSent'[d] = nearSent[d] /\ nearOut'[d] = nearOut[d] /\ farOut'[d] = farOut[d]
KeptFar(d) ==
  /\ farIn'[d] = farIn[d] /\ farBuf'[d] = farBuf[d] /\ farSent'[d] = farSent[d]
  /\ asked'[d] = asked[d] /\ open'[d] = open[d] /\ heard'[d] = heard[d]
KeptName(d) == name'[d] = name[d] /\ given'[d] = given[d]
Kept(d) == KeptNear(d) /\ KeptFar(d) /\ KeptName(d)

LEMMA EndKeeps ==
  ASSUME Typing, NEW c \in Conns, NEW w, End(c, w), NEW d \in Conns, d # c
  PROVE  stage'[d] = stage[d] /\ nearOut'[d] = nearOut[d]
  BY DEF End, Typing

LEMMA FailedKeeps ==
  ASSUME Typing, NEW c \in Conns, Failed(c), NEW d \in Conns, d # c
  PROVE  stage'[d] = stage[d] /\ nearOut'[d] = nearOut[d]
  BY EndKeeps DEF Failed

LEMMA ThroughKeeps ==
  ASSUME Typing, NEW c \in Conns, Through(c), NEW d \in Conns, d # c
  PROVE  /\ stage'[d] = stage[d] /\ nearOut'[d] = nearOut[d]
         /\ asked'[d] = asked[d] /\ KeptName(d)
<1>1. CASE Failed(c) /\ UNCHANGED <<asked, nameVars>>
  BY <1>1, FailedKeeps DEF KeptName, nameVars
<1>2. CASE FromBridge(c)
  BY <1>2 DEF Through, Typing, KeptName, nameVars
<1>3. ASSUME NEW sni, NEW s,
             name' = [name EXCEPT ![c] = sni], given' = [given EXCEPT ![c] = advances[s]],
             \/ Failed(c) /\ UNCHANGED asked
             \/ /\ stage' = [stage EXCEPT ![c] =
                             IF Line(c).url = "https" THEN "tls" ELSE "upgrade"]
                /\ Ask(c) /\ UNCHANGED nearOut
      PROVE  /\ stage'[d] = stage[d] /\ nearOut'[d] = nearOut[d]
             /\ asked'[d] = asked[d] /\ KeptName(d)
  <2>1. KeptName(d) BY <1>3 DEF Typing, KeptName
  <2>2. CASE Failed(c) /\ UNCHANGED asked
    BY <2>1, <2>2, FailedKeeps
  <2>3. CASE /\ stage' = [stage EXCEPT ![c] =
                             IF Line(c).url = "https" THEN "tls" ELSE "upgrade"]
             /\ Ask(c) /\ UNCHANGED nearOut
    BY <2>1, <2>3 DEF Ask, Typing
  <2> QED BY <1>3, <2>2, <2>3
<1>4. CASE Prepare(c)
  <2> DEFINE s == SpecOf(Line(c))
             sni(p) == IF p = 0 THEN "" ELSE Names[s][p]
  <2>1. CASE \E p \in Positions(s) :
               /\ name' = [name EXCEPT ![c] = sni(p)]
               /\ given' = [given EXCEPT ![c] = advances[s]]
               /\ \/ Failed(c) /\ UNCHANGED asked
                  \/ /\ stage' = [stage EXCEPT ![c] =
                             IF Line(c).url = "https" THEN "tls" ELSE "upgrade"]
                     /\ Ask(c) /\ UNCHANGED nearOut
    BY <1>3, <2>1
  <2>2. \/ Failed(c) /\ UNCHANGED <<asked, nameVars>>
        \/ \E p \in Positions(s) :
               /\ name' = [name EXCEPT ![c] = sni(p)]
               /\ given' = [given EXCEPT ![c] = advances[s]]
               /\ \/ Failed(c) /\ UNCHANGED asked
                  \/ /\ stage' = [stage EXCEPT ![c] =
                             IF Line(c).url = "https" THEN "tls" ELSE "upgrade"]
                     /\ Ask(c) /\ UNCHANGED nearOut
    BY <1>4, PrepareCases
  <2> QED BY <1>1, <2>1, <2>2
<1> QED BY <1>2, <1>4 DEF Through

LEMMA OthersKeep ==
  ASSUME Typing, NEW c \in Conns, Step(c), NEW d \in Conns, d # c
  PROVE  Kept(d)
<1> USE DEF Kept, KeptNear, KeptFar, KeptName
<1>1. CASE Environment(c)
  BY <1>1 DEF Environment, NearSends, NearCloses, FarAnswers, FarInterim, FarSends,
              FarCloses, Typing, nearVars, farVars, nameVars
<1>2. CASE Accept(c)
  BY <1>2 DEF Accept, Typing, nearVars, farVars, nameVars
<1>3. CASE TimesOut(c)
  BY <1>3, EndKeeps DEF TimesOut, farVars, nameVars
<1>4. CASE SocksRead(c)
  <2>1. PICK n \in 1..Len(nearIn[c]) :
          Read(c, n) /\ (Greeting(c, n) \/ Auth(c, n) \/ Command(c, n))
    BY <1>4 DEF SocksRead
  <2>2. nearIn'[d] = nearIn[d] BY <2>1 DEF Read, Typing
  <2>3. CASE \E w : End(c, w)
    BY <1>4, <2>2, <2>3, EndKeeps DEF SocksRead, farVars, nameVars
  <2>4. CASE \E w, st : Say(c, w, st)
    BY <1>4, <2>2, <2>4 DEF Say, SocksRead, Typing, farVars, nameVars
  <2>5. CASE stage' = [stage EXCEPT ![c] = "connect"] /\ UNCHANGED nearOut
    BY <1>4, <2>2, <2>5 DEF SocksRead, Typing, farVars, nameVars
  <2>6. CASE Greeting(c, n)
    BY <2>3, <2>4, <2>6 DEF Greeting
  <2>7. CASE Auth(c, n)
    BY <2>3, <2>4, <2>7 DEF Auth
  <2>8. CASE Command(c, n)
    BY <2>3, <2>5, <2>8 DEF Command
  <2> QED BY <2>1, <2>6, <2>7, <2>8
<1>5. CASE SocksEof(c)
  BY <1>5, EndKeeps DEF SocksEof, farVars, nameVars
<1>6. CASE Connect(c)
  <2>1. open'[d] = open[d] BY <1>6 DEF Connect, Typing
  <2>2. CASE Failed(c) /\ UNCHANGED <<asked, nameVars, open>>
    BY <1>6, <2>2, FailedKeeps DEF Connect, nameVars
  <2>3. CASE /\ stage' = [stage EXCEPT ![c] = "negotiate"] /\ Ask(c)
             /\ UNCHANGED <<nearOut, nameVars, open>>
    BY <1>6, <2>3 DEF Connect, Ask, Typing, nameVars
  <2>4. CASE Through(c)
    BY <1>6, <2>1, <2>4, ThroughKeeps DEF Connect
  <2> QED BY <1>6, <2>2, <2>3, <2>4 DEF Connect
<1>7. CASE Negotiate(c)
  <2>1. farIn'[d] = farIn[d] /\ heard'[d] = heard[d] BY <1>7 DEF Negotiate, Typing
  <2>2. CASE Failed(c) /\ UNCHANGED <<asked, nameVars>>
    BY <1>7, <2>1, <2>2, FailedKeeps DEF Negotiate, nameVars
  <2>3. CASE Ask(c) /\ UNCHANGED <<stage, nearOut, nameVars>>
    BY <1>7, <2>1, <2>3 DEF Negotiate, Ask, Typing, nameVars
  <2>4. CASE Through(c)
    BY <1>7, <2>1, <2>4, ThroughKeeps DEF Negotiate
  <2> QED BY <1>7, <2>2, <2>3, <2>4 DEF Negotiate
<1>8. CASE NegotiateEof(c)
  BY <1>8, FailedKeeps DEF NegotiateEof, farVars, nameVars
<1>9. CASE TlsConnect(c)
  <2>1. farIn'[d] = farIn[d] /\ heard'[d] = heard[d] BY <1>9 DEF TlsConnect, Typing
  <2>2. CASE Failed(c) /\ UNCHANGED asked
    BY <1>9, <2>1, <2>2, FailedKeeps DEF TlsConnect
  <2>3. CASE stage' = [stage EXCEPT ![c] = "upgrade"] /\ Ask(c) /\ UNCHANGED nearOut
    BY <1>9, <2>1, <2>3 DEF TlsConnect, Ask, Typing
  <2> QED BY <1>9, <2>2, <2>3 DEF TlsConnect
<1>10. CASE FillHead(c)
  BY <1>10 DEF FillHead, Typing, nearVars, nameVars
<1>11. CASE ReadHead(c)
  <2>1. farBuf'[d] = farBuf[d] /\ heard'[d] = heard[d] BY <1>11 DEF ReadHead, Typing
  <2>2. CASE Failed(c)
    BY <1>11, <2>1, <2>2, FailedKeeps DEF ReadHead
  <2>3. CASE Say(c, "succeeded", "relay")
    BY <1>11, <2>1, <2>3 DEF ReadHead, Say, Typing
  <2>4. CASE UNCHANGED <<stage, nearOut>>
    BY <1>11, <2>1, <2>4 DEF ReadHead
  <2> QED BY <1>11, <2>2, <2>3, <2>4 DEF ReadHead
<1>12. CASE DialEof(c)
  BY <1>12, FailedKeeps DEF DialEof, farVars
<1>13. CASE Down(c)
  BY <1>13 DEF Down, Typing, nameVars
<1>14. CASE Up(c)
  BY <1>14 DEF Up, Typing, nameVars
<1>15. CASE Release(c)
  BY <1>15 DEF Release, Typing
<1> QED BY <1>1, <1>2, <1>3, <1>4, <1>5, <1>6, <1>7, <1>8, <1>9, <1>10, <1>11,
           <1>12, <1>13, <1>14, <1>15 DEF Step, Handler

LEMMA FarKept ==
  ASSUME NEW d, KeptFar(d), KeptName(d), FarInv(d),
         kase'[d] = kase[d], stage'[d] = stage[d], nearOut'[d] = nearOut[d]
  PROVE  FarInv(d)'
<1>1. /\ FromBridge(d)' = FromBridge(d) /\ Route(d)' = Route(d) /\ Line(d)' = Line(d)
      /\ Socks(d)' = Socks(d) /\ Secure(d)' = Secure(d)
  BY DEF FromBridge, Route, Line, Socks, Secure
<1>2. /\ Unasked(d)' = Unasked(d) /\ OneAnswer(d)' = OneAnswer(d)
      /\ LastAnswer(d)' = LastAnswer(d) /\ Pending(d)' = Pending(d)
  BY <1>1 DEF KeptFar, Unasked, OneAnswer, LastAnswer, Pending
<1>3. \A k : Upgrading(d, k)' = Upgrading(d, k)
  BY <1>2 DEF KeptFar, Upgrading
<1>4. \A s : Hops(d, s)' = Hops(d, s) /\ Trusting(d, s)' = Trusting(d, s)
  BY <1>1 DEF KeptFar, KeptName, Hops, Trusting
<1>5. NegotiateInv(d)' = NegotiateInv(d) /\ TlsInv(d)' = TlsInv(d)
  BY <1>1, <1>2 DEF KeptFar, NegotiateInv, TlsInv
<1>6. UpgradeInv(d)' = UpgradeInv(d)
  BY <1>1, <1>3, <1>4 DEF KeptFar, UpgradeInv, Upgraded
<1>7. RelayInv(d)' = RelayInv(d)
  BY <1>1, <1>4 DEF KeptFar, RelayInv, Agreed
<1> QED BY <1>2, <1>5, <1>6, <1>7 DEF FarInv, KeptFar

-----------------------------------------------------------------------------
(* The near end: what was read, what is still to be read, what was answered. *)

LEMMA NearKept ==
  ASSUME NEW c, KeptNear(c), NearInv(c)
  PROVE  NearInv(c)'
<1>1. FromBridge(c)' = FromBridge(c) /\ Socks(c)' = Socks(c)
  BY DEF KeptNear, FromBridge, Route, Socks
<1>2. Taken(c)' = Taken(c) /\ Said(c)' = Said(c)
  BY <1>1 DEF KeptNear, Taken, Said
<1> QED BY <1>1, <1>2 DEF NearInv, Fresh, KeptNear

\* The shape of NearInv while the SOCKS request is read and a dial goes on.
LEMMA NearShape ==
  ASSUME Typing, NEW c \in Conns, NearInv(c), stage[c] \notin {"idle", "ended"}
  PROVE  /\ kase[c] \in Cases /\ kase[c].script \in Seq(Messages)
         /\ Taken(c) \in Nat /\ Socks(c) \in Nat /\ nearSent[c] \in Nat
         /\ Taken(c) <= nearSent[c] /\ nearSent[c] <= Len(kase[c].script)
         /\ farOut[c] \o nearIn[c] = SubSeq(kase[c].script, Taken(c) + 1, nearSent[c])
         /\ nearIn[c] \in Seq(Words) /\ farOut[c] \in Seq(Words)
         /\ nearOut[c] \in Seq(Words)
         /\ stage[c] # "relay" =>
              /\ farOut[c] = <<>> /\ Len(nearOut[c]) = Said(c)
              /\ nearIn[c] = SubSeq(kase[c].script, Taken(c) + 1, nearSent[c])
<1>1. kase[c] \in Cases /\ kase[c].script \in Seq(Messages)
  BY DEF NearInv, Cases
<1>2. /\ nearIn[c] \in Seq(Words) /\ farOut[c] \in Seq(Words)
      /\ nearOut[c] \in Seq(Words) /\ nearSent[c] \in Nat
  BY DEF Typing
<1>3. Taken(c) \in Nat /\ Socks(c) \in Nat
  <2>1. Socks(c) \in Nat /\ (~FromBridge(c) => Socks(c) \in {2, 3})
    BY DEF Socks
  <2>2. stage[c] = "command" => ~FromBridge(c)
    BY DEF NearInv, SocksStages
  <2> QED BY <2>1, <2>2 DEF Taken
<1>4. stage[c] # "relay" => nearIn[c] = SubSeq(kase[c].script, Taken(c) + 1, nearSent[c])
  BY <1>2, EmptyConcat DEF NearInv
<1> QED BY <1>1, <1>2, <1>3, <1>4 DEF NearInv

LEMMA NearAccepts ==
  ASSUME Typing, NEW c \in Conns, NearInv(c), Accept(c)
  PROVE  NearInv(c)'
<1> DEFINE k == Head(plan[c])
<1>1. k \in Cases
  <2>1. plan[c] \in Seq(Cases) BY DEF Typing
  <2> QED BY <2>1, TailIsRest DEF Accept
<1>2. kase'[c] = k /\ stage'[c] = IF k.route \in {"or", "extor"} THEN "connect" ELSE "greeting"
  BY DEF Accept, Typing
<1>3. FromBridge(c)' <=> k.route \in {"or", "extor"}
  BY <1>2 DEF FromBridge, Route
<1>4. Taken(c)' = 0 /\ Said(c)' = 0 /\ (stage'[c] = "greeting" => ~FromBridge(c)')
  BY <1>2, <1>3 DEF Taken, Said, Socks
<1>5. Fresh(c) /\ UNCHANGED <<nearIn, nearSent, nearOut, farOut>>
  BY DEF Accept, NearInv, nearVars, farVars
<1>6. k.script \in Seq(Messages) /\ SubSeq(k.script, 1, 0) = <<>> /\ Len(k.script) >= 0
  BY <1>1 DEF Cases
<1>7. /\ farOut'[c] = <<>> /\ nearIn'[c] = <<>> /\ nearSent'[c] = 0
      /\ nearOut'[c] = <<>> /\ Len(nearOut'[c]) = 0
  BY <1>5 DEF Fresh
<1>8. <<>> \o <<>> = <<>> OBVIOUS
<1>9. farOut'[c] \o nearIn'[c] = SubSeq(kase'[c].script, Taken(c)' + 1, nearSent'[c])
  BY <1>2, <1>4, <1>6, <1>7, <1>8
<1>10. stage'[c] \notin {"idle", "ended", "auth", "relay"}
       /\ (stage'[c] \in SocksStages => ~FromBridge(c)')
  BY <1>2, <1>4 DEF SocksStages
<1> QED BY <1>1, <1>2, <1>4, <1>6, <1>7, <1>9, <1>10 DEF NearInv

LEMMA NearGrows ==
  ASSUME Typing, NEW c \in Conns, NearInv(c), NearSends(c)
  PROVE  NearInv(c)'
<1> DEFINE S == kase[c].script
           n == nearSent[c]
<1>1. stage[c] \notin {"idle", "ended"} /\ n < Len(S) /\ stage' = stage /\ kase' = kase
      /\ nearOut' = nearOut /\ farOut' = farOut
  BY DEF NearSends, farVars
<1>2. nearSent'[c] = n + 1 /\ nearIn'[c] = Append(nearIn[c], S[n + 1])
  BY DEF NearSends, Typing
<1>3. Taken(c)' = Taken(c) /\ Said(c)' = Said(c) /\ Socks(c)' = Socks(c)
      /\ FromBridge(c)' = FromBridge(c)
  BY <1>1 DEF Taken, Said, Socks, FromBridge, Route
<1>4. S[n + 1] \in Words
  BY <1>1, CaseWords
<1>5. farOut[c] \o nearIn'[c] = SubSeq(S, Taken(c) + 1, n + 1)
  <2>1. /\ S \in Seq(Messages) /\ Taken(c) \in Nat /\ n \in Nat /\ Taken(c) <= n
        /\ nearIn[c] \in Seq(Words) /\ farOut[c] \in Seq(Words)
        /\ farOut[c] \o nearIn[c] = SubSeq(S, Taken(c) + 1, n)
    BY <1>1, NearShape
  <2>2. SubSeq(S, Taken(c) + 1, n + 1) = Append(SubSeq(S, Taken(c) + 1, n), S[n + 1])
    BY <1>1, <2>1, SliceGrows
  <2>3. nearIn \in [Conns -> Seq(Words)] /\ farOut \in [Conns -> Seq(Words)]
    BY DEF Typing
  <2>4. \A w \in Words : farOut[c] \o Append(nearIn[c], w) = Append(farOut[c] \o nearIn[c], w)
    BY <2>3, AppendConcat
  <2> QED BY <1>2, <1>4, <2>1, <2>2, <2>4
<1>6. Taken(c) \in Nat /\ n \in Nat /\ Len(S) \in Nat /\ Taken(c) <= n
  <2>1. S \in Seq(Messages) BY <1>1, NearShape
  <2>2. Taken(c) \in Nat /\ n \in Nat /\ Taken(c) <= n BY <1>1, NearShape
  <2> QED BY <2>1, <2>2
<1>7. Taken(c) <= n + 1 /\ n + 1 <= Len(S)
  BY <1>1, <1>6
<1>8. /\ stage'[c] = stage[c] /\ kase'[c] = kase[c] /\ nearOut'[c] = nearOut[c]
      /\ farOut'[c] = farOut[c]
  BY <1>1
<1> HIDE DEF S, n
<1> QED BY <1>1, <1>2, <1>3, <1>5, <1>7, <1>8 DEF NearInv, S

\* A read of one SOCKS message.
LEMMA OneRead ==
  ASSUME Typing, NEW c \in Conns, NearInv(c), stage[c] \notin {"idle", "ended", "relay"},
         1 \in 1..Len(nearIn[c]), Read(c, 1)
  PROVE  /\ Taken(c) < nearSent[c]
         /\ nearIn[c][1] = kase[c].script[Taken(c) + 1]
         /\ nearIn'[c] = SubSeq(kase[c].script, Taken(c) + 2, nearSent[c])
         /\ nearIn'[c] \in Seq(Words)
<1> DEFINE S == kase[c].script
           n == nearSent[c]
           T == Taken(c)
<1>1. /\ S \in Seq(Messages) /\ T \in Nat /\ n \in Nat /\ T <= n /\ n <= Len(S)
      /\ nearIn[c] = SubSeq(S, T + 1, n)
  BY NearShape
<1>2. nearIn[c] \in Seq(Words) /\ nearIn[c] # <<>>
  BY DEF Typing
<1>3. nearIn'[c] = Tail(nearIn[c])
  <2>1. nearIn'[c] = SubSeq(nearIn[c], 2, Len(nearIn[c])) BY DEF Read, Typing
  <2> QED BY <1>2, <2>1, TailIsRest
<1> HIDE DEF S, n, T
<1>4. T < n /\ SubSeq(S, T + 1, n)[1] = S[T + 1]
      /\ Tail(SubSeq(S, T + 1, n)) = SubSeq(S, T + 2, n)
  BY <1>1, <1>2, SliceTail
<1>5. Tail(nearIn[c]) \in Seq(Words)
  BY <1>2, TailIsRest
<1> QED BY <1>1, <1>3, <1>4, <1>5 DEF S, n, T

\* A handler that goes on: what it said last, and which SOCKS stage is next.
LEMMA SaidAppend ==
  ASSUME Typing, NEW c \in Conns, NEW w \in Words,
         nearOut' = [nearOut EXCEPT ![c] = Append(nearOut[c], w)]
  PROVE  /\ nearOut'[c] = Append(nearOut[c], w) /\ nearOut[c] \in Seq(Words)
         /\ Len(nearOut'[c]) = Len(nearOut[c]) + 1
<1>1. nearOut \in [Conns -> Seq(Words)] BY DEF Typing
<1>2. nearOut'[c] = Append(nearOut[c], w) /\ nearOut[c] \in Seq(Words)
  BY <1>1
<1>3. Len(Append(nearOut[c], w)) = Len(nearOut[c]) + 1
  BY <1>1
<1> QED BY <1>2, <1>3

LEMMA SayEffect ==
  ASSUME Typing, NEW c \in Conns, NEW w \in Replies, NEW st, Say(c, w, st)
  PROVE  /\ stage'[c] = st /\ nearOut'[c] = Append(nearOut[c], w)
         /\ Len(nearOut'[c]) = Len(nearOut[c]) + 1
<1>1. w \in Words BY DEF Words
<1>2. nearOut' = [nearOut EXCEPT ![c] = Append(nearOut[c], w)] BY DEF Say
<1>3. stage'[c] = st BY DEF Say, Typing
<1> QED BY <1>1, <1>2, <1>3, SaidAppend

LEMMA NearReads ==
  ASSUME Typing, NEW c \in Conns, NearInv(c), SocksRead(c)
  PROVE  NearInv(c)'
<1> DEFINE S == kase[c].script
<1>1. PICK k \in 1..Len(nearIn[c]) :
          Read(c, k) /\ (Greeting(c, k) \/ Auth(c, k) \/ Command(c, k))
  BY DEF SocksRead
<1>2. /\ kase' = kase /\ nearSent' = nearSent /\ farOut' = farOut
      /\ FromBridge(c)' = FromBridge(c) /\ Socks(c)' = Socks(c)
  BY DEF SocksRead, farVars, FromBridge, Route, Socks
<1>3. CASE stage'[c] = "ended"
  BY <1>3 DEF NearInv
<1>4. stage[c] \in SocksStages
  BY <1>1 DEF Greeting, Auth, Command, SocksStages
<1>5. /\ ~FromBridge(c) /\ farOut[c] = <<>> /\ Len(nearOut[c]) = Taken(c)
      /\ kase[c] \in Cases /\ nearSent[c] <= Len(S)
      /\ Taken(c) \in Nat /\ nearSent[c] \in Nat
      /\ Socks(c) = IF S[1] = "userpass" THEN 3 ELSE 2
  BY <1>4, NearShape DEF NearInv, SocksStages, Socks, Said
<1>10. ASSUME k = 1
       PROVE  /\ Taken(c) < nearSent[c] /\ nearIn[c][1] = S[Taken(c) + 1]
              /\ nearIn'[c] = SubSeq(S, Taken(c) + 2, nearSent[c])
              /\ nearIn'[c] \in Seq(Words)
  <2>1. 1 \in 1..Len(nearIn[c]) /\ Read(c, 1)
    BY <1>1, <1>10
  <2> QED BY <1>4, <2>1, OneRead DEF SocksStages
\* It is enough that the next stage has read one message more.
<1>6. ASSUME k = 1, stage'[c] \in {"auth", "command", "connect"},
             Taken(c)' = Taken(c) + 1, Len(nearOut'[c]) = Said(c)',
             stage'[c] = "auth" => S[1] = "userpass"
      PROVE  NearInv(c)'
  <2>1. /\ Taken(c) < nearSent[c]
        /\ nearIn'[c] = SubSeq(S, Taken(c) + 2, nearSent[c]) /\ nearIn'[c] \in Seq(Words)
    BY <1>6, <1>10
  <2>2. <<>> \o nearIn'[c] = nearIn'[c] BY <2>1, EmptyConcat
  <2>3. farOut'[c] \o nearIn'[c] = SubSeq(kase'[c].script, Taken(c)' + 1, nearSent'[c])
    <3>1. Taken(c)' + 1 = Taken(c) + 2 BY <1>5, <1>6
    <3> QED BY <1>2, <1>5, <2>1, <2>2, <3>1
  <2>4. Taken(c)' <= nearSent'[c]
    BY <1>2, <1>5, <1>6, <2>1
  <2> QED BY <1>2, <1>5, <1>6, <2>3, <2>4 DEF NearInv
<1>7. CASE stage[c] = "greeting"
  <2>1. Taken(c) = 0 BY <1>7 DEF Taken
  <2>2. Greeting(c, k) BY <1>1, <1>7 DEF Auth, Command
  <2>3. CASE nearIn[c][1] = "userpass" /\ NoTrailing(k) /\ Say(c, "method 2", "auth")
    <3>1. k = 1 BY <2>3 DEF NoTrailing
    <3>5. Taken(c) + 1 = 1 BY <2>1
    <3>2. S[1] = "userpass" BY <1>10, <2>3, <3>1, <3>5
    <3>6. "method 2" \in Replies BY DEF Replies
    <3>7. stage'[c] = "auth" /\ Len(nearOut'[c]) = Len(nearOut[c]) + 1
      BY <2>3, <3>6, SayEffect
    <3>3. stage'[c] = "auth" /\ Len(nearOut'[c]) = 1
      BY <1>5, <2>1, <3>7
    <3>4. Taken(c)' = 1 /\ Said(c)' = 1 BY <3>3 DEF Taken, Said
    <3> QED BY <1>6, <2>1, <3>1, <3>2, <3>3, <3>4
  <2>4. CASE nearIn[c][1] = "noauth" /\ NoTrailing(k) /\ Say(c, "method 0", "command")
    <3>1. k = 1 BY <2>4 DEF NoTrailing
    <3>5. Taken(c) + 1 = 1 BY <2>1
    <3>2. S[1] = "noauth" BY <1>10, <2>4, <3>1, <3>5
    <3>6. "method 0" \in Replies BY DEF Replies
    <3>7. stage'[c] = "command" /\ Len(nearOut'[c]) = Len(nearOut[c]) + 1
      BY <2>4, <3>6, SayEffect
    <3>3. stage'[c] = "command" /\ Len(nearOut'[c]) = 1
      BY <1>5, <2>1, <3>7
    <3>4. Taken(c)' = 1 /\ Said(c)' = 1 BY <1>2, <1>5, <3>2, <3>3 DEF Taken, Said
    <3> QED BY <1>6, <2>1, <3>1, <3>3, <3>4
  <2>5. CASE \E w : End(c, w)
    BY <1>3, <2>5 DEF End, Typing
  <2> QED BY <2>2, <2>3, <2>4, <2>5 DEF Greeting
<1>8. CASE stage[c] = "auth"
  <2>1. Taken(c) = 1 /\ S[1] = "userpass" BY <1>8 DEF Taken, NearInv
  <2>2. Auth(c, k) BY <1>1, <1>8 DEF Greeting, Command
  <2>3. CASE NoTrailing(k) /\ Say(c, "auth ok", "command")
    <3>1. k = 1 BY <2>3 DEF NoTrailing
    <3>4. "auth ok" \in Replies BY DEF Replies
    <3>5. stage'[c] = "command" /\ Len(nearOut'[c]) = Len(nearOut[c]) + 1
      BY <2>3, <3>4, SayEffect
    <3>2. stage'[c] = "command" /\ Len(nearOut'[c]) = 2
      BY <1>5, <2>1, <3>5
    <3>3. Taken(c)' = 2 /\ Said(c)' = 2 BY <1>2, <1>5, <2>1, <3>2 DEF Taken, Said
    <3> QED BY <1>6, <2>1, <3>1, <3>2, <3>3
  <2>4. CASE \E w : End(c, w)
    BY <1>3, <2>4 DEF End, Typing
  <2> QED BY <2>2, <2>3, <2>4 DEF Auth
<1>9. CASE stage[c] = "command"
  <2>1. Taken(c) = Socks(c) - 1 BY <1>9 DEF Taken
  <2>2. Command(c, k) BY <1>1, <1>9 DEF Greeting, Auth
  <2>3. CASE /\ NoTrailing(k) /\ stage' = [stage EXCEPT ![c] = "connect"]
             /\ UNCHANGED nearOut
    <3>1. k = 1 BY <2>3 DEF NoTrailing
    <3>2. stage'[c] = "connect" BY <2>3 DEF Typing
    <3>3. Taken(c)' = Socks(c) /\ Said(c)' = Socks(c) - 1
      BY <1>2, <1>5, <3>2 DEF Taken, Said
    <3> QED BY <1>5, <1>6, <2>1, <2>3, <3>1, <3>2, <3>3
  <2>4. CASE \E w : End(c, w)
    BY <1>3, <2>4 DEF End, Typing
  <2> QED BY <2>2, <2>3, <2>4 DEF Command
<1> QED BY <1>4, <1>7, <1>8, <1>9 DEF SocksStages

Dialing == {"connect", "negotiate", "tls", "upgrade"}

LEMMA NearDials ==
  ASSUME Typing, NEW c \in Conns, NearInv(c), stage[c] \in Dialing,
         stage'[c] \in Dialing \/ (stage'[c] = "relay" /\ FromBridge(c)),
         kase' = kase, nearIn' = nearIn, nearSent' = nearSent, nearOut' = nearOut,
         farOut' = farOut
  PROVE  NearInv(c)'
<1>1. Socks(c)' = Socks(c) /\ FromBridge(c)' = FromBridge(c)
  BY DEF Socks, FromBridge, Route
<1>2. Taken(c) = Socks(c) /\ Taken(c)' = Socks(c)
  BY <1>1 DEF Taken, Dialing
<1>3. Said(c) = (IF FromBridge(c) THEN 0 ELSE Socks(c) - 1)
      /\ Said(c)' = (IF FromBridge(c) THEN 0 ELSE Socks(c) - 1)
  BY <1>1 DEF Said, Dialing
<1>4. FromBridge(c) => Socks(c) = 0 BY DEF Socks
<1>5. Len(nearOut[c]) = Said(c) /\ farOut[c] = <<>>
  BY DEF NearInv, Dialing
<1> QED BY <1>1, <1>2, <1>3, <1>4, <1>5 DEF NearInv, Dialing, SocksStages

LEMMA NearSucceeds ==
  ASSUME Typing, NEW c \in Conns, NearInv(c), ReadHead(c), ~FromBridge(c),
         Say(c, "succeeded", "relay")
  PROVE  NearInv(c)'
<1>1. Socks(c)' = Socks(c) /\ FromBridge(c)' = FromBridge(c) /\ Socks(c) \in {2, 3}
  BY DEF Socks, FromBridge, Route, ReadHead
<1>2. "succeeded" \in Replies BY DEF Replies
<1>3. stage'[c] = "relay" /\ Len(nearOut'[c]) = Len(nearOut[c]) + 1
  BY <1>2, SayEffect
<1>4. stage[c] = "upgrade" BY DEF ReadHead
<1>5. Taken(c) = Socks(c) /\ Taken(c)' = Socks(c) /\ Said(c) = Socks(c) - 1
  BY <1>1, <1>3, <1>4 DEF Taken, Said
<1>6. Len(nearOut[c]) = Said(c)
  BY <1>4 DEF NearInv
<1>7. Len(nearOut'[c]) >= Socks(c)
  BY <1>1, <1>3, <1>5, <1>6
<1>8. /\ kase' = kase /\ nearIn' = nearIn /\ nearSent' = nearSent /\ farOut' = farOut
  BY DEF ReadHead
<1> QED BY <1>1, <1>3, <1>4, <1>5, <1>7, <1>8 DEF NearInv, SocksStages

LEMMA NearDown ==
  ASSUME Typing, NEW c \in Conns, NearInv(c), Down(c)
  PROVE  NearInv(c)' /\ Len(nearOut'[c]) = Len(nearOut[c]) + 1
<1>1. /\ stage[c] = "relay" /\ stage' = stage /\ kase' = kase /\ nearIn' = nearIn
      /\ nearSent' = nearSent /\ farOut' = farOut
  BY DEF Down
<1>2. Socks(c)' = Socks(c) /\ FromBridge(c)' = FromBridge(c) /\ Taken(c)' = Taken(c)
  BY <1>1 DEF Socks, FromBridge, Route, Taken
<1>3. Len(nearOut'[c]) = Len(nearOut[c]) + 1 /\ Len(nearOut[c]) \in Nat
  <2>1. PICK f \in {farBuf, farIn} :
          f[c] # <<>> /\ nearOut' = [nearOut EXCEPT ![c] = Append(nearOut[c], Head(f[c]))]
    BY DEF Down
  <2>2. f \in [Conns -> Seq(Words)] BY DEF Typing
  <2>3. Head(f[c]) \in Words BY <2>1, <2>2, StreamType
  <2>4. nearOut[c] \in Seq(Words) BY DEF Typing
  <2>5. PICK w \in Words : nearOut' = [nearOut EXCEPT ![c] = Append(nearOut[c], w)]
    BY <2>1, <2>3
  <2>6. Len(nearOut[c]) \in Nat BY <2>4
  <2>7. Len(nearOut'[c]) = Len(nearOut[c]) + 1 BY <2>5, SaidAppend
  <2> QED BY <2>6, <2>7
<1>4. Len(nearOut'[c]) >= Socks(c)
  <2>1. Len(nearOut[c]) >= Socks(c) BY <1>1 DEF NearInv
  <2>2. Socks(c) \in Nat BY DEF Socks
  <2> QED BY <1>3, <2>1, <2>2
<1> QED BY <1>1, <1>2, <1>3, <1>4 DEF NearInv, SocksStages

LEMMA NearUp ==
  ASSUME Typing, NEW c \in Conns, NearInv(c), Up(c)
  PROVE  NearInv(c)'
<1>1. /\ stage[c] = "relay" /\ stage' = stage /\ kase' = kase /\ nearOut' = nearOut
      /\ nearSent' = nearSent /\ nearIn[c] # <<>>
  BY DEF Up
<1>2. Socks(c)' = Socks(c) /\ FromBridge(c)' = FromBridge(c) /\ Taken(c)' = Taken(c)
  BY <1>1 DEF Socks, FromBridge, Route, Taken
<1>3. nearIn \in [Conns -> Seq(Words)] /\ farOut \in [Conns -> Seq(Words)]
  BY DEF Typing
<1>4. nearIn'[c] = Tail(nearIn[c]) /\ farOut'[c] = Append(farOut[c], Head(nearIn[c]))
  BY <1>3 DEF Up
<1>5. Append(farOut[c], Head(nearIn[c])) \o Tail(nearIn[c]) = farOut[c] \o nearIn[c]
  BY <1>1, <1>3, HeadMoves
<1>6. farOut'[c] \o nearIn'[c] = farOut[c] \o nearIn[c]
  BY <1>4, <1>5
<1> QED BY <1>1, <1>2, <1>6 DEF NearInv, SocksStages

LEMMA EndedStage ==
  ASSUME Typing, NEW c \in Conns, Failed(c) \/ \E w : End(c, w)
  PROVE  stage'[c] = "ended"
  BY DEF Failed, End, Typing

\* Where a dial goes after the proxy.
LEMMA ThroughStage ==
  ASSUME Typing, NEW c \in Conns, Through(c)
  PROVE  \/ stage'[c] = "ended"
         \/ FromBridge(c) /\ stage'[c] = "relay" /\ UNCHANGED <<nearOut, asked, nameVars>>
         \/ /\ ~FromBridge(c) /\ stage'[c] \in {"tls", "upgrade"}
            /\ stage'[c] = "tls" <=> Line(c).url = "https"
            /\ UNCHANGED nearOut /\ asked'[c]
<1>1. CASE FromBridge(c)
  BY <1>1 DEF Through, Typing
<1>2. CASE ~FromBridge(c)
  <2>1. Prepare(c) BY <1>2 DEF Through
  <2>2. CASE Failed(c)
    BY <2>2, EndedStage
  <2>3. CASE /\ stage' = [stage EXCEPT ![c] =
                             IF Line(c).url = "https" THEN "tls" ELSE "upgrade"]
             /\ Ask(c) /\ UNCHANGED nearOut
    BY <1>2, <2>3 DEF Ask, Typing
  <2>4. Failed(c) \/ (/\ stage' = [stage EXCEPT ![c] =
                             IF Line(c).url = "https" THEN "tls" ELSE "upgrade"]
                      /\ Ask(c) /\ UNCHANGED nearOut)
    BY <2>1, PrepareCases
  <2> QED BY <2>2, <2>3, <2>4
<1> QED BY <1>1, <1>2

LEMMA NearStep ==
  ASSUME Typing, NEW c \in Conns, NearInv(c), FarInv(c), Step(c)
  PROVE  NearInv(c)'
<1>1. CASE stage'[c] = "ended"
  BY <1>1 DEF NearInv
<1>2. CASE Accept(c) BY <1>2, NearAccepts
<1>3. CASE TimesOut(c) \/ SocksEof(c) \/ NegotiateEof(c) \/ DialEof(c)
  BY <1>1, <1>3, EndedStage DEF TimesOut, SocksEof, NegotiateEof, DialEof
<1>4. CASE SocksRead(c) BY <1>4, NearReads
<1>5. CASE NearSends(c) BY <1>5, NearGrows
<1>6. CASE NearCloses(c) \/ FarAnswers(c) \/ FarInterim(c) \/ FarSends(c) \/ FarCloses(c)
           \/ FillHead(c)
  <2>1. /\ kase' = kase /\ stage' = stage /\ nearIn' = nearIn /\ nearSent' = nearSent
        /\ nearOut' = nearOut /\ farOut' = farOut
    <3>1. CASE NearCloses(c) \/ FarCloses(c)
      BY <3>1 DEF NearCloses, FarCloses, nearVars, farVars
    <3>2. CASE FarAnswers(c) \/ FarInterim(c) \/ FarSends(c)
      BY <3>2 DEF FarAnswers, FarInterim, FarSends, nearVars
    <3>3. CASE FillHead(c)
      BY <3>3 DEF FillHead, nearVars
    <3> QED BY <1>6, <3>1, <3>2, <3>3
  <2> QED BY <2>1, NearKept DEF KeptNear
<1>7. CASE Connect(c) \/ Negotiate(c)
  <2>1. /\ kase' = kase /\ nearIn' = nearIn /\ nearSent' = nearSent /\ farOut' = farOut
        /\ stage[c] \in Dialing
    BY <1>7 DEF Connect, Negotiate, Dialing
  <2>2. CASE stage'[c] \in Dialing /\ UNCHANGED nearOut
    BY <2>1, <2>2, NearDials
  <2>3. CASE Through(c)
    <3>1. \/ stage'[c] = "ended"
          \/ UNCHANGED nearOut /\ (stage'[c] \in Dialing \/ (stage'[c] = "relay" /\ FromBridge(c)))
      BY <2>3, ThroughStage DEF Dialing
    <3> QED BY <1>1, <2>1, <3>1, NearDials
  <2>4. Through(c) \/ Failed(c) \/ (stage'[c] \in Dialing /\ UNCHANGED nearOut)
    BY <1>7 DEF Connect, Negotiate, Dialing, Typing
  <2> QED BY <1>1, <2>2, <2>3, <2>4, EndedStage
<1>8. CASE TlsConnect(c)
  <2>1. /\ kase' = kase /\ nearIn' = nearIn /\ nearSent' = nearSent /\ farOut' = farOut
        /\ stage[c] \in Dialing
    BY <1>8 DEF TlsConnect, Dialing
  <2>2. Failed(c) \/ (stage'[c] \in Dialing /\ UNCHANGED nearOut)
    BY <1>8 DEF TlsConnect, Dialing, Typing
  <2> QED BY <1>1, <2>1, <2>2, EndedStage, NearDials
<1>9. CASE ReadHead(c)
  <2>1. ~FromBridge(c) BY <1>9 DEF ReadHead, FarInv, UpgradeInv
  <2>2. CASE Say(c, "succeeded", "relay")
    BY <1>9, <2>1, <2>2, NearSucceeds
  <2>3. CASE UNCHANGED <<stage, nearOut>>
    BY <1>9, <2>3, NearKept DEF KeptNear, ReadHead
  <2> QED BY <1>1, <1>9, <2>2, <2>3, EndedStage DEF ReadHead
<1>10. CASE Down(c) BY <1>10, NearDown
<1>11. CASE Up(c) BY <1>11, NearUp
<1>12. CASE Release(c)
  BY <1>12 DEF Release, Typing, NearInv, Fresh
<1> QED BY <1>2, <1>3, <1>4, <1>5, <1>6, <1>7, <1>8, <1>9, <1>10, <1>11, <1>12
        DEF Step, Handler, Environment

-----------------------------------------------------------------------------
(* The far end: what it was asked, what it answered, what is in transit. *)

LEMMA FarEnded ==
  ASSUME NEW c \in Conns, FarInv(c), stage'[c] = "ended", farSent'[c] = farSent[c]
  PROVE  FarInv(c)'
  BY DEF FarInv, Early, SocksStages

\* What a client asked for, and what its hops have said, stays.
SameCase(c) == kase'[c] = kase[c] /\ heard'[c] = heard[c] /\ name'[c] = name[c]

LEMMA CaseKept ==
  ASSUME NEW c, SameCase(c)
  PROVE  /\ FromBridge(c)' = FromBridge(c) /\ Route(c)' = Route(c)
         /\ Line(c)' = Line(c) /\ Secure(c)' = Secure(c) /\ Socks(c)' = Socks(c)
         /\ \A s : Trusting(c, s)' = Trusting(c, s) /\ Hops(c, s)' = Hops(c, s)
         /\ \A s : Upgraded(c, s)' = Upgraded(c, s) /\ Agreed(c, s)' = Agreed(c, s)
<1>1. /\ FromBridge(c)' = FromBridge(c) /\ Route(c)' = Route(c)
      /\ Line(c)' = Line(c) /\ Secure(c)' = Secure(c) /\ Socks(c)' = Socks(c)
  BY DEF SameCase, FromBridge, Route, Line, Secure, Socks
<1>2. \A s : Trusting(c, s)' = Trusting(c, s) /\ Hops(c, s)' = Hops(c, s)
  BY <1>1 DEF SameCase, Trusting, Hops
<1> QED BY <1>1, <1>2 DEF SameCase, Upgraded, Agreed

LEMMA PendingFacts ==
  ASSUME Typing, NEW c \in Conns
  PROVE  /\ Pending(c) \in Seq(Words) /\ Len(Pending(c)) \in Nat
         /\ farIn[c] \in Seq(Words) /\ farBuf[c] \in Seq(Words)
         /\ heard[c] \in Seq(Words) /\ Len(heard[c]) \in Nat
         /\ farSent[c] \in Nat
  BY DEF Typing, Pending

\* The far end sends one message more.
LEMMA PendingGrows ==
  ASSUME Typing, NEW c \in Conns, NEW w \in Words,
         farIn' = [farIn EXCEPT ![c] = Append(farIn[c], w)], farBuf' = farBuf
  PROVE  /\ farIn'[c] = Append(farIn[c], w) /\ farBuf'[c] = farBuf[c]
         /\ Pending(c)' = Append(Pending(c), w)
         /\ Len(Pending(c)') = Len(Pending(c)) + 1
         /\ Pending(c)'[Len(Pending(c)) + 1] = w
         /\ \A i \in 1..Len(Pending(c)) : Pending(c)'[i] = Pending(c)[i]
<1>1. farIn'[c] = Append(farIn[c], w) /\ farBuf'[c] = farBuf[c]
  BY DEF Typing
<1>2. farIn \in [Conns -> Seq(Words)] /\ farBuf \in [Conns -> Seq(Words)]
  BY DEF Typing
<1>3. farBuf[c] \o Append(farIn[c], w) = Append(farBuf[c] \o farIn[c], w)
  BY <1>2, AppendConcat
<1>4. Pending(c)' = Append(Pending(c), w)
  BY <1>1, <1>3 DEF Pending
<1>5. Pending(c) \in Seq(Words) BY PendingFacts
<1>6. /\ Len(Append(Pending(c), w)) = Len(Pending(c)) + 1
      /\ Append(Pending(c), w)[Len(Pending(c)) + 1] = w
      /\ \A i \in 1..Len(Pending(c)) : Append(Pending(c), w)[i] = Pending(c)[i]
  BY <1>5
<1> QED BY <1>1, <1>4, <1>6

LEMMA FarAccepts ==
  ASSUME Typing, NEW c \in Conns, FarInv(c),
         Accept(c) \/ SocksRead(c) \/ SocksEof(c) \/ TimesOut(c)
  PROVE  FarInv(c)'
<1>1. UNCHANGED farVars
  BY DEF Accept, SocksRead, SocksEof, TimesOut
<1>2. Unasked(c)' = Unasked(c) /\ farSent'[c] = farSent[c]
  BY <1>1 DEF farVars, Unasked
<1>3. CASE stage'[c] = "ended"
  BY <1>1, <1>3, FarEnded DEF farVars
<1>4. CASE stage'[c] \in Early /\ stage[c] \in Early
  <2>1. stage'[c] \notin {"negotiate", "tls", "upgrade", "relay"}
    BY <1>4 DEF Early, SocksStages
  <2> QED BY <1>2, <1>4, <2>1 DEF FarInv
<1>5. Accept(c) => stage'[c] \in Early /\ stage[c] \in Early
  BY DEF Accept, Typing, Early, SocksStages
<1>6. SocksEof(c) \/ TimesOut(c) => stage'[c] = "ended"
  BY EndedStage DEF SocksEof, TimesOut
<1>7. CASE SocksRead(c)
  <2>1. PICK n : Greeting(c, n) \/ Auth(c, n) \/ Command(c, n)
    BY <1>7 DEF SocksRead
  <2>2. stage[c] \in Early BY <2>1 DEF Greeting, Auth, Command, Early, SocksStages
  <2>3. \A w, st : Say(c, w, st) => stage'[c] = st BY DEF Say, Typing
  <2>4. \A w : End(c, w) => stage'[c] = "ended" BY EndedStage
  <2>5. stage'[c] \in Early \cup {"ended"}
    <3>1. CASE Greeting(c, n)
      BY <2>3, <2>4, <3>1 DEF Greeting, Early, SocksStages
    <3>2. CASE Auth(c, n)
      BY <2>3, <2>4, <3>2 DEF Auth, Early, SocksStages
    <3>3. CASE Command(c, n)
      <4>1. stage' = [stage EXCEPT ![c] = "connect"] => stage'[c] = "connect"
        BY DEF Typing
      <4> QED BY <2>4, <3>3, <4>1 DEF Command, Early
    <3> QED BY <2>1, <3>1, <3>2, <3>3
  <2> QED BY <1>3, <1>4, <2>2, <2>5
<1> QED BY <1>3, <1>4, <1>5, <1>6, <1>7

\* An answer of the Extended ORPort or a proxy, when it is asked.
LEMMA NegotiateAnswers ==
  ASSUME Typing, NEW c \in Conns, FarInv(c), FarAnswers(c), stage[c] = "negotiate",
         kase[c] \in Cases
  PROVE  FarInv(c)'
<1>1. PICK a \in Answers(c) :
        /\ farIn' = [farIn EXCEPT ![c] = Append(farIn[c], a)]
        /\ open' = [open EXCEPT ![c] = open[c] \/ a \in {"101", "okay"}]
  BY DEF FarAnswers
<1>2. a \in Words BY AnswerWords
<1>3. asked[c] /\ OneAnswer(c) /\ farIn[c] = <<>> /\ ~open[c] /\ farSent[c] = 0
  BY DEF FarAnswers, FarInv, NegotiateInv, OneAnswer, LastAnswer
<1>4. /\ asked'[c] = FALSE /\ open'[c] = (a \in {"101", "okay"})
      /\ farIn'[c] = <<a>> /\ farSent'[c] = 0 /\ farBuf'[c] = farBuf[c]
      /\ SameCase(c) /\ stage'[c] = "negotiate"
  <2>1. farIn'[c] = Append(<<>>, a) BY <1>1, <1>3 DEF Typing
  <2>2. Append(<<>>, a) = <<a>> OBVIOUS
  <2>3. open'[c] = (a \in {"101", "okay"}) BY <1>1, <1>3 DEF Typing
  <2>4. SameCase(c) BY DEF FarAnswers, SameCase, nameVars
  <2> QED BY <1>3, <2>1, <2>2, <2>3, <2>4 DEF FarAnswers, Typing
<1>5. /\ OnTheWay(Route(c), heard[c])' /\ farBuf'[c] = <<>>
  BY <1>4, CaseKept DEF FarInv, NegotiateInv, SameCase, OnTheWay
<1>6. Len(<<a>>) = 1 /\ <<a>>[1] = a /\ <<a>> # <<>> /\ Tail(<<a>>) = <<>>
  OBVIOUS
<1>7. CASE a \notin {"101", "okay"}
  <2>3. farIn'[c] # <<>> /\ farIn'[c][1] = a /\ Len(farIn'[c]) = 1
    BY <1>4, <1>6
  <2>4. ~open'[c] /\ ~asked'[c] /\ farSent'[c] = 0
    BY <1>4, <1>7
  <2>1. OneAnswer(c)'
    BY <1>7, <2>3, <2>4 DEF OneAnswer
  <2>2. 0 <= Len(FarData) BY DataAssumption
  <2> QED BY <1>4, <1>5, <2>1, <2>2 DEF FarInv, NegotiateInv, Early, SocksStages
<1>8. CASE a \in {"101", "okay"}
  <2>1. PICK s \in Accepting(Route(c)) :
          IsStrictPrefix(heard[c], s) /\ a = s[Len(heard[c]) + 1]
    BY <1>8 DEF Answers
  <2>2. /\ s \in Seq(Words)
        /\ Len(heard[c]) < Len(s) /\ Len(heard[c]) \in Nat
        /\ Len(heard[c]) <= Len(s) /\ \A i \in 1..Len(heard[c]) : heard[c][i] = s[i]
    <3>1. s \in Seq(Words) BY Exchanges
    <3>2. heard[c] \in Seq(Words) BY PendingFacts
    <3> QED BY <2>1, <3>1, <3>2, PrefixFacts DEF IsStrictPrefix
  <2>3. Route(c) = "extor" /\ s = <<"auth types", "server hash", "status", "okay">>
        /\ Len(heard[c]) = 3
    <3>1. \/ Route(c) = "http" /\ s = <<"200">>
          \/ Route(c) = "socks4" /\ s = <<"granted">>
          \/ Route(c) \in {"socks5", "socks5 user"} /\ s = <<"no auth", "succeeded">>
          \/ Route(c) = "socks5 user" /\ s = <<"userpass", "welcome", "succeeded">>
          \/ Route(c) = "extor" /\ s = <<"auth types", "server hash", "status", "okay">>
          \/ s = <<>>
      BY Exchanges
    <3>2. CASE s = <<"200">>
      BY <1>8, <2>1, <2>2, <3>2
    <3>3. CASE s = <<"granted">>
      BY <1>8, <2>1, <2>2, <3>3
    <3>4. CASE s = <<"no auth", "succeeded">>
      <4>1. Len(s) = 2 /\ s[1] = "no auth" /\ s[2] = "succeeded"
        BY <3>4, TupleItems
      <4>9. Len(s) = 2
        BY <4>1
      <4>2. Len(heard[c]) + 1 = 1 \/ Len(heard[c]) + 1 = 2
        BY <2>2, <4>9
      <4> QED BY <1>8, <2>1, <4>1, <4>2
    <3>5. CASE s = <<"userpass", "welcome", "succeeded">>
      <4>1. Len(s) = 3 /\ s[1] = "userpass" /\ s[2] = "welcome" /\ s[3] = "succeeded"
        BY <3>5, TupleItems
      <4>9. Len(s) = 3
        BY <4>1
      <4>2. Len(heard[c]) + 1 = 1 \/ Len(heard[c]) + 1 = 2
            \/ Len(heard[c]) + 1 = 3
        BY <2>2, <4>9
      <4> QED BY <1>8, <2>1, <4>1, <4>2
    <3>6. CASE s = <<"auth types", "server hash", "status", "okay">> /\ Route(c) = "extor"
      <4>1. /\ Len(s) = 4 /\ s[1] = "auth types" /\ s[2] = "server hash"
            /\ s[3] = "status"
        BY <3>6, TupleItems
      <4>2. ~(Len(heard[c]) + 1 = 1 \/ Len(heard[c]) + 1 = 2 \/ Len(heard[c]) + 1 = 3)
        BY <1>8, <2>1, <4>1
      <4>9. Len(s) = 4 BY <4>1
      <4>4. \A n \in Nat : n < 4 /\ ~(n + 1 = 1 \/ n + 1 = 2 \/ n + 1 = 3) => n = 3
        OBVIOUS
      <4>5. Len(heard[c]) < 4 /\ Len(heard[c]) \in Nat BY <2>2, <4>9
      <4>3. Len(heard[c]) = 3 BY <4>2, <4>4, <4>5
      <4> QED BY <3>6, <4>3
    <3>7. CASE s = <<>>
      BY <2>2, <3>7
    <3> QED BY <3>1, <3>2, <3>3, <3>4, <3>5, <3>6, <3>7
  <2>4. heard[c] = Authenticate
    <3>1. Authenticate = <<"auth types", "server hash", "status">>
      BY DEF Authenticate
    <3>6. Len(Authenticate) = 3 /\ Authenticate[1] = "auth types"
          /\ Authenticate[2] = "server hash" /\ Authenticate[3] = "status"
      BY <3>1, TupleItems
    <3>7. s[1] = "auth types" /\ s[2] = "server hash" /\ s[3] = "status"
      BY <2>3, TupleItems
    <3>9. Len(heard[c]) = 3 BY <2>3
    <3>8. 1..Len(heard[c]) = {1, 2, 3} BY <3>9
    <3>2. \A i \in 1..Len(heard[c]) : heard[c][i] = Authenticate[i]
      BY <2>2, <3>6, <3>7, <3>8
    <3>3. heard[c] \in Seq(Words) BY PendingFacts
    <3>4. "auth types" \in Words /\ "server hash" \in Words /\ "status" \in Words
      BY DEF Words, FarWords
    <3>5. Authenticate \in Seq(Words) BY <3>1, <3>4, TupleType
    <3> QED BY <2>3, <3>2, <3>3, <3>5, <3>6, SameSequence
  <2>5. a = "okay"
    <3>3. Len(heard[c]) = 3 BY <2>3
    <3>1. Len(heard[c]) + 1 = 4 BY <3>3
    <3>2. s[4] = "okay" BY <2>3, TupleItems
    <3> QED BY <2>1, <3>1, <3>2
  <2>6. SubSeq(FarData, 1, 0) = <<>> BY DataAssumption
  <2>7. LastAnswer(c)'
    BY <1>4, <1>6, <2>3, <2>4, <2>5, <2>6, CaseKept DEF LastAnswer, SameCase
  <2>8. 0 <= Len(FarData) BY DataAssumption
  <2> QED BY <1>4, <1>5, <2>7, <2>8 DEF FarInv, NegotiateInv, Early, SocksStages
<1> QED BY <1>7, <1>8

LEMMA TlsAnswers ==
  ASSUME Typing, NEW c \in Conns, FarInv(c), FarAnswers(c), stage[c] = "tls"
  PROVE  FarInv(c)'
<1>1. PICK a \in Answers(c) :
        /\ farIn' = [farIn EXCEPT ![c] = Append(farIn[c], a)]
        /\ open' = [open EXCEPT ![c] = open[c] \/ a \in {"101", "okay"}]
  BY DEF FarAnswers
<1>2. a \notin {"101", "okay"}
  BY CertsAssumption DEF Answers
<1>3. asked[c] /\ farIn[c] = <<>> /\ ~open[c] /\ farSent[c] = 0
  BY DEF FarAnswers, FarInv, TlsInv, OneAnswer
<1>4. farIn'[c] = Append(<<>>, a) /\ open'[c] = FALSE
  BY <1>1, <1>2, <1>3 DEF Typing
<1>5. Append(<<>>, a) # <<>> /\ Len(Append(<<>>, a)) = 1 /\ Append(<<>>, a)[1] = a
  OBVIOUS
<1>6. /\ asked'[c] = FALSE /\ farSent'[c] = 0 /\ farBuf'[c] = farBuf[c]
      /\ SameCase(c) /\ stage'[c] = "tls"
  BY <1>3 DEF FarAnswers, Typing, SameCase, nameVars
<1>7. farIn'[c] # <<>> /\ Len(farIn'[c]) = 1 /\ farIn'[c][1] = a
  BY <1>4, <1>5
<1>8. OneAnswer(c)'
  BY <1>2, <1>4, <1>6, <1>7 DEF OneAnswer
<1>9. TlsInv(c)'
  BY <1>6, <1>8, CaseKept DEF FarInv, TlsInv, SameCase
<1>10. 0 <= Len(FarData) BY DataAssumption
<1> QED BY <1>6, <1>9, <1>10 DEF FarInv, Early, SocksStages

\* While an upgrade is under way only its replies change.
LEMMA UpgradeKept ==
  ASSUME NEW c \in Conns, FarInv(c), stage[c] = "upgrade", stage'[c] = "upgrade",
         SameCase(c), farSent'[c] <= Len(FarData), \E k \in Nat : Upgrading(c, k)'
  PROVE  FarInv(c)'
<1>1. UpgradeInv(c)'
  BY CaseKept DEF FarInv, UpgradeInv
<1> QED BY <1>1 DEF FarInv, Early, SocksStages

\* One reply more, or one message of the tunnel more.
LEMMA RepliesGrow ==
  ASSUME NEW p \in Seq(Words), NEW k \in Nat, NEW a \in BOOLEAN, NEW n \in Nat
  PROVE  /\ UpgradeReplies(p, FALSE, TRUE, n, k) =>
              /\ \A w \in Words : w = "100" =>
                   UpgradeReplies(Append(p, w), FALSE, TRUE, n, k + 1)
              /\ \A w \in Words : w = "no" =>
                   UpgradeReplies(Append(p, w), FALSE, FALSE, n, k)
              /\ \A w \in Words : w = "101" =>
                   UpgradeReplies(Append(p, w), TRUE, FALSE, n, k)
         /\ UpgradeReplies(p, TRUE, a, n, k) /\ n < Len(FarData) =>
              \A w \in Words : w = FarData[n + 1] =>
                UpgradeReplies(Append(p, w), TRUE, a, n + 1, k)
<1>1. ASSUME NEW w \in Words
      PROVE  /\ Append(p, w) \in Seq(Words) /\ Len(Append(p, w)) = Len(p) + 1
             /\ Append(p, w)[Len(p) + 1] = w /\ Len(p) \in Nat
             /\ \A i \in 1..Len(p) : Append(p, w)[i] = p[i]
  OBVIOUS
<1>2. ASSUME UpgradeReplies(p, FALSE, TRUE, n, k), NEW w \in Words
      PROVE  /\ w = "100" => UpgradeReplies(Append(p, w), FALSE, TRUE, n, k + 1)
             /\ w = "no" => UpgradeReplies(Append(p, w), FALSE, FALSE, n, k)
             /\ w = "101" => UpgradeReplies(Append(p, w), TRUE, FALSE, n, k)
  <2> DEFINE q == Append(p, w)
  <2>1. Len(p) = k /\ n = 0 /\ \A i \in 1..k : p[i] = "100"
    BY <1>2 DEF UpgradeReplies
  <2>2. Len(q) = k + 1 /\ q[k + 1] = w /\ \A i \in 1..k : q[i] = "100"
    BY <1>1, <2>1
  <2>3. SubSeq(q, k + 2, Len(q)) = <<>>
    BY <1>1, <2>2
  <2>4. SubSeq(FarData, 1, 0) = <<>> BY DataAssumption
  <2> HIDE DEF q
  <2>5. w = "100" => \A i \in 1..(k + 1) : q[i] = "100"
    BY <2>2
  <2>6. w = "100" => UpgradeReplies(q, FALSE, TRUE, n, k + 1)
    BY <2>1, <2>2, <2>5 DEF UpgradeReplies
  <2>7. w = "no" => UpgradeReplies(q, FALSE, FALSE, n, k)
    BY <2>1, <2>2 DEF UpgradeReplies
  <2>8. w = "101" => UpgradeReplies(q, TRUE, FALSE, n, k)
    BY <2>1, <2>2, <2>3, <2>4 DEF UpgradeReplies
  <2> QED BY <2>6, <2>7, <2>8 DEF q
<1>3. ASSUME UpgradeReplies(p, TRUE, a, n, k), n < Len(FarData),
             NEW w \in Words, w = FarData[n + 1]
      PROVE  UpgradeReplies(Append(p, w), TRUE, a, n + 1, k)
  <2> DEFINE q == Append(p, w)
  <2>1. /\ ~a /\ k < Len(p) /\ p[k + 1] = "101" /\ \A i \in 1..k : p[i] = "100"
        /\ SubSeq(p, k + 2, Len(p)) = SubSeq(FarData, 1, n)
    BY <1>3 DEF UpgradeReplies
  <2>2. /\ k < Len(q) /\ k <= Len(q) /\ q[k + 1] = "101" /\ \A i \in 1..k : q[i] = "100"
    BY <1>1, <2>1
  <2>3. SubSeq(q, k + 2, Len(q)) = Append(SubSeq(p, k + 2, Len(p)), w)
    <3>1. /\ SubSeq(q, (k + 1) + 1, Len(p) + 1)
               = Append(SubSeq(q, (k + 1) + 1, Len(p)), q[Len(p) + 1])
      <4>1. k + 1 \in Nat /\ Len(p) \in Nat /\ k + 1 <= Len(p) /\ Len(p) < Len(q)
        BY <1>1, <2>1
      <4>2. q \in Seq(Words) BY <1>1
      <4> HIDE DEF q
      <4> QED BY <4>1, <4>2, SliceGrows
    <3>2. SubSeq(q, k + 2, Len(p)) = SubSeq(p, k + 2, Len(p))
      OBVIOUS
    <3>3. k + 2 = (k + 1) + 1 OBVIOUS
    <3> QED BY <1>1, <3>1, <3>2, <3>3
  <2>4. SubSeq(FarData, 1, n + 1) = Append(SubSeq(FarData, 1, n), w)
    <3>1. SubSeq(FarData, 0 + 1, n + 1) = Append(SubSeq(FarData, 0 + 1, n), FarData[n + 1])
      BY <1>3, DataAssumption, SliceGrows
    <3> QED BY <1>3, <3>1
  <2> HIDE DEF q
  <2>5. UpgradeReplies(q, TRUE, a, n + 1, k)
    BY <2>1, <2>2, <2>3, <2>4 DEF UpgradeReplies
  <2> QED BY <2>5 DEF q
<1>4. UpgradeReplies(p, FALSE, TRUE, n, k) =>
              /\ \A w \in Words : w = "100" =>
                   UpgradeReplies(Append(p, w), FALSE, TRUE, n, k + 1)
              /\ \A w \in Words : w = "no" =>
                   UpgradeReplies(Append(p, w), FALSE, FALSE, n, k)
              /\ \A w \in Words : w = "101" =>
                   UpgradeReplies(Append(p, w), TRUE, FALSE, n, k)
  BY <1>2
<1> QED BY <1>3, <1>4

LEMMA UpgradeAnswers ==
  ASSUME Typing, NEW c \in Conns, FarInv(c), FarAnswers(c) \/ FarInterim(c),
         stage[c] = "upgrade"
  PROVE  FarInv(c)'
<1>1. PICK a \in {"100", "101", "no"} :
        /\ farIn' = [farIn EXCEPT ![c] = Append(farIn[c], a)] /\ farBuf' = farBuf
        /\ \/ a = "100" /\ open'[c] = open[c] /\ asked'[c] = asked[c]
           \/ a \in {"101", "no"} /\ asked'[c] = FALSE
              /\ open'[c] = (open[c] \/ a = "101")
  <2>1. CASE FarInterim(c)
    BY <2>1 DEF FarInterim
  <2>2. CASE FarAnswers(c)
    <3>1. PICK a \in Answers(c) :
            /\ farIn' = [farIn EXCEPT ![c] = Append(farIn[c], a)]
            /\ open' = [open EXCEPT ![c] = open[c] \/ a \in {"101", "okay"}]
      BY <2>2 DEF FarAnswers
    <3>2. a \in {"101", "no"} BY DEF Answers
    <3>3. open'[c] = (open[c] \/ a = "101") /\ asked'[c] = FALSE
      BY <2>2, <3>1, <3>2 DEF FarAnswers, Typing
    <3>4. farBuf' = farBuf
      BY <2>2 DEF FarAnswers
    <3>5. a \in {"100", "101", "no"}
      BY <3>2
    <3> QED BY <3>1, <3>2, <3>3, <3>4, <3>5
  <2> QED BY <2>1, <2>2
<1>2. /\ asked[c] /\ SameCase(c) /\ stage'[c] = "upgrade" /\ farSent'[c] = farSent[c]
  BY DEF FarAnswers, FarInterim, SameCase, nameVars
<1>3. PICK k \in Nat : Upgrading(c, k)
  BY DEF FarInv, UpgradeInv
<1>4. asked[c] = TRUE /\ open[c] = FALSE
  BY <1>2, <1>3 DEF Upgrading, UpgradeReplies, Typing
<1>5. a \in Words BY DEF Words, FarWords
<1>6. Pending(c)' = Append(Pending(c), a)
  BY <1>1, <1>5, PendingGrows
<1>7. UpgradeReplies(Pending(c), FALSE, TRUE, farSent[c], k)
  BY <1>3, <1>4 DEF Upgrading
<1>8. Pending(c) \in Seq(Words) /\ farSent[c] \in Nat BY PendingFacts
<1>9. \/ open'[c] = FALSE /\ asked'[c] = TRUE /\ a = "100"
      \/ open'[c] = FALSE /\ asked'[c] = FALSE /\ a = "no"
      \/ open'[c] = TRUE /\ asked'[c] = FALSE /\ a = "101"
  BY <1>1, <1>4
<1>10. \/ UpgradeReplies(Append(Pending(c), a), open'[c], asked'[c], farSent[c], k + 1)
       \/ UpgradeReplies(Append(Pending(c), a), open'[c], asked'[c], farSent[c], k)
  BY <1>5, <1>7, <1>8, <1>9, RepliesGrow
<1>11. Upgrading(c, k + 1)' \/ Upgrading(c, k)'
  BY <1>2, <1>6, <1>10 DEF Upgrading
<1>12. k + 1 \in Nat OBVIOUS
<1> QED BY <1>2, <1>11, <1>12, UpgradeKept DEF FarInv

\* The next message of the tunnel is sent.
LEMMA DataGrows ==
  ASSUME Typing, NEW c \in Conns, FarSends(c)
  PROVE  /\ farSent'[c] = farSent[c] + 1 /\ farSent[c] \in Nat
         /\ farSent'[c] <= Len(FarData)
         /\ FarData[farSent[c] + 1] \in Words
         /\ SubSeq(FarData, 1, farSent'[c])
              = Append(SubSeq(FarData, 1, farSent[c]), FarData[farSent[c] + 1])
         /\ SubSeq(FarData, 1, farSent[c]) \in Seq(Words)
<1>1. /\ farSent'[c] = farSent[c] + 1 /\ farSent[c] \in Nat
      /\ farSent[c] < Len(FarData)
  BY DEF FarSends, Typing
<1>2. FarData \in Seq(Words)
  <2>1. \A i \in 1..Len(FarData) : FarData[i] \in Words BY DataAssumption DEF Words
  <2> QED BY <2>1, DataAssumption
<1>3. farSent[c] + 1 \in 1..Len(FarData)
  BY <1>1, DataAssumption
<1>4. SubSeq(FarData, 1, farSent[c] + 1)
        = Append(SubSeq(FarData, 1, farSent[c]), FarData[farSent[c] + 1])
  <2>1. \A n \in Nat : n < Len(FarData) =>
          SubSeq(FarData, 0 + 1, n + 1) = Append(SubSeq(FarData, 0 + 1, n), FarData[n + 1])
    BY <1>2, SliceGrows
  <2> QED BY <1>1, <2>1
<1>5. SubSeq(FarData, 1, farSent[c]) \in Seq(Words)
  <2>1. \A n \in Nat : n <= Len(FarData) => SubSeq(FarData, 0 + 1, n) \in Seq(Words)
    BY <1>2, SliceType
  <2> QED BY <1>1, <2>1
<1>6. farSent[c] + 1 <= Len(FarData) BY <1>3
<1>7. FarData[farSent[c] + 1] \in Words BY <1>2, <1>3
<1> QED BY <1>1, <1>4, <1>5, <1>6, <1>7

LEMMA SendsKeep ==
  ASSUME Typing, NEW c \in Conns, FarInv(c), FarSends(c)
  PROVE  FarInv(c)'
<1> DEFINE w == FarData[farSent[c] + 1]
<1>1. /\ farSent'[c] = farSent[c] + 1 /\ farSent'[c] <= Len(FarData) /\ w \in Words
      /\ SubSeq(FarData, 1, farSent'[c]) = Append(SubSeq(FarData, 1, farSent[c]), w)
  BY DataGrows
<1>2. /\ open[c] /\ open'[c] = open[c] /\ asked'[c] = asked[c] /\ stage'[c] = stage[c]
      /\ SameCase(c) /\ nearOut'[c] = nearOut[c] /\ farBuf'[c] = farBuf[c]
  BY DEF FarSends, SameCase, nearVars, nameVars
<1>3. farIn' = [farIn EXCEPT ![c] = Append(farIn[c], w)] /\ farBuf' = farBuf
  BY DEF FarSends
<1>4. /\ farIn'[c] = Append(farIn[c], w) /\ Pending(c)' = Append(Pending(c), w)
      /\ Len(Pending(c)') = Len(Pending(c)) + 1
      /\ \A i \in 1..Len(Pending(c)) : Pending(c)'[i] = Pending(c)[i]
  BY <1>1, <1>3, PendingGrows
<1>5. /\ Pending(c) \in Seq(Words) /\ farIn[c] \in Seq(Words) /\ nearOut[c] \in Seq(Words)
      /\ farBuf[c] \in Seq(Words)
  BY PendingFacts DEF Typing
<1> HIDE DEF w
<1>6. CASE stage[c] \in Early
  BY <1>2, <1>6 DEF FarInv, Unasked
<1>7. CASE stage[c] = "negotiate"
  <2>1. LastAnswer(c) BY <1>2, <1>7 DEF FarInv, NegotiateInv, OneAnswer
  <2>2. \A s \in Seq(Words), x \in Words : s # <<>> =>
          /\ Append(s, x) # <<>> /\ Append(s, x)[1] = s[1]
          /\ Tail(Append(s, x)) = Append(Tail(s), x)
    OBVIOUS
  <2>3. /\ farIn'[c] # <<>> /\ farIn'[c][1] = farIn[c][1]
        /\ Tail(farIn'[c]) = Append(Tail(farIn[c]), w)
    <3>1. farIn[c] # <<>> BY <2>1 DEF LastAnswer
    <3>2. /\ Append(farIn[c], w) # <<>> /\ Append(farIn[c], w)[1] = farIn[c][1]
          /\ Tail(Append(farIn[c], w)) = Append(Tail(farIn[c]), w)
      BY <1>1, <1>5, <2>2, <3>1
    <3> QED BY <1>4, <3>2
  <2>4. LastAnswer(c)'
    BY <1>1, <1>2, <2>1, <2>3, CaseKept DEF LastAnswer, SameCase
  <2>5. NegotiateInv(c)'
    BY <1>2, <1>7, <2>4, CaseKept DEF FarInv, NegotiateInv, SameCase, OnTheWay
  <2> QED BY <1>1, <1>2, <1>7, <2>5 DEF FarInv, Early, SocksStages
<1>8. CASE stage[c] = "tls"
  BY <1>2, <1>8 DEF FarInv, TlsInv, OneAnswer
<1>9. CASE stage[c] = "upgrade"
  <2>1. PICK k \in Nat : Upgrading(c, k)
    BY <1>9 DEF FarInv, UpgradeInv
  <2>2. UpgradeReplies(Pending(c), TRUE, asked[c], farSent[c], k)
        /\ asked[c] \in BOOLEAN /\ open'[c] = TRUE
    BY <1>2, <2>1 DEF Upgrading, Typing
  <2>3. farSent[c] \in Nat /\ farSent[c] < Len(FarData)
    BY DEF FarSends, Typing
  <2>4. w = FarData[farSent[c] + 1] BY DEF w
  <2>6. UpgradeReplies(Append(Pending(c), w), TRUE, asked[c], farSent[c] + 1, k)
    BY <1>1, <1>5, <2>2, <2>3, <2>4, RepliesGrow
  <2>5. Upgrading(c, k)'
    BY <1>1, <1>2, <1>4, <2>2, <2>6 DEF Upgrading
  <2> QED BY <1>1, <1>2, <1>9, <2>5, UpgradeKept
<1>10. CASE stage[c] = "relay"
  <2> DEFINE out == SubSeq(nearOut[c], Socks(c) + 1, Len(nearOut[c]))
  <2>1. ~asked[c] /\ out \o farBuf[c] \o farIn[c] = SubSeq(FarData, 1, farSent[c])
    BY <1>10 DEF FarInv, RelayInv
  <2>2. out \in Seq(Words)
    <3>1. Socks(c) \in Nat BY DEF Socks
    <3>2. \A k \in Nat, s \in Seq(Words) : SubSeq(s, k + 1, Len(s)) \in Seq(Words)
      OBVIOUS
    <3> QED BY <1>5, <3>1, <3>2
  <2>3. out \o farBuf[c] \in Seq(Words) BY <1>5, <2>2
  <2>4. \A s \in Seq(Words), t \in Seq(Words), x \in Words : s \o Append(t, x) = Append(s \o t, x)
    BY AppendConcat
  <2>5. out \o farBuf[c] \o Append(farIn[c], w) = Append(SubSeq(FarData, 1, farSent[c]), w)
    <3> HIDE DEF out
    <3> DEFINE before == out \o farBuf[c]
    <3>1. before \in Seq(Words) BY <2>3
    <3> HIDE DEF before
    <3>2. before \o Append(farIn[c], w) = Append(before \o farIn[c], w)
      BY <1>1, <1>5, <2>4, <3>1
    <3>3. before \o farIn[c] = SubSeq(FarData, 1, farSent[c]) BY <2>1 DEF before
    <3> QED BY <3>2, <3>3 DEF before
  <2>6. RelayInv(c)'
    BY <1>1, <1>2, <1>4, <1>10, <2>5, CaseKept DEF FarInv, RelayInv
  <2> QED BY <1>1, <1>2, <1>10, <2>6 DEF FarInv, Early, SocksStages
<1>11. stage[c] # "ended" /\ stage[c] \in Stages
  BY DEF FarSends, Typing
<1> QED BY <1>6, <1>7, <1>8, <1>9, <1>10, <1>11 DEF Stages, Early

\* read_head takes a reply: an interim one leaves an upgrade, 101 the tunnel.
LEMMA RepliesShrink ==
  ASSUME NEW p \in Seq(Words), NEW k \in Nat, NEW o \in BOOLEAN, NEW a \in BOOLEAN,
         NEW n \in Nat, UpgradeReplies(p, o, a, n, k), p # <<>>
  PROVE  /\ Head(p) = "100" => k > 0 /\ UpgradeReplies(Tail(p), o, a, n, k - 1)
         /\ Head(p) = "101" => o /\ ~a /\ Tail(p) = SubSeq(FarData, 1, n)
<1>1. /\ Head(p) = p[1] /\ Tail(p) \in Seq(Words) /\ Len(Tail(p)) = Len(p) - 1
      /\ Len(p) >= 1 /\ Len(p) \in Nat
      /\ \A i \in 1 .. Len(p) - 1 : Tail(p)[i] = p[i + 1]
      /\ Tail(p) = SubSeq(p, 2, Len(p))
  BY TailIsRest
<1>2. k = 0 => \/ o /\ ~a /\ p[1] = "101" /\ SubSeq(p, 2, Len(p)) = SubSeq(FarData, 1, n)
               \/ p[1] = "no"
  <2>1. k = 0 => k + 1 = 1 /\ k + 2 = 2 OBVIOUS
  <2>2. \/ o /\ ~a /\ p[k + 1] = "101" /\ SubSeq(p, k + 2, Len(p)) = SubSeq(FarData, 1, n)
        \/ p[k + 1] = "no"
        \/ Len(p) = k
    BY DEF UpgradeReplies
  <2>3. k = 0 => Len(p) # k BY <1>1
  <2> QED BY <2>1, <2>2, <2>3
<1>3. k > 0 => p[1] = "100"
  BY DEF UpgradeReplies
<1>4. Head(p) = "101" => o /\ ~a /\ Tail(p) = SubSeq(FarData, 1, n)
  <2>1. k = 0 \/ k > 0 OBVIOUS
  <2>2. Head(p) = p[1] /\ Tail(p) = SubSeq(p, 2, Len(p)) BY <1>1
  <2> QED BY <1>2, <1>3, <2>1, <2>2
<1>5. ASSUME k > 0 PROVE UpgradeReplies(Tail(p), o, a, n, k - 1)
  <2> DEFINE t == Tail(p)
             j == k - 1
  <2>1. j \in Nat /\ j + 1 = k /\ k <= Len(p) /\ \A i \in 1..k : p[i] = "100"
    BY <1>5 DEF UpgradeReplies
  <2>2. j <= Len(t) /\ \A i \in 1..j : t[i] = "100"
    BY <1>1, <2>1
  <2>3. k < Len(p) => j < Len(t) /\ t[j + 1] = p[k + 1]
    BY <1>1, <2>1
  <2>4. SubSeq(t, j + 2, Len(t)) = SubSeq(p, k + 2, Len(p))
    <3> DEFINE u == SubSeq(t, j + 2, Len(t))
               v == SubSeq(p, k + 2, Len(p))
    <3>1. u \in Seq(Words) /\ v \in Seq(Words)
      <4>1. \A s \in Seq(Words), i \in Nat : SubSeq(s, i + 1, Len(s)) \in Seq(Words)
        OBVIOUS
      <4>2. j + 2 = (j + 1) + 1 /\ k + 2 = (k + 1) + 1 /\ j + 1 \in Nat /\ k + 1 \in Nat
        BY <2>1
      <4> QED BY <1>1, <4>1, <4>2
    <3>2. Len(u) = Len(v) /\ \A i \in 1..Len(u) : u[i] = t[i + j + 1] /\ v[i] = p[i + k + 1]
      <4>1. \A s \in Seq(Words), m \in Nat : m <= Len(s) + 1 =>
              /\ Len(SubSeq(s, m + 1, Len(s))) = (IF m < Len(s) THEN Len(s) - m ELSE 0)
              /\ \A i \in 1..Len(SubSeq(s, m + 1, Len(s))) :
                   SubSeq(s, m + 1, Len(s))[i] = s[i + m]
        OBVIOUS
      <4>2. j + 2 = (j + 1) + 1 /\ k + 2 = (k + 1) + 1 /\ j + 1 \in Nat /\ k + 1 \in Nat
            /\ j + 1 <= Len(t) + 1 /\ k + 1 <= Len(p) + 1
        BY <1>1, <2>1, <2>2
      <4>3. /\ Len(u) = (IF j + 1 < Len(t) THEN Len(t) - (j + 1) ELSE 0)
            /\ \A i \in 1..Len(u) : u[i] = t[i + (j + 1)]
        BY <1>1, <4>1, <4>2
      <4>4. /\ Len(v) = (IF k + 1 < Len(p) THEN Len(p) - (k + 1) ELSE 0)
            /\ \A i \in 1..Len(v) : v[i] = p[i + (k + 1)]
        BY <4>1, <4>2
      <4>5. Len(u) = Len(v) /\ Len(u) \in Nat BY <1>1, <2>1, <4>3, <4>4
      <4> HIDE DEF u, v, t
      <4> QED BY <2>1, <4>3, <4>4, <4>5
    <3>3. \A i \in 1..Len(u) : t[i + j + 1] = p[i + k + 1]
      <4>1. Len(u) <= Len(t) - j - 1 \/ Len(u) = 0
        <5>1. \A s \in Seq(Words), m \in Nat :
                Len(SubSeq(s, m + 1, Len(s))) <= Len(s) - m \/ Len(SubSeq(s, m + 1, Len(s))) = 0
          OBVIOUS
        <5>2. j + 2 = (j + 1) + 1 /\ j + 1 \in Nat BY <2>1
        <5>3. Len(u) <= Len(t) - (j + 1) \/ Len(u) = 0 BY <1>1, <5>1, <5>2
        <5>4. Len(t) \in Nat BY <1>1
        <5> HIDE DEF u, t
        <5> QED BY <2>1, <5>3, <5>4
      <4>2. Len(u) \in Nat BY <3>1
      <4> HIDE DEF u, v
      <4> QED BY <1>1, <2>1, <4>1, <4>2
    <3> HIDE DEF u, v
    <3>4. \A i \in 1..Len(u) : u[i] = v[i] BY <3>2, <3>3
    <3>5. u = v BY <3>1, <3>2, <3>4, SameSequence
    <3> QED BY <3>5 DEF u, v
  <2>5. Len(p) = k + 1 => Len(t) = j + 1 BY <1>1, <2>1
  <2>6. Len(p) = k => Len(t) = j BY <1>1, <2>1
  <2> HIDE DEF t, j
  <2>8. j <= Len(t) /\ \A i \in 1..j : t[i] = "100"
    BY <2>2
  <2>9. ASSUME o PROVE UpgradeReplies(t, o, a, n, j)
    <3>1. /\ ~a /\ k < Len(p) /\ p[k + 1] = "101"
          /\ SubSeq(p, k + 2, Len(p)) = SubSeq(FarData, 1, n)
      BY <2>9 DEF UpgradeReplies
    <3>2. /\ j < Len(t) /\ t[j + 1] = "101"
          /\ SubSeq(t, j + 2, Len(t)) = SubSeq(FarData, 1, n)
      BY <2>3, <2>4, <3>1
    <3> QED BY <2>8, <2>9, <3>1, <3>2 DEF UpgradeReplies
  <2>10. ASSUME ~o, a PROVE UpgradeReplies(t, o, a, n, j)
    BY <2>2, <2>6, <2>10 DEF UpgradeReplies
  <2>11. ASSUME ~o, ~a PROVE UpgradeReplies(t, o, a, n, j)
    <3>1. n = 0 /\ Len(p) = k + 1 /\ p[k + 1] = "no" BY <2>11 DEF UpgradeReplies
    <3>2. k < Len(p) BY <3>1
    <3>3. Len(t) = j + 1 /\ t[j + 1] = "no" BY <2>3, <2>5, <3>1, <3>2
    <3> QED BY <2>8, <2>11, <3>1, <3>3 DEF UpgradeReplies
  <2>7. UpgradeReplies(t, o, a, n, j)
    BY <2>9, <2>10, <2>11
  <2> QED BY <2>7 DEF t, j
<1>6. Head(p) = "100" => k > 0
  <2>1. k = 0 \/ k > 0 OBVIOUS
  <2>2. Head(p) = p[1] BY <1>1
  <2> QED BY <1>2, <2>1, <2>2
<1> QED BY <1>4, <1>5, <1>6

LEMMA ConcatHead ==
  ASSUME NEW T, NEW s \in Seq(T), NEW t \in Seq(T), s # <<>>
  PROVE  /\ s \o t \in Seq(T) /\ s \o t # <<>> /\ Head(s \o t) = Head(s)
         /\ Tail(s \o t) = Tail(s) \o t
         /\ Head(s) \in T /\ Tail(s) \in Seq(T)
  OBVIOUS

\* The answers so far, and one more.
LEMMA AnswersGrow ==
  ASSUME NEW h \in Seq(Words), NEW w \in Words
  PROVE  /\ Append(h, w) \in Seq(Words) /\ Len(Append(h, w)) = Len(h) + 1
         /\ Append(h, w)[Len(h) + 1] = w /\ Len(h) \in Nat
         /\ \A i \in 1..Len(h) : Append(h, w)[i] = h[i]
         /\ IsPrefix(h, Append(h, w))
         /\ \A s \in Seq(Words) : IsPrefix(s, h) => IsPrefix(s, Append(h, w))
<1>1. /\ Append(h, w) \in Seq(Words) /\ Len(Append(h, w)) = Len(h) + 1
      /\ Append(h, w)[Len(h) + 1] = w /\ Len(h) \in Nat
      /\ \A i \in 1..Len(h) : Append(h, w)[i] = h[i]
  OBVIOUS
<1> DEFINE g == Append(h, w)
<1>2. \A s \in Seq(Words), t \in Seq(Words) :
        IsPrefix(s, t) <=> Len(s) <= Len(t) /\ \A i \in 1..Len(s) : s[i] = t[i]
  BY PrefixFacts
<1> HIDE DEF g
<1>3. ASSUME NEW s \in Seq(Words), IsPrefix(s, h) PROVE IsPrefix(s, g)
  <2>1. Len(s) <= Len(h) /\ (\A i \in 1..Len(s) : s[i] = h[i]) /\ Len(s) \in Nat
    BY <1>2, <1>3
  <2>2. Len(s) <= Len(g) /\ \A i \in 1..Len(s) : s[i] = g[i]
    BY <1>1, <2>1 DEF g
  <2>3. g \in Seq(Words) BY <1>1 DEF g
  <2> QED BY <1>2, <2>2, <2>3
<1>4. IsPrefix(h, h) BY <1>2
<1>5. IsPrefix(h, g) BY <1>3, <1>4
<1> QED BY <1>1, <1>3, <1>5 DEF g

\* An interim reply, and the last one.
LEMMA RepliesHeard ==
  ASSUME Typing, NEW c \in Conns, ~FromBridge(c), NEW s, Upgraded(c, s),
         kase'[c] = kase[c], name'[c] = name[c], NEW w \in Words,
         heard'[c] = Append(heard[c], w)
  PROVE  /\ w = "100" => Upgraded(c, s)'
         /\ w = "101" => Agreed(c, s)'
<1> DEFINE h == heard[c]
<1>1. /\ FromBridge(c)' = FromBridge(c) /\ Route(c)' = Route(c) /\ Line(c)' = Line(c)
      /\ Secure(c)' = Secure(c)
  BY DEF FromBridge, Route, Line, Secure
<1>2. Hops(c, s)' = Hops(c, s)
  BY <1>1 DEF Hops
<1>3. s \in Accepting(Route(c)) /\ s \in Seq(Words) /\ h \in Seq(Words)
  BY Exchanges, PendingFacts DEF Upgraded, Trusting
<1>4. /\ heard'[c] \in Seq(Words) /\ Len(heard'[c]) = Len(h) + 1
      /\ heard'[c][Len(h) + 1] = w /\ Len(h) \in Nat
      /\ \A i \in 1..Len(h) : heard'[c][i] = h[i]
      /\ IsPrefix(s, h) => IsPrefix(s, heard'[c])
  BY <1>3, AnswersGrow
<1>5. IsPrefix(s, h) /\ Hops(c, s) <= Len(h) /\ Hops(c, s) \in Nat /\ Len(s) \in Nat
      /\ (Secure(c) => Len(s) + 1 <= Len(h))
  BY <1>3 DEF Upgraded, Trusting, Hops
<1>6. /\ Secure(c) => h[Len(s) + 1] \in Trusted(Line(c), name[c])
      /\ \A i \in Hops(c, s) + 1 .. Len(h) : h[i] = "100"
  BY DEF Upgraded, Trusting
<1> HIDE DEF h
<1>7. Secure(c) => heard'[c][Len(s) + 1] = h[Len(s) + 1]
  BY <1>4, <1>5
<1>8. Trusting(c, s)'
  BY <1>1, <1>2, <1>3, <1>4, <1>5, <1>6, <1>7 DEF Trusting
<1>9. \A i \in Hops(c, s) + 1 .. Len(heard'[c]) - 1 : heard'[c][i] = "100"
  BY <1>4, <1>5, <1>6
<1>10. w = "100" => \A i \in Hops(c, s) + 1 .. Len(heard'[c]) : heard'[c][i] = "100"
  BY <1>4, <1>5, <1>9
<1>11. Len(heard'[c]) > Hops(c, s) /\ heard'[c][Len(heard'[c])] = w
  BY <1>4, <1>5
<1>12. w = "100" => Upgraded(c, s)'
  BY <1>2, <1>8, <1>10 DEF Upgraded
<1>13. w = "101" => Agreed(c, s)'
  BY <1>1, <1>2, <1>8, <1>9, <1>11 DEF Agreed
<1> QED BY <1>12, <1>13

LEMMA HeadFills ==
  ASSUME Typing, NEW c \in Conns, FarInv(c), FillHead(c)
  PROVE  FarInv(c)'
<1>1. PICK n \in 1..Len(farIn[c]) :
        /\ farBuf' = [farBuf EXCEPT ![c] = SubSeq(farIn[c], 1, n)]
        /\ farIn' = [farIn EXCEPT ![c] = SubSeq(farIn[c], n + 1, Len(farIn[c]))]
  BY DEF FillHead
<1>2. farIn[c] \in Seq(Words) BY DEF Typing
<1>3. Pending(c) = farIn[c]
  BY <1>2, EmptyConcat DEF Pending, FillHead
<1>4. farBuf'[c] \o farIn'[c] = farIn[c]
  <2>1. /\ farBuf'[c] = SubSeq(farIn[c], 1, n)
        /\ farIn'[c] = SubSeq(farIn[c], n + 1, Len(farIn[c]))
    BY <1>1 DEF Typing
  <2>2. SubSeq(farIn[c], 1, n) \o SubSeq(farIn[c], n + 1, Len(farIn[c])) = farIn[c]
    BY <1>2, Splits
  <2> QED BY <2>1, <2>2
<1>5. Pending(c)' = Pending(c) BY <1>3, <1>4 DEF Pending
<1>6. /\ SameCase(c) /\ stage[c] = "upgrade" /\ stage'[c] = "upgrade"
      /\ open'[c] = open[c] /\ asked'[c] = asked[c] /\ farSent'[c] = farSent[c]
  BY DEF FillHead, SameCase, nameVars
<1>7. \A k : Upgrading(c, k)' = Upgrading(c, k)
  BY <1>5, <1>6 DEF Upgrading
<1>8. \E k \in Nat : Upgrading(c, k)'
  BY <1>6, <1>7 DEF FarInv, UpgradeInv
<1> QED BY <1>6, <1>8, UpgradeKept DEF FarInv

LEMMA HeadReads ==
  ASSUME Typing, NEW c \in Conns, NearInv(c), FarInv(c), ReadHead(c)
  PROVE  FarInv(c)'
<1> DEFINE w == Head(farBuf[c])
<1>1. /\ stage[c] = "upgrade" /\ farBuf[c] # <<>> /\ ~FromBridge(c)
      /\ kase'[c] = kase[c] /\ name'[c] = name[c] /\ farSent'[c] = farSent[c]
      /\ open'[c] = open[c] /\ asked'[c] = asked[c] /\ farIn'[c] = farIn[c]
  BY DEF ReadHead, FarInv, UpgradeInv
<1>2. farBuf'[c] = Tail(farBuf[c]) /\ heard'[c] = Append(heard[c], w)
  BY DEF ReadHead, Typing
<1>3. /\ farIn[c] \in Seq(Words) /\ farBuf[c] \in Seq(Words) /\ heard[c] \in Seq(Words)
      /\ Pending(c) \in Seq(Words) /\ farSent[c] \in Nat
      /\ open[c] \in BOOLEAN /\ asked[c] \in BOOLEAN
  BY PendingFacts DEF Typing
<1>4. /\ Pending(c) # <<>> /\ Head(Pending(c)) = w /\ Tail(Pending(c)) = Pending(c)'
      /\ w \in Words
  <2>1. /\ farBuf[c] \o farIn[c] # <<>> /\ Head(farBuf[c] \o farIn[c]) = Head(farBuf[c])
        /\ Tail(farBuf[c] \o farIn[c]) = Tail(farBuf[c]) \o farIn[c]
        /\ Head(farBuf[c]) \in Words
    <3>1. \A s \in Seq(Words), t \in Seq(Words) : s # <<>> =>
            /\ s \o t # <<>> /\ Head(s \o t) = Head(s)
            /\ Tail(s \o t) = Tail(s) \o t /\ Head(s) \in Words
      BY ConcatHead
    <3> QED BY <1>1, <1>3, <3>1
  <2> QED BY <1>1, <1>2, <2>1 DEF Pending
<1>5. PICK s \in Accepting(Route(c)) : Upgraded(c, s)
  BY <1>1 DEF FarInv, UpgradeInv
<1>6. PICK k \in Nat : UpgradeReplies(Pending(c), open[c], asked[c], farSent[c], k)
  BY <1>1 DEF FarInv, UpgradeInv, Upgrading
<1>7. /\ w = "100" => k > 0 /\ UpgradeReplies(Pending(c)', open[c], asked[c], farSent[c], k - 1)
      /\ w = "101" => ~asked[c] /\ Pending(c)' = SubSeq(FarData, 1, farSent[c])
  <2>1. /\ w = "100" => k > 0 /\ UpgradeReplies(Tail(Pending(c)), open[c], asked[c],
                                                 farSent[c], k - 1)
        /\ w = "101" => /\ open[c] /\ ~asked[c]
                        /\ Tail(Pending(c)) = SubSeq(FarData, 1, farSent[c])
    <3> DEFINE p == Pending(c)
               o == open[c]
               a == asked[c]
               n == farSent[c]
    <3>1. /\ p \in Seq(Words) /\ k \in Nat /\ o \in BOOLEAN /\ a \in BOOLEAN /\ n \in Nat
          /\ UpgradeReplies(p, o, a, n, k) /\ p # <<>> /\ Head(p) = w
      BY <1>3, <1>4, <1>6
    <3> HIDE DEF p, o, a, n, w
    <3>2. /\ Head(p) = "100" => k > 0 /\ UpgradeReplies(Tail(p), o, a, n, k - 1)
          /\ Head(p) = "101" => o /\ ~a /\ Tail(p) = SubSeq(FarData, 1, n)
      BY <3>1, RepliesShrink, Zenon
    <3> QED BY <3>1, <3>2 DEF p, o, a, n
  <2> QED BY <1>4, <2>1
<1>8. /\ w = "100" => Upgraded(c, s)'
      /\ w = "101" => Agreed(c, s)'
  BY <1>1, <1>2, <1>4, <1>5, RepliesHeard
<1>9. FromBridge(c)' = FromBridge(c) /\ Route(c)' = Route(c) /\ Socks(c)' = Socks(c)
  BY <1>1 DEF FromBridge, Route, Socks
<1> HIDE DEF w
<1>10. CASE w = "100" /\ UNCHANGED stage
  <2>1. k - 1 \in Nat /\ Upgrading(c, k - 1)'
    BY <1>1, <1>7, <1>10 DEF Upgrading
  <2>2. UpgradeInv(c)'
    BY <1>1, <1>8, <1>9, <1>10, <2>1 DEF UpgradeInv
  <2>3. stage'[c] = "upgrade" BY <1>1, <1>10
  <2> QED BY <1>1, <2>2, <2>3 DEF FarInv, Early, SocksStages
<1>11. CASE w = "101" /\ Say(c, "succeeded", "relay")
  <2>1. "succeeded" \in Replies BY DEF Replies
  <2>2. stage'[c] = "relay" /\ nearOut'[c] = Append(nearOut[c], "succeeded")
        /\ Len(nearOut'[c]) = Len(nearOut[c]) + 1
    BY <1>11, <2>1, SayEffect
  <2>3. Len(nearOut[c]) = Socks(c) - 1 /\ Socks(c) \in Nat
    BY <1>1 DEF NearInv, Said, Socks
  <2>4. SubSeq(nearOut'[c], Socks(c) + 1, Len(nearOut'[c])) = <<>>
    <3>1. \A t \in Seq(Words) : SubSeq(t, Len(t) + 1, Len(t)) = <<>> OBVIOUS
    <3>2. nearOut'[c] \in Seq(Words)
      <4>1. nearOut[c] \in Seq(Words) /\ "succeeded" \in Words
        BY <2>1 DEF Typing, Words
      <4>2. Append(nearOut[c], "succeeded") \in Seq(Words) BY <4>1
      <4> QED BY <2>2, <4>2
    <3>3. Len(nearOut'[c]) = Socks(c) BY <2>2, <2>3
    <3> QED BY <3>1, <3>2, <3>3
  <2>5. SubSeq(nearOut'[c], Socks(c) + 1, Len(nearOut'[c])) \o farBuf'[c] \o farIn'[c]
          = SubSeq(FarData, 1, farSent'[c])
    <3>1. farBuf'[c] \in Seq(Words) BY <1>1, <1>2, <1>3, TailIsRest
    <3>2. <<>> \o farBuf'[c] = farBuf'[c] BY <3>1, EmptyConcat
    <3> QED BY <1>1, <1>7, <1>11, <2>4, <3>2 DEF Pending
  <2>6. RelayInv(c)'
    BY <1>1, <1>7, <1>8, <1>9, <1>11, <2>5 DEF RelayInv
  <2> QED BY <1>1, <2>2, <2>6 DEF FarInv, Early, SocksStages
<1>12. CASE Failed(c)
  BY <1>1, <1>12, EndedStage, FarEnded
<1> QED BY <1>10, <1>11, <1>12 DEF ReadHead, w

\* The proxy or the ORPort has agreed: an upgrade, TLS or a tunnel begins.
LEMMA ThroughFar ==
  ASSUME Typing, NEW c \in Conns, NearInv(c), stage[c] \in {"connect", "negotiate"},
         kase'[c] = kase[c], Through(c),
         heard'[c] \in Accepting(Route(c)), heard'[c] \in Seq(Words), farBuf'[c] = <<>>,
         FromBridge(c) => ~asked[c] /\ farIn'[c] = SubSeq(FarData, 1, farSent'[c]),
         ~FromBridge(c) => ~open'[c] /\ farIn'[c] = <<>> /\ farSent'[c] = 0,
         farSent'[c] \in Nat, farSent'[c] <= Len(FarData), open'[c] \in BOOLEAN,
         asked'[c] \in BOOLEAN
  PROVE  FarInv(c)'
<1>1. /\ FromBridge(c)' = FromBridge(c) /\ Route(c)' = Route(c) /\ Line(c)' = Line(c)
      /\ Secure(c)' = Secure(c) /\ Socks(c)' = Socks(c)
  BY DEF FromBridge, Route, Line, Secure, Socks
<1>5. PICK h \in Seq(Words) : h = heard'[c] /\ h \in Accepting(Route(c))
  OBVIOUS
<1>6. IsPrefix(h, h) /\ Len(h) \in Nat
  BY PrefixFacts
<1>2. CASE stage'[c] = "ended"
  BY <1>2 DEF FarInv, Early, SocksStages
<1>3. CASE FromBridge(c) /\ stage'[c] = "relay" /\ UNCHANGED <<nearOut, asked>>
  <2>1. Len(nearOut[c]) = 0 /\ Socks(c) = 0 /\ nearOut[c] \in Seq(Words)
    BY <1>3 DEF NearInv, Said, Socks, Typing, SocksStages
  <2>2. SubSeq(nearOut'[c], Socks(c) + 1, Len(nearOut'[c])) = <<>>
    <3>1. \A t \in Seq(Words) : Len(t) = 0 => SubSeq(t, 0 + 1, Len(t)) = <<>> OBVIOUS
    <3> QED BY <1>3, <2>1, <3>1
  <2>3. farIn'[c] = SubSeq(FarData, 1, farSent'[c]) BY <1>3
  <2>4. farIn'[c] \in Seq(Messages)
    <3>1. \A n \in Nat : SubSeq(FarData, 0 + 1, n) \in Seq(Messages) \/ n > Len(FarData)
      BY DataAssumption, SliceType
    <3>2. Len(FarData) \in Nat BY DataAssumption
    <3> QED BY <2>3, <3>1, <3>2
  <2>5. <<>> \o <<>> \o farIn'[c] = farIn'[c]
    <3>1. <<>> \o <<>> = <<>> OBVIOUS
    <3> QED BY <2>4, <3>1, EmptyConcat
  <2>6. SubSeq(nearOut'[c], Socks(c)' + 1, Len(nearOut'[c])) \o farBuf'[c] \o farIn'[c]
          = SubSeq(FarData, 1, farSent'[c])
    BY <1>1, <2>2, <2>3, <2>5
  <2>7. Agreed(c, h)'
    <3>2. ~Secure(c) BY <1>3 DEF Secure
    <3>4. Trusting(c, h)' BY <1>1, <1>5, <1>6, <3>2 DEF Trusting, Hops
    <3> QED BY <1>1, <1>3, <1>5, <3>4 DEF Agreed
  <2>9. ~asked'[c] BY <1>3
  <2>8. RelayInv(c)' BY <1>1, <1>5, <2>6, <2>7, <2>9 DEF RelayInv
  <2> QED BY <1>3, <2>8 DEF FarInv, Early, SocksStages
<1>4. CASE /\ ~FromBridge(c) /\ stage'[c] \in {"tls", "upgrade"}
           /\ stage'[c] = "tls" <=> Line(c).url = "https"
           /\ asked'[c]
  <2>1. Len(<<>>) = 0 OBVIOUS
  <2>2. CASE stage'[c] = "tls"
    <3>1. OneAnswer(c)' BY <1>4, <2>1 DEF OneAnswer
    <3>2. TlsInv(c)' BY <1>1, <1>4, <2>2, <3>1 DEF TlsInv, Secure
    <3> QED BY <2>2, <3>2 DEF FarInv, Early, SocksStages
  <2>3. CASE stage'[c] = "upgrade"
    <3>1. ~Secure(c) BY <1>4, <2>3 DEF Secure
    <3>2. Trusting(c, h)' /\ Hops(c, h)' = Len(h)
      BY <1>1, <1>5, <1>6, <3>1 DEF Trusting, Hops
    <3>3. \A i \in Len(h) + 1 .. Len(h) : FALSE BY <1>6
    <3>4. Upgraded(c, h)' BY <1>5, <3>2, <3>3 DEF Upgraded
    <3>5. Pending(c)' = <<>>
      <4>1. <<>> \o <<>> = <<>> OBVIOUS
      <4> QED BY <1>4, <4>1 DEF Pending
    <3>6. Upgrading(c, 0)'
      <4>1. UpgradeReplies(<<>>, FALSE, TRUE, 0, 0)
        BY <2>1 DEF UpgradeReplies
      <4>2. open'[c] = FALSE /\ asked'[c] = TRUE /\ farSent'[c] = 0
        BY <1>4
      <4> QED BY <3>5, <4>1, <4>2 DEF Upgrading
    <3>7. UpgradeInv(c)' BY <1>1, <1>4, <1>5, <3>4, <3>6 DEF UpgradeInv
    <3> QED BY <2>3, <3>7 DEF FarInv, Early, SocksStages
  <2> QED BY <1>4, <2>2, <2>3
<1> QED BY <1>2, <1>3, <1>4, ThroughStage

\* Routes that want no answer lead to the bridge or to the plain ORPort.
LEMMA DirectRoutes ==
  ASSUME Typing, NEW c \in Conns, kase[c] \in Cases, <<>> \in Accepting(Route(c))
  PROVE  Route(c) \in {"direct", "or"}
<1>1. Route(c) \in Routes BY DEF Cases, Route
<1>2. \A s \in Accepting(Route(c)) : s = <<>> =>
        Route(c) \notin {"http", "socks4", "socks5", "socks5 user", "extor"}
  <2> SUFFICES ASSUME <<>> \in Accepting(Route(c))
               PROVE  Route(c) \notin {"http", "socks4", "socks5", "socks5 user", "extor"}
    OBVIOUS
  <2>1. /\ <<"200">> # <<>> /\ <<"granted">> # <<>> /\ <<"no auth", "succeeded">> # <<>>
        /\ <<"userpass", "welcome", "succeeded">> # <<>>
        /\ <<"auth types", "server hash", "status", "okay">> # <<>>
    OBVIOUS
  <2> QED BY <2>1, Exchanges
<1> QED BY <1>1, <1>2 DEF Routes

LEMMA FarConnects ==
  ASSUME Typing, Typing', NEW c \in Conns, NearInv(c), FarInv(c), Connect(c)
  PROVE  FarInv(c)'
<1>1. /\ stage[c] = "connect" /\ kase'[c] = kase[c] /\ farIn'[c] = farIn[c]
      /\ farBuf'[c] = farBuf[c] /\ farSent'[c] = farSent[c] /\ heard'[c] = heard[c]
  BY DEF Connect
<1>2. Unasked(c) /\ kase[c] \in Cases
  BY <1>1 DEF FarInv, Early, NearInv
<1>3. CASE Failed(c)
  BY <1>1, <1>3, EndedStage, FarEnded
<1>4. CASE /\ <<>> \notin Accepting(Route(c))
           /\ stage' = [stage EXCEPT ![c] = "negotiate"] /\ Ask(c) /\ UNCHANGED open
  <2>1. stage'[c] = "negotiate" /\ open'[c] = open[c]
    BY <1>4 DEF Typing
  <2>2. OneAnswer(c)'
    <3>1. Len(<<>>) = 0 OBVIOUS
    <3> QED BY <1>1, <1>2, <2>1, <3>1 DEF OneAnswer, Unasked
  <2>3. OnTheWay(Route(c), <<>>)
    <3>1. kase[c].route \in Routes BY <1>2 DEF Cases
    <3>2. \E s : s \in Accepting(Route(c))
      BY DEF Accepting, HttpConnect, Socks4Connect, Socks5Connect
    <3>3. PICK s \in Accepting(Route(c)) : TRUE BY <3>2
    <3>4. s \in Seq(Words) /\ s # <<>> BY <1>4, <3>3, Exchanges
    <3>5. IsPrefix(<<>>, s)
      <4>1. <<>> \in Seq(Words) /\ Len(<<>>) = 0 /\ Len(s) >= 0 BY <3>4
      <4>2. \A i \in 1..0 : FALSE OBVIOUS
      <4> QED BY <3>4, <4>1, <4>2, PrefixFacts
    <3> QED BY <3>4, <3>5 DEF OnTheWay, IsStrictPrefix
  <2>4. OnTheWay(Route(c), heard[c])' /\ farBuf'[c] = <<>>
    BY <1>1, <1>2, <2>3 DEF Unasked, OnTheWay, Route
  <2>5. NegotiateInv(c)' BY <2>2, <2>4 DEF NegotiateInv
  <2> QED BY <1>1, <2>1, <2>5 DEF FarInv, Early, SocksStages
<1>5. CASE /\ <<>> \in Accepting(Route(c)) /\ Through(c)
           /\ open' = [open EXCEPT ![c] = Route(c) = "or"]
  <2>1. open'[c] = (Route(c) = "or") BY <1>5 DEF Typing
  <2>2. Route(c) \in {"direct", "or"} BY <1>2, <1>5, DirectRoutes
  <2>3. ~FromBridge(c) => ~open'[c] BY <2>1, <2>2 DEF FromBridge
  <2>4. heard'[c] \in Accepting(Route(c)) /\ heard'[c] \in Seq(Words) /\ farBuf'[c] = <<>>
        /\ farIn'[c] = <<>> /\ farSent'[c] = 0 /\ ~asked[c]
    BY <1>1, <1>2, <1>5 DEF Unasked
  <2>5. SubSeq(FarData, 1, 0) = <<>> /\ 0 <= Len(FarData) BY DataAssumption
  <2>6. farSent'[c] <= Len(FarData) /\ farIn'[c] = SubSeq(FarData, 1, farSent'[c])
    BY <2>4, <2>5
  <2>7. open'[c] \in BOOLEAN /\ asked'[c] \in BOOLEAN
    <3>1. asked' \in [Conns -> BOOLEAN] BY DEF Typing
    <3> QED BY <2>1, <3>1
  <2> QED BY <1>1, <1>5, <2>3, <2>4, <2>6, <2>7, ThroughFar
<1> QED BY <1>3, <1>4, <1>5 DEF Connect

\* One answer is taken: nothing else is in transit before the last one.
LEMMA OneTaken ==
  ASSUME Typing, NEW c \in Conns, OneAnswer(c), farIn[c] # <<>>
  PROVE  /\ Tail(farIn[c]) = <<>> /\ Head(farIn[c]) \notin {"okay", "101"}
         /\ Head(farIn[c]) \in Words /\ ~asked[c] /\ ~open[c] /\ farSent[c] = 0
<1>1. farIn[c] \in Seq(Words) BY DEF Typing
<1>2. \A s \in Seq(Words) : s # <<>> /\ Len(s) <= 1 =>
        Tail(s) = <<>> /\ Head(s) = s[1] /\ Head(s) \in Words
  OBVIOUS
<1> QED BY <1>1, <1>2 DEF OneAnswer

LEMMA FarNegotiates ==
  ASSUME Typing, Typing', NEW c \in Conns, NearInv(c), FarInv(c), Negotiate(c)
  PROVE  FarInv(c)'
<1> DEFINE w == Head(farIn[c])
           h == Append(heard[c], w)
<1>1. /\ stage[c] = "negotiate" /\ farIn[c] # <<>> /\ kase'[c] = kase[c]
      /\ farBuf'[c] = farBuf[c] /\ farSent'[c] = farSent[c] /\ open'[c] = open[c]
      /\ kase[c] \in Cases
  BY DEF Negotiate, NearInv
<1>2. farIn'[c] = Tail(farIn[c]) /\ heard'[c] = h
  BY DEF Negotiate, Typing
<1>3. /\ NegotiateInv(c) /\ farBuf'[c] = <<>>
      /\ farIn[c] \in Seq(Words) /\ heard[c] \in Seq(Words)
      /\ w \in Words /\ w = farIn[c][1]
  BY <1>1, TailIsRest DEF FarInv, NegotiateInv, Typing
<1>4. h \in Seq(Words) /\ Len(h) = Len(heard[c]) + 1 /\ Len(heard[c]) \in Nat
  BY <1>3, AnswersGrow
<1> HIDE DEF h, w
<1>5. FromBridge(c) <=> Route(c) = "extor"
  <2>1. PICK s \in Accepting(Route(c)) : IsStrictPrefix(heard[c], s)
    BY <1>3 DEF NegotiateInv, OnTheWay
  <2>2. s \in Seq(Words) BY Exchanges
  <2>3. Len(heard[c]) < Len(s) BY <1>3, <2>1, <2>2, PrefixFacts
  <2>4. Len(s) # 0 BY <1>4, <2>2, <2>3
  <2>5. s # <<>> BY <2>4
  <2>6. Route(c) = "or" => Accepting(Route(c)) = {<<>>} BY DEF Accepting
  <2> QED BY <2>1, <2>5, <2>6 DEF FromBridge
<1>6. OneAnswer(c) => farIn'[c] = <<>> /\ w \notin {"okay", "101"} /\ ~asked[c]
                      /\ ~open[c] /\ farSent[c] = 0
  BY <1>1, <1>2, OneTaken DEF w
<1>7. CASE Failed(c)
  BY <1>1, <1>7, EndedStage, FarEnded
<1>8. CASE h \in Accepting(Route(c)) /\ Through(c)
  <2>1. ASSUME FromBridge(c)
        PROVE  ~asked[c] /\ farIn'[c] = SubSeq(FarData, 1, farSent'[c])
    <3>1. Len(h) = 4 /\ h[4] = "okay"
      BY <1>5, <1>8, <2>1, ExtorAnswers
    <3>2. h[Len(heard[c]) + 1] = w
      BY <1>3, AnswersGrow DEF h
    <3>3. Len(heard[c]) + 1 = 4 BY <1>4, <3>1
    <3>4. w = "okay" BY <3>1, <3>2, <3>3
    <3>5. LastAnswer(c) BY <1>3, <1>6, <3>4 DEF NegotiateInv
    <3> QED BY <1>1, <1>2, <3>5 DEF LastAnswer
  <2>2. ASSUME ~FromBridge(c)
        PROVE  ~open'[c] /\ farIn'[c] = <<>> /\ farSent'[c] = 0
    <3>1. OneAnswer(c) BY <1>3, <1>5, <2>2 DEF NegotiateInv, LastAnswer
    <3> QED BY <1>1, <1>6, <3>1
  <2>3. farSent'[c] <= Len(FarData) BY <1>1 DEF FarInv
  <2>4. open'[c] \in BOOLEAN /\ asked'[c] \in BOOLEAN
    <3>1. open' \in [Conns -> BOOLEAN] /\ asked' \in [Conns -> BOOLEAN] BY DEF Typing
    <3> QED BY <3>1
  <2>5. farSent'[c] \in Nat BY DEF Typing
  <2> QED BY <1>1, <1>2, <1>3, <1>4, <1>8, <2>1, <2>2, <2>3, <2>4, <2>5, ThroughFar
<1>9. CASE OnTheWay(Route(c), h) /\ Ask(c) /\ UNCHANGED stage
  <2>1. PICK s \in Accepting(Route(c)) : IsStrictPrefix(h, s)
    BY <1>9 DEF OnTheWay
  <2>2. s \in Seq(Words) /\ Len(h) < Len(s)
    <3>1. s \in Seq(Words) BY Exchanges
    <3> QED BY <1>4, <2>1, <3>1, PrefixFacts
  <2>3. OneAnswer(c)
    <3>1. CASE LastAnswer(c)
      <4>4. Len(Authenticate) = 3 BY TupleItems DEF Authenticate
      <4>1. Len(heard[c]) = 3 BY <3>1, <4>4 DEF LastAnswer
      <4>2. Len(s) = 4 BY <3>1, ExtorAnswers DEF LastAnswer
      <4>3. Len(h) = 4 BY <1>4, <4>1
      <4> QED BY <2>2, <4>2, <4>3
    <3> QED BY <1>3, <3>1 DEF NegotiateInv
  <2>4. OneAnswer(c)'
    <3>1. Len(<<>>) = 0 OBVIOUS
    <3> QED BY <1>1, <1>6, <2>3, <3>1 DEF OneAnswer
  <2>5. OnTheWay(Route(c), heard[c])'
    BY <1>1, <1>2, <1>9 DEF OnTheWay, Route
  <2>6. NegotiateInv(c)' BY <1>3, <2>4, <2>5 DEF NegotiateInv
  <2> QED BY <1>1, <1>9, <2>6 DEF FarInv, Early, SocksStages
<1> QED BY <1>7, <1>8, <1>9 DEF Negotiate, h, w

\* A chain that the verifier accepts is one the bridge line trusts.
LEMMA VerifiedTrusted ==
  ASSUME NEW line, NEW sni, NEW k \in Certs, Verifies(Check(line, sni), k)
  PROVE  k \in Trusted(line, sni)
<1> DEFINE n == VerifyName(line)
<1>1. CASE line.pin = "bad" \/ line.utls = "unknown"
  BY <1>1 DEF Check, Verifies
<1>2. CASE ~(line.pin = "bad" \/ line.utls = "unknown") /\ line.pin # ""
  BY <1>2 DEF Check, Verifies, Trusted
<1>3. CASE ~(line.pin = "bad" \/ line.utls = "unknown") /\ line.pin = ""
  <2>1. CASE line.utls # "none" /\ n = "*"
    BY <1>3, <2>1 DEF Check, Verifies
  <2>2. CASE line.utls # "none" /\ n # "*" /\ n # ""
    BY <1>3, <2>2 DEF Absent, Check, Verifies, Trusted, VerifyName
  <2>3. CASE line.utls = "none" \/ n = ""
    BY <1>3, <2>3 DEF Check, Verifies, Trusted, VerifyName
  <2> QED BY <2>1, <2>2, <2>3
<1> QED BY <1>1, <1>2, <1>3

LEMMA FarVerifies ==
  ASSUME Typing, NEW c \in Conns, FarInv(c), TlsConnect(c)
  PROVE  FarInv(c)'
<1> DEFINE k == Head(farIn[c])
<1>1. /\ stage[c] = "tls" /\ farIn[c] # <<>> /\ kase'[c] = kase[c]
      /\ farBuf'[c] = farBuf[c] /\ farSent'[c] = farSent[c] /\ open'[c] = open[c]
      /\ name'[c] = name[c]
  BY DEF TlsConnect
<1>2. farIn'[c] = Tail(farIn[c]) /\ heard'[c] = Append(heard[c], k)
  BY DEF TlsConnect, Typing
<1>3. /\ heard[c] \in Accepting(Route(c)) /\ farBuf[c] = <<>> /\ OneAnswer(c) /\ Secure(c)
      /\ heard[c] \in Seq(Words)
  BY <1>1, PendingFacts DEF FarInv, TlsInv
<1>4. farIn'[c] = <<>> /\ k \in Words /\ ~open[c] /\ farSent[c] = 0
  BY <1>1, <1>2, <1>3, OneTaken
<1>5. /\ FromBridge(c)' = FromBridge(c) /\ Route(c)' = Route(c) /\ Line(c)' = Line(c)
      /\ Secure(c)' = Secure(c)
  BY <1>1 DEF FromBridge, Route, Line, Secure
<1>6. CASE Failed(c)
  BY <1>1, <1>6, EndedStage, FarEnded
<1>7. CASE /\ k \in Certs /\ Verifies(Check(Line(c), name[c]), k)
           /\ stage' = [stage EXCEPT ![c] = "upgrade"] /\ Ask(c)
  <2>1. k \in Trusted(Line(c), name[c]) BY <1>7, VerifiedTrusted
  <2>2. stage'[c] = "upgrade" /\ asked'[c] = TRUE
    BY <1>7 DEF Ask, Typing
  <2>3. PICK s \in Seq(Words) : s = heard[c] /\ s \in Accepting(Route(c))
    BY <1>3
  <2>4. /\ IsPrefix(s, heard'[c]) /\ Len(heard'[c]) = Len(s) + 1 /\ Len(s) \in Nat
        /\ heard'[c][Len(s) + 1] = k
    BY <1>2, <1>4, <2>3, AnswersGrow
  <2>5. Trusting(c, s)' /\ Hops(c, s)' = Len(s) + 1
    BY <1>1, <1>3, <1>5, <2>1, <2>3, <2>4 DEF Trusting, Hops
  <2>6. \A i \in Len(s) + 2 .. Len(s) + 1 : FALSE BY <2>4
  <2>7. Upgraded(c, s)'
    <3>1. (Len(s) + 1) + 1 = Len(s) + 2 BY <2>4
    <3> QED BY <2>4, <2>5, <2>6, <3>1 DEF Upgraded
  <2>8. Pending(c)' = <<>>
    <3>1. <<>> \o <<>> = <<>> OBVIOUS
    <3> QED BY <1>1, <1>3, <1>4, <3>1 DEF Pending
  <2>9. Upgrading(c, 0)'
    <3>1. UpgradeReplies(<<>>, FALSE, TRUE, 0, 0)
      <4>1. Len(<<>>) = 0 OBVIOUS
      <4> QED BY <4>1 DEF UpgradeReplies
    <3>2. open'[c] = FALSE /\ farSent'[c] = 0
      BY <1>1, <1>4 DEF Typing
    <3> QED BY <2>2, <2>8, <3>1, <3>2 DEF Upgrading
  <2>10. UpgradeInv(c)'
    BY <1>3, <1>5, <2>3, <2>7, <2>9 DEF UpgradeInv, Secure
  <2>11. farSent'[c] <= Len(FarData) BY <1>1 DEF FarInv
  <2> QED BY <2>2, <2>10, <2>11 DEF FarInv, Early, SocksStages
<1> QED BY <1>6, <1>7 DEF TlsConnect

LEMMA FarDown ==
  ASSUME Typing, NEW c \in Conns, NearInv(c), FarInv(c), Down(c)
  PROVE  FarInv(c)'
<1> DEFINE out == SubSeq(nearOut[c], Socks(c) + 1, Len(nearOut[c]))
<1>1. /\ stage[c] = "relay" /\ stage'[c] = "relay" /\ SameCase(c)
      /\ farSent'[c] = farSent[c] /\ asked'[c] = asked[c]
  BY DEF Down, SameCase, nameVars
<1>2. /\ nearOut[c] \in Seq(Words) /\ farBuf[c] \in Seq(Words) /\ farIn[c] \in Seq(Words)
      /\ Socks(c) \in Nat /\ Socks(c) <= Len(nearOut[c])
  BY <1>1 DEF Typing, NearInv, Socks
<1>3. out \o farBuf[c] \o farIn[c] = SubSeq(FarData, 1, farSent[c])
  BY <1>1 DEF FarInv, RelayInv
<1>4. PICK w \in Words, b \in Seq(Words), i \in Seq(Words) :
        /\ nearOut' = [nearOut EXCEPT ![c] = Append(nearOut[c], w)]
        /\ farBuf'[c] = b /\ farIn'[c] = i
        /\ Append(out, w) \o b \o i = out \o farBuf[c] \o farIn[c]
  <2>1. out \in Seq(Words)
    <3>1. \A k \in Nat, s \in Seq(Words) : SubSeq(s, k + 1, Len(s)) \in Seq(Words)
      OBVIOUS
    <3> QED BY <1>2, <3>1
  <2> HIDE DEF out
  <2>2. \A s \in Seq(Words), t \in Seq(Words) : t # <<>> =>
          /\ Append(s, Head(t)) \o Tail(t) = s \o t
          /\ Head(t) \in Words /\ Tail(t) \in Seq(Words)
    BY HeadMoves, TailIsRest
  <2>3. CASE /\ farBuf[c] # <<>>
             /\ nearOut' = [nearOut EXCEPT ![c] = Append(nearOut[c], Head(farBuf[c]))]
             /\ farBuf' = [farBuf EXCEPT ![c] = Tail(farBuf[c])] /\ UNCHANGED farIn
    <3>1. Append(out, Head(farBuf[c])) \o Tail(farBuf[c]) = out \o farBuf[c]
          /\ Head(farBuf[c]) \in Words /\ Tail(farBuf[c]) \in Seq(Words)
      BY <1>2, <2>1, <2>2, <2>3
    <3>2. farBuf'[c] = Tail(farBuf[c]) /\ farIn'[c] = farIn[c]
      BY <2>3 DEF Typing
    <3> QED BY <1>2, <2>3, <3>1, <3>2
  <2>4. CASE /\ farBuf[c] = <<>> /\ farIn[c] # <<>>
             /\ nearOut' = [nearOut EXCEPT ![c] = Append(nearOut[c], Head(farIn[c]))]
             /\ farIn' = [farIn EXCEPT ![c] = Tail(farIn[c])] /\ UNCHANGED farBuf
    <3>1. Append(out, Head(farIn[c])) \o Tail(farIn[c]) = out \o farIn[c]
          /\ Head(farIn[c]) \in Words /\ Tail(farIn[c]) \in Seq(Words)
      BY <1>2, <2>1, <2>2, <2>4
    <3>2. farIn'[c] = Tail(farIn[c]) /\ farBuf'[c] = farBuf[c]
      BY <2>4 DEF Typing
    <3>3. \A s \in Seq(Words) : s \o <<>> = s BY EmptyConcat
    <3>4. \A w \in Words : Append(out, w) \in Seq(Words) BY <2>1
    <3>5. Append(out, Head(farIn[c])) \o <<>> = Append(out, Head(farIn[c]))
          /\ out \o <<>> = out
      BY <2>1, <3>1, <3>3, <3>4
    <3> QED BY <1>2, <2>4, <3>1, <3>2, <3>5
  <2> QED BY <2>3, <2>4 DEF Down
<1>5. nearOut'[c] = Append(nearOut[c], w)
  BY <1>4 DEF Typing
<1>6. SubSeq(nearOut'[c], Socks(c) + 1, Len(nearOut'[c])) = Append(out, w)
  <2>1. \A s \in Seq(Words), k \in Nat, x \in Words : k <= Len(s) =>
          SubSeq(Append(s, x), k + 1, Len(Append(s, x)))
            = Append(SubSeq(s, k + 1, Len(s)), x)
    <3>1. ASSUME NEW s \in Seq(Words), NEW k \in Nat, NEW x \in Words, k <= Len(s)
          PROVE  SubSeq(Append(s, x), k + 1, Len(Append(s, x)))
                   = Append(SubSeq(s, k + 1, Len(s)), x)
      <4> DEFINE q == Append(s, x)
      <4>1. q \in Seq(Words) /\ Len(q) = Len(s) + 1 /\ q[Len(s) + 1] = x /\ Len(s) \in Nat
        OBVIOUS
      <4>2. SubSeq(q, k + 1, Len(s)) = SubSeq(s, k + 1, Len(s))
        OBVIOUS
      <4> HIDE DEF q
      <4>3. SubSeq(q, k + 1, Len(s) + 1) = Append(SubSeq(q, k + 1, Len(s)), q[Len(s) + 1])
        <5>1. \A n \in Nat : k <= n /\ n < Len(q) =>
                SubSeq(q, k + 1, n + 1) = Append(SubSeq(q, k + 1, n), q[n + 1])
          BY <4>1, SliceGrows
        <5>2. Len(s) < Len(q) /\ Len(s) \in Nat BY <4>1
        <5> QED BY <3>1, <5>1, <5>2
      <4>4. SubSeq(q, k + 1, Len(q)) = Append(SubSeq(s, k + 1, Len(s)), x)
        BY <4>1, <4>2, <4>3
      <4> QED BY <4>4 DEF q
    <3> QED BY <3>1
  <2>2. nearOut[c] \in Seq(Words) /\ Socks(c) \in Nat /\ w \in Words
        /\ Socks(c) <= Len(nearOut[c])
    BY <1>2
  <2>3. SubSeq(Append(nearOut[c], w), Socks(c) + 1, Len(Append(nearOut[c], w)))
          = Append(SubSeq(nearOut[c], Socks(c) + 1, Len(nearOut[c])), w)
    BY <2>1, <2>2, Zenon
  <2> QED BY <1>5, <2>3
<1> HIDE DEF out
<1>7. SubSeq(nearOut'[c], Socks(c)' + 1, Len(nearOut'[c])) \o farBuf'[c] \o farIn'[c]
        = SubSeq(FarData, 1, farSent'[c])
  <2>1. Socks(c)' = Socks(c) BY <1>1, CaseKept
  <2> QED BY <1>1, <1>3, <1>4, <1>6, <2>1
<1>8. RelayInv(c)'
  BY <1>1, <1>7, CaseKept DEF FarInv, RelayInv
<1> QED BY <1>1, <1>8 DEF FarInv, Early, SocksStages

LEMMA FarStep ==
  ASSUME Typing, Typing', NEW c \in Conns, NearInv(c), FarInv(c), Step(c)
  PROVE  FarInv(c)'
<1>1. CASE Accept(c) \/ SocksRead(c) \/ SocksEof(c) \/ TimesOut(c)
  BY <1>1, FarAccepts
<1>2. CASE NegotiateEof(c) \/ DialEof(c)
  <2>1. stage'[c] = "ended" BY <1>2, EndedStage DEF NegotiateEof, DialEof
  <2>2. farSent'[c] = farSent[c] BY <1>2 DEF NegotiateEof, DialEof, farVars
  <2> QED BY <2>1, <2>2, FarEnded
<1>3. CASE NearSends(c) \/ NearCloses(c) \/ FarCloses(c) \/ Up(c)
  <2>1. KeptFar(c) /\ KeptName(c) /\ kase'[c] = kase[c] /\ stage'[c] = stage[c]
        /\ nearOut'[c] = nearOut[c]
    BY <1>3 DEF NearSends, NearCloses, FarCloses, Up, KeptFar, KeptName, nearVars,
                farVars, nameVars
  <2> QED BY <2>1, FarKept
<1>4. CASE FarAnswers(c)
  <2>1. stage[c] \in {"negotiate", "tls", "upgrade"} BY <1>4 DEF FarAnswers, Answers
  <2>2. stage[c] = "negotiate" => kase[c] \in Cases BY DEF NearInv
  <2> QED BY <1>4, <2>1, <2>2, NegotiateAnswers, TlsAnswers, UpgradeAnswers
<1>5. CASE FarInterim(c) BY <1>5, UpgradeAnswers DEF FarInterim
<1>6. CASE FarSends(c) BY <1>6, SendsKeep
<1>7. CASE Connect(c) BY <1>7, FarConnects
<1>8. CASE Negotiate(c) BY <1>8, FarNegotiates
<1>9. CASE TlsConnect(c) BY <1>9, FarVerifies
<1>10. CASE FillHead(c) BY <1>10, HeadFills
<1>11. CASE ReadHead(c) BY <1>11, HeadReads
<1>12. CASE Down(c) BY <1>12, FarDown
<1>13. CASE Release(c)
  <2>1. stage'[c] = "idle" /\ Unasked(c)' BY <1>13 DEF Release, Typing, Unasked
  <2>2. farSent'[c] = 0 /\ 0 <= Len(FarData)
    BY <2>1, DataAssumption DEF Unasked
  <2> QED BY <2>1, <2>2 DEF FarInv, Early, SocksStages
<1> QED BY <1>1, <1>2, <1>3, <1>4, <1>5, <1>6, <1>7, <1>8, <1>9, <1>10, <1>11,
           <1>12, <1>13 DEF Step, Handler, Environment

-----------------------------------------------------------------------------
(* What tor was told. *)

Plain == Replies \ {"succeeded"}

\* The handler answers otherwise only when it relays, or it is gone.
LEMMA Answered ==
  ASSUME Typing, NEW c \in Conns, Step(c), stage'[c] \notin {"relay", "idle"}
  PROVE  /\ stage[c] # "relay"
         /\ \/ nearOut'[c] = nearOut[c]
            \/ \E w \in Plain : nearOut'[c] = Append(nearOut[c], w)
<1>1. \A w \in Plain \cup {""} : End(c, w) =>
        \/ nearOut'[c] = nearOut[c]
        \/ \E v \in Plain : nearOut'[c] = Append(nearOut[c], v)
  BY DEF End, Typing
<1>2. \A w \in Plain : \A st : Say(c, w, st) =>
        \E v \in Plain : nearOut'[c] = Append(nearOut[c], v)
  BY DEF Say, Typing
<1>3. /\ "method 0" \in Plain /\ "method 2" \in Plain /\ "method 255" \in Plain
      /\ "auth ok" \in Plain /\ "auth failed" \in Plain /\ "general failure" \in Plain
      /\ "command not supported" \in Plain /\ "address not supported" \in Plain
  BY DEF Plain, Replies
<1> DEFINE Good == \/ nearOut'[c] = nearOut[c]
                   \/ \E w \in Plain : nearOut'[c] = Append(nearOut[c], w)
<1>4. Failed(c) => Good
  BY <1>1, <1>3 DEF Failed
<1>5. CASE Accept(c) \/ Environment(c)
  <2>1. stage[c] # "relay" /\ nearOut'[c] = nearOut[c]
    <3>1. CASE Accept(c) BY <3>1 DEF Accept, nearVars
    <3>2. CASE Environment(c)
      BY <3>2 DEF Environment, NearSends, NearCloses, FarAnswers, FarInterim, FarSends,
                  FarCloses, nearVars
    <3> QED BY <1>5, <3>1, <3>2
  <2> QED BY <2>1
<1>6. CASE TimesOut(c) \/ SocksEof(c)
  <2>1. \E w \in Plain \cup {""} : End(c, w)
    BY <1>3, <1>6 DEF TimesOut, SocksEof
  <2>2. stage[c] # "relay" BY <1>6 DEF TimesOut, Timed, SocksEof, SocksStages
  <2> QED BY <1>1, <2>1, <2>2
<1>7. CASE SocksRead(c)
  <2>1. PICK n : Greeting(c, n) \/ Auth(c, n) \/ Command(c, n)
    BY <1>7 DEF SocksRead
  <2>2. stage[c] # "relay" BY <2>1 DEF Greeting, Auth, Command
  <2>3. CASE Greeting(c, n) BY <1>1, <1>2, <1>3, <2>2, <2>3 DEF Greeting
  <2>4. CASE Auth(c, n) BY <1>1, <1>2, <1>3, <2>2, <2>4 DEF Auth
  <2>5. CASE Command(c, n) BY <1>1, <1>3, <2>2, <2>5 DEF Command
  <2> QED BY <2>1, <2>3, <2>4, <2>5
<1>8. CASE Connect(c) \/ Negotiate(c)
  <2>1. stage[c] # "relay" BY <1>8 DEF Connect, Negotiate
  <2>2. Failed(c) \/ nearOut'[c] = nearOut[c] \/ Through(c)
    BY <1>8 DEF Connect, Negotiate
  <2>3. Through(c) => Failed(c) \/ nearOut'[c] = nearOut[c]
    BY PrepareCases DEF Through
  <2> QED BY <1>4, <2>1, <2>2, <2>3
<1>9. CASE NegotiateEof(c) \/ DialEof(c) \/ TlsConnect(c)
  BY <1>4, <1>9 DEF NegotiateEof, DialEof, TlsConnect
<1>10. CASE ReadHead(c)
  <2>1. ~Say(c, "succeeded", "relay") BY DEF Say, Typing
  <2> QED BY <1>4, <1>10, <2>1 DEF ReadHead
<1>11. CASE FillHead(c) BY <1>11 DEF FillHead, nearVars
<1>12. CASE Down(c) \/ Up(c) BY <1>12 DEF Down, Up
<1>13. CASE Release(c) BY <1>13 DEF Release, Typing
<1> QED BY <1>5, <1>6, <1>7, <1>8, <1>9, <1>10, <1>11, <1>12, <1>13
        DEF Step, Handler

LEMMA UnsaidStep ==
  ASSUME Typing, NEW c \in Conns, NearInv(c)', Unsaid(c), Step(c)
  PROVE  Unsaid(c)'
<1>1. CASE stage'[c] = "relay" BY <1>1 DEF Unsaid
<1>2. CASE stage'[c] = "idle"
  <2>1. nearOut'[c] = <<>> BY <1>2 DEF NearInv, Fresh
  <2>2. ToSet(<<>>) = {} BY DEF ToSet
  <2> QED BY <2>1, <2>2 DEF Unsaid
<1>3. CASE stage'[c] \notin {"relay", "idle"}
  <2>1. /\ stage[c] # "relay"
        /\ \/ nearOut'[c] = nearOut[c]
           \/ \E w \in Plain : nearOut'[c] = Append(nearOut[c], w)
    BY <1>3, Answered
  <2>2. \A s \in Seq(Words), x \in Words :
          \A v : v \in ToSet(Append(s, x)) <=> v \in ToSet(s) \/ v = x
    BY ToSetAppend
  <2>3. nearOut[c] \in Seq(Words) /\ Plain \subseteq Words
    BY DEF Typing, Words, Plain
  <2>4. "succeeded" \notin Plain BY DEF Plain
  <2> QED BY <2>1, <2>2, <2>3, <2>4 DEF Unsaid
<1> QED BY <1>1, <1>2, <1>3

-----------------------------------------------------------------------------
(* The generators of server names. *)

\* The first use of a generator settles where it is.
Settles(s) ==
  /\ \E p \in Positions(s) : position' = [position EXCEPT ![s] = p]
  /\ UNCHANGED advances
Advances(s) ==
  /\ Names[s] # <<>>
  /\ position' = [position EXCEPT ![s] = (position[s] % Len(Names[s])) + 1]
  /\ advances' = [advances EXCEPT ![s] = advances[s] + 1]

\* A dial is over, its name failed and it is still the generator's.
Rerolls(c) ==
  /\ stage[c] \in {"tls", "upgrade"} /\ stage'[c] = "ended"
  /\ name[c] = Names[SpecOf(Line(c))][position[SpecOf(Line(c))]]
  /\ Advances(SpecOf(Line(c)))

LEMMA GeneratorSteps ==
  ASSUME Typing, NEW c \in Conns, Step(c)
  PROVE  \/ UNCHANGED <<position, advances>>
         \/ \E s \in Specs : Settles(s)
         \/ Rerolls(c)
<1>1. CASE Failed(c) /\ Reroll(c) /\ stage[c] \in {"tls", "upgrade"}
  BY <1>1, EndedStage DEF Reroll, Rerolls, Advances
<1>2. Through(c) => UNCHANGED <<position, advances>> \/ \E s \in Specs : Settles(s)
  <2> SUFFICES ASSUME Through(c)
               PROVE  UNCHANGED <<position, advances>> \/ \E s \in Specs : Settles(s)
    OBVIOUS
  <2>1. CASE FromBridge(c) BY <2>1 DEF Through, nameVars
  <2>2. CASE Prepare(c) BY <2>2, PrepareCases DEF Settles, nameVars
  <2> QED BY <2>1, <2>2 DEF Through
<1>3. CASE Connect(c) BY <1>2, <1>3 DEF Connect, nameVars
<1>4. CASE Negotiate(c) BY <1>2, <1>4 DEF Negotiate, nameVars
<1>5. CASE TlsConnect(c) BY <1>1, <1>5 DEF TlsConnect
<1>6. CASE ReadHead(c) BY <1>1, <1>6 DEF ReadHead
<1>7. CASE DialEof(c) BY <1>1, <1>7 DEF DialEof
<1>8. CASE Accept(c) \/ TimesOut(c) \/ SocksRead(c) \/ SocksEof(c) \/ NegotiateEof(c)
           \/ FillHead(c) \/ Down(c) \/ Up(c) \/ Release(c)
  BY <1>8 DEF Accept, TimesOut, SocksRead, SocksEof, NegotiateEof, FillHead, Down, Up,
              Release, nameVars
<1>9. CASE Environment(c)
  BY <1>9 DEF Environment, NearSends, NearCloses, FarAnswers, FarInterim, FarSends,
              FarCloses, nameVars
<1> QED BY <1>3, <1>4, <1>5, <1>6, <1>7, <1>8, <1>9 DEF Step, Handler

\* The next place of a generator.
LEMMA NextPlace ==
  ASSUME NEW L \in Nat, L > 0, NEW x \in Nat, x <= L
  PROVE  /\ (x % L) + 1 \in Nat /\ (x % L) + 1 <= L /\ (x % L) + 1 >= 1
         /\ x < L => (x % L) + 1 = x + 1
         /\ x = L => (x % L) + 1 = 1
<1>1. x % L \in 0 .. L - 1 OBVIOUS
<1>2. CASE x < L
  <2>1. x % L = x BY <1>2
  <2> QED BY <1>2, <2>1
<1>3. CASE x = L
  <2>1. L % L = 0 OBVIOUS
  <2> QED BY <1>1, <1>3, <2>1
<1> QED BY <1>2, <1>3

LEMMA PositionedStep ==
  ASSUME Typing, Positioned, NEW c \in Conns, NameInv(c), Step(c)
  PROVE  Positioned'
<1>1. CASE UNCHANGED <<position, advances>> BY <1>1 DEF Positioned
<1>2. ASSUME NEW s \in Specs, Settles(s) PROVE Positioned'
  <2>1. PICK p \in Positions(s) : position' = [position EXCEPT ![s] = p]
    BY <1>2 DEF Settles
  <2>2. p <= Len(Names[s]) BY PositionsOf
  <2>3. position'[s] = p /\ \A t \in Specs : t # s => position'[t] = position[t]
    BY <2>1 DEF Typing
  <2> QED BY <2>2, <2>3 DEF Positioned
<1>3. CASE Rerolls(c)
  <2> DEFINE s == SpecOf(Line(c))
  <2>1. s \in Specs BY <1>3 DEF NameInv, Rerolls
  <2>2. /\ Len(Names[s]) \in Nat /\ Len(Names[s]) > 0 /\ position[s] \in Nat
        /\ position[s] <= Len(Names[s])
    BY <1>3, <2>1, NamesOf DEF Rerolls, Advances, Typing, Positioned
  <2> HIDE DEF s
  <2>3. (position[s] % Len(Names[s])) + 1 <= Len(Names[s])
    BY <2>2, NextPlace
  <2>4. /\ position'[s] = (position[s] % Len(Names[s])) + 1
        /\ \A t \in Specs : t # s => position'[t] = position[t]
    BY <1>3, <2>1 DEF Rerolls, Advances, Typing, s
  <2> QED BY <2>3, <2>4 DEF Positioned
<1> QED BY <1>1, <1>2, <1>3, GeneratorSteps

\* A dial keeps its place while others move its generator.
LEMMA NameKept ==
  ASSUME Typing, Positioned, NEW d \in Conns, NameInv(d), KeptName(d),
         kase'[d] = kase[d], stage'[d] = stage[d] \/ stage'[d] \notin {"tls", "upgrade"},
         \/ UNCHANGED <<position, advances>>
         \/ \E s \in Specs : Settles(s) \/ Advances(s)
  PROVE  NameInv(d)'
<1> DEFINE s == SpecOf(Line(d))
           L == Len(Names[s])
<1>1. CASE stage'[d] \notin {"tls", "upgrade"} BY <1>1 DEF NameInv
<1>2. CASE stage'[d] = stage[d] /\ stage[d] \in {"tls", "upgrade"}
  <2>1. Line(d)' = Line(d) /\ SpecOf(Line(d))' = s /\ name'[d] = name[d] /\ given'[d] = given[d]
    BY DEF Line, KeptName, SpecOf
  <2>2. s \in Specs /\ given[d] <= advances[s]
    BY <1>2 DEF NameInv
  <2>3. CASE position'[s] = position[s] /\ advances'[s] = advances[s]
    BY <1>2, <2>1, <2>3 DEF NameInv
  <2>4. ASSUME NEW p \in Positions(s), position' = [position EXCEPT ![s] = p], UNCHANGED advances
        PROVE  NameInv(d)'
    <3>1. position'[s] = p BY <2>2, <2>4 DEF Typing
    <3>2. CASE Names[s] = <<>>
      BY <1>2, <2>1, <2>2, <2>4, <3>2 DEF NameInv
    <3>3. CASE Names[s] # <<>>
      <4>1. position[s] \in 1..L BY <1>2, <2>2, <3>3, NamesOf DEF NameInv
      <4>2. p = position[s] BY <2>2, <4>1, PositionsOf
      <4> QED BY <2>3, <2>4, <3>1, <4>2
    <3> QED BY <3>2, <3>3
  <2>5. CASE Advances(s)
    <3>1. /\ Names[s] # <<>> /\ position'[s] = (position[s] % L) + 1
          /\ advances'[s] = advances[s] + 1
      BY <2>2, <2>5 DEF Advances, Typing
    <3>2. L \in Nat /\ L > 0 /\ DOMAIN Names[s] = 1..L
      BY <2>2, <3>1, NamesOf
    <3>3. PICK p \in 1..L :
            /\ name[d] = Names[s][p]
            /\ advances[s] - given[d] < L =>
                 \/ position[s] = p + (advances[s] - given[d])
                 \/ position[s] = p + (advances[s] - given[d]) - L
      BY <1>2, <3>1, <3>2 DEF NameInv
    <3>8. given[d] \in Nat
      BY <1>2, <2>2 DEF Typing, NameInv
    <3>4. /\ position[s] \in 1..L /\ advances[s] \in Nat /\ advances'[s] \in Nat
      <4>1. position[s] \in DOMAIN Names[s] BY <1>2, <3>1 DEF NameInv
      <4>2. advances[s] \in Nat BY <2>2 DEF Typing
      <4> QED BY <3>1, <3>2, <4>1, <4>2
    <3> DEFINE k == advances[s] - given[d]
               y == (position[s] % L) + 1
    <3>5. k \in Nat /\ advances'[s] - given'[d] = k + 1
      <4>1. given[d] <= advances[s] BY <2>2
      <4>2. given'[d] = given[d] /\ advances'[s] = advances[s] + 1 BY <2>1, <3>1
      <4>3. \A m \in Nat, n \in Nat : m <= n => n - m \in Nat /\ (n + 1) - m = (n - m) + 1
        OBVIOUS
      <4>4. advances[s] \in Nat BY <3>4
      <4> HIDE DEF s
      <4> QED BY <3>8, <4>1, <4>2, <4>3, <4>4
    <3>6. /\ y \in 1..L /\ (position[s] < L => y = position[s] + 1)
          /\ (position[s] = L => y = 1)
      <4>1. \A x \in Nat : x <= L =>
              /\ (x % L) + 1 \in Nat /\ (x % L) + 1 <= L /\ (x % L) + 1 >= 1
              /\ x < L => (x % L) + 1 = x + 1
              /\ x = L => (x % L) + 1 = 1
        BY <3>2, NextPlace
      <4>2. position[s] \in Nat /\ position[s] <= L BY <3>2, <3>4
      <4> HIDE DEF s, L
      <4> QED BY <3>2, <4>1, <4>2
    <3> HIDE DEF k, y, L
    <3>7. k + 1 < L => y = p + (k + 1) \/ y = p + (k + 1) - L
      <4>1. k < L => position[s] = p + k \/ position[s] = p + k - L
        BY <3>3 DEF k
      <4>2. position[s] < L \/ position[s] = L BY <3>2, <3>4
      <4> QED BY <3>2, <3>3, <3>4, <3>5, <3>6, <4>1, <4>2
    <3>9. given'[d] <= advances'[s]
      BY <2>1, <2>2, <3>1, <3>4, <3>8
    <3>10. position'[s] \in 1..L /\ position'[s] = y BY <3>1, <3>6 DEF y, L
    <3>11. \E q \in DOMAIN Names[s] :
             /\ name'[d] = Names[s][q]
             /\ advances'[s] - given'[d] < L =>
                  \/ position'[s] = q + (advances'[s] - given'[d])
                  \/ position'[s] = q + (advances'[s] - given'[d]) - L
      BY <2>1, <3>2, <3>3, <3>5, <3>7, <3>10
    <3> QED BY <1>2, <2>1, <2>2, <3>2, <3>9, <3>10, <3>11 DEF NameInv, L
  <2>6. ASSUME NEW t \in Specs, t # s, Settles(t) \/ Advances(t)
        PROVE  NameInv(d)'
    <3>1. position'[s] = position[s] /\ advances'[s] = advances[s]
      BY <2>2, <2>6 DEF Settles, Advances, Typing
    <3> QED BY <2>3, <3>1
  <2>7. Settles(s) => NameInv(d)' BY <2>4 DEF Settles
  <2>8. UNCHANGED <<position, advances>> => NameInv(d)' BY <2>3
  <2> QED BY <2>5, <2>6, <2>7, <2>8
<1> QED BY <1>1, <1>2

\* A dial that begins is given the place where its generator is.
LEMMA NameGiven ==
  ASSUME Typing, Positioned, NEW c \in Conns, Prepare(c), kase'[c] = kase[c],
         stage[c] \in {"connect", "negotiate"}
  PROVE  NameInv(c)'
<1> DEFINE s == SpecOf(Line(c))
<1>1. CASE Failed(c)
  <2>1. stage'[c] = "ended" BY <1>1, EndedStage
  <2> QED BY <2>1 DEF NameInv
<1>2. ASSUME NEW t \in Specs, t = s, NEW p \in Positions(t), NEW n,
             n = IF p = 0 THEN "" ELSE Names[t][p],
             position' = [position EXCEPT ![t] = p], name' = [name EXCEPT ![c] = n],
             given' = [given EXCEPT ![c] = advances[t]], UNCHANGED advances
      PROVE  NameInv(c)'
  <2>1. SpecOf(Line(c))' = t
    BY <1>2 DEF Line, SpecOf
  <2>2. /\ position'[t] = p /\ given'[c] = advances[t] /\ advances'[t] = advances[t]
        /\ name'[c] = n /\ advances[t] \in Nat
    BY <1>2 DEF Typing
  <2>3. given'[c] <= advances'[t] BY <2>2
  <2>4. CASE Names[t] = <<>>
    BY <2>1, <2>3, <2>4 DEF NameInv
  <2>5. CASE Names[t] # <<>>
    <3>1. p \in DOMAIN Names[t] /\ p \in Nat BY <2>5, PositionsOf
    <3>2. p # 0 BY <3>1, NamesOf
    <3>3. n = Names[t][p] BY <1>2, <3>2
    <3>4. advances'[t] - given'[c] = 0 BY <2>2
    <3>5. p + (advances'[t] - given'[c]) = p BY <3>1, <3>4
    <3> QED BY <2>1, <2>2, <2>3, <3>1, <3>3, <3>5 DEF NameInv
  <2> QED BY <2>4, <2>5
<1>3. Failed(c) \/ \E t \in Specs : t = s /\ \E p \in Positions(t) : \E n :
        /\ n = IF p = 0 THEN "" ELSE Names[t][p]
        /\ position' = [position EXCEPT ![t] = p] /\ name' = [name EXCEPT ![c] = n]
        /\ given' = [given EXCEPT ![c] = advances[t]] /\ UNCHANGED advances
  <2>1. CASE Failed(c) BY <2>1
  <2>2. CASE /\ s \in Specs
             /\ \E p \in Positions(s) :
                  /\ position' = [position EXCEPT ![s] = p]
                  /\ name' = [name EXCEPT ![c] = IF p = 0 THEN "" ELSE Names[s][p]]
                  /\ given' = [given EXCEPT ![c] = advances[s]]
                  /\ UNCHANGED advances
    <3> PICK p \in Positions(s) :
                  /\ position' = [position EXCEPT ![s] = p]
                  /\ name' = [name EXCEPT ![c] = IF p = 0 THEN "" ELSE Names[s][p]]
                  /\ given' = [given EXCEPT ![c] = advances[s]]
                  /\ UNCHANGED advances
      BY <2>2
    <3> DEFINE n == IF p = 0 THEN "" ELSE Names[s][p]
    <3>1. name' = [name EXCEPT ![c] = n] OBVIOUS
    <3> HIDE DEF n, s
    <3> QED BY <2>2, <3>1 DEF n
  <2>3. \/ Failed(c)
        \/ /\ s \in Specs
           /\ \E p \in Positions(s) :
                /\ position' = [position EXCEPT ![s] = p]
                /\ name' = [name EXCEPT ![c] = IF p = 0 THEN "" ELSE Names[s][p]]
                /\ given' = [given EXCEPT ![c] = advances[s]]
                /\ UNCHANGED advances
    BY PrepareCases
  <2> QED BY <2>1, <2>2, <2>3
<1> HIDE DEF s
<1> QED BY <1>1, <1>2, <1>3

LEMMA NameStep ==
  ASSUME Typing, Positioned, NEW c \in Conns, Step(c), NEW d \in Conns, NameInv(d), NameInv(c)
  PROVE  NameInv(d)'
<1>1. \/ UNCHANGED <<position, advances>>
      \/ \E s \in Specs : Settles(s) \/ Advances(s)
  <2>1. Rerolls(c) => SpecOf(Line(c)) \in Specs BY DEF Rerolls, NameInv
  <2> QED BY <2>1, GeneratorSteps DEF Rerolls
<1>2. CASE d # c
  <2>1. Kept(d) BY <1>2, OthersKeep
  <2> QED BY <1>1, <2>1, NameKept DEF Kept, KeptNear
<1>3. CASE d = c /\ stage'[c] \notin {"tls", "upgrade"}
  BY <1>3 DEF NameInv
<1>4. CASE /\ d = c /\ stage'[c] = stage[c] /\ KeptName(c) /\ kase'[c] = kase[c]
  BY <1>1, <1>4, NameKept
<1>5. CASE /\ d = c /\ stage'[c] \in {"tls", "upgrade"}
  <2>1. \A w, st : Say(c, w, st) => stage'[c] = st BY DEF Say, Typing
  <2>2. \A w : End(c, w) => stage'[c] = "ended" BY EndedStage
  <2>3. ~Failed(c) BY <1>5, EndedStage
  <2>4. CASE Accept(c) \/ TimesOut(c) \/ SocksEof(c) \/ Release(c)
    <3>1. Accept(c) => stage'[c] \in {"connect", "greeting"} BY DEF Accept, Typing
    <3>2. Release(c) => stage'[c] = "idle" BY DEF Release, Typing
    <3>3. TimesOut(c) \/ SocksEof(c) => stage'[c] = "ended"
      BY <2>2 DEF TimesOut, SocksEof
    <3> QED BY <1>5, <2>4, <3>1, <3>2, <3>3
  <2>5. CASE SocksRead(c)
    <3>1. PICK n : Greeting(c, n) \/ Auth(c, n) \/ Command(c, n)
      BY <2>5 DEF SocksRead
    <3>2. ~Greeting(c, n) BY <1>5, <2>1, <2>2 DEF Greeting
    <3>3. ~Auth(c, n) BY <1>5, <2>1, <2>2 DEF Auth
    <3>4. ~Command(c, n)
      <4>1. stage' = [stage EXCEPT ![c] = "connect"] => stage'[c] = "connect"
        BY DEF Typing
      <4> QED BY <1>5, <2>2, <4>1 DEF Command
    <3> QED BY <3>1, <3>2, <3>3, <3>4
  <2>6. CASE Environment(c)
    <3>1. stage'[c] = stage[c] /\ KeptName(c) /\ kase'[c] = kase[c]
      BY <2>6 DEF Environment, NearSends, NearCloses, FarAnswers, FarInterim, FarSends,
                  FarCloses, KeptName, nameVars
    <3> QED BY <1>4, <1>5, <3>1
  <2>7. CASE Through(c) /\ stage[c] \in {"connect", "negotiate"} /\ kase'[c] = kase[c]
    <3>1. CASE FromBridge(c)
      <4>1. stage'[c] = "relay" BY <2>7, <3>1 DEF Through, Typing
      <4> QED BY <1>5, <4>1
    <3>2. CASE Prepare(c) BY <1>5, <2>7, <3>2, NameGiven
    <3> QED BY <2>7, <3>1, <3>2 DEF Through
  <2>8. CASE Connect(c)
    <3>1. stage' = [stage EXCEPT ![c] = "negotiate"] => stage'[c] = "negotiate"
      BY DEF Typing
    <3> QED BY <1>5, <2>3, <2>7, <2>8, <3>1 DEF Connect
  <2>9. CASE Negotiate(c)
    <3>1. UNCHANGED stage => stage'[c] = "negotiate"
      BY <2>9 DEF Negotiate
    <3> QED BY <1>5, <2>3, <2>7, <2>9, <3>1 DEF Negotiate
  <2>10. CASE NegotiateEof(c) \/ DialEof(c)
    BY <2>3, <2>10 DEF NegotiateEof, DialEof
  <2>11. CASE TlsConnect(c)
    <3>1. /\ UNCHANGED <<position, advances>> /\ name' = name /\ given' = given
          /\ kase' = kase /\ stage[c] = "tls"
      BY <2>3, <2>11 DEF TlsConnect
    <3>2. Line(c)' = Line(c) /\ SpecOf(Line(c))' = SpecOf(Line(c))
      BY <3>1 DEF Line, SpecOf
    <3> QED BY <1>5, <3>1, <3>2 DEF NameInv
  <2>12. CASE FillHead(c)
    BY <1>4, <1>5, <2>12 DEF FillHead, KeptName, nameVars
  <2>13. CASE ReadHead(c)
    <3>1. ~Say(c, "succeeded", "relay") BY <1>5, <2>1
    <3> QED BY <1>4, <1>5, <2>3, <2>13, <3>1 DEF ReadHead, KeptName
  <2>14. CASE Down(c) \/ Up(c)
    BY <1>5, <2>14 DEF Down, Up
  <2> QED BY <2>4, <2>5, <2>6, <2>8, <2>9, <2>10, <2>11, <2>12, <2>13, <2>14
          DEF Step, Handler
<1> QED BY <1>2, <1>3, <1>5

-----------------------------------------------------------------------------
(* The invariant, and what it shows. *)

LEMMA InitIInv == Init => Typing /\ IInv
<1> SUFFICES ASSUME Init PROVE Typing /\ IInv
  OBVIOUS
<1>1. Typing BY InitTyping
<1>2. 0 <= Len(FarData) BY DataAssumption
<1>3. ASSUME NEW c \in Conns PROVE NearInv(c) /\ FarInv(c) /\ Unsaid(c) /\ NameInv(c)
  <2>1. stage[c] = "idle" /\ Fresh(c) /\ Unasked(c)
    BY DEF Init, Fresh, Unasked
  <2>2. "succeeded" \notin ToSet(nearOut[c])
    <3>1. ToSet(<<>>) = {} BY DEF ToSet
    <3> QED BY <2>1, <3>1 DEF Fresh
  <2>3. farSent[c] <= Len(FarData) BY <1>2, <2>1 DEF Unasked
  <2> QED BY <2>1, <2>2, <2>3 DEF NearInv, FarInv, Unsaid, NameInv, SocksStages
<1>4. Positioned
  <2>1. ASSUME NEW s \in Specs PROVE position[s] <= Len(Names[s])
    <3>1. position[s] = 0 BY DEF Init
    <3>2. Len(Names[s]) \in Nat BY NamesOf
    <3> QED BY <3>1, <3>2
  <2> QED BY <2>1 DEF Positioned
<1> QED BY <1>1, <1>3, <1>4 DEF IInv

LEMMA NextIInv == Typing /\ IInv /\ [Next]_vars => Typing' /\ IInv'
<1> SUFFICES ASSUME Typing, IInv, [Next]_vars PROVE Typing' /\ IInv'
  OBVIOUS
<1>1. Typing' BY TypingStep DEF IInv
<1>2. CASE UNCHANGED vars
  <2>1. ASSUME NEW c \in Conns PROVE (NearInv(c) /\ FarInv(c) /\ Unsaid(c) /\ NameInv(c))'
    <3>1. KeptNear(c) /\ KeptFar(c) /\ KeptName(c) /\ UNCHANGED <<position, advances>>
      BY <1>2 DEF vars, nearVars, farVars, nameVars, KeptNear, KeptFar, KeptName
    <3>2. NearInv(c)' BY <3>1, NearKept DEF IInv
    <3>3. FarInv(c)' BY <3>1, FarKept DEF IInv, KeptNear
    <3>4. Unsaid(c)' BY <3>1 DEF IInv, KeptNear, Unsaid
    <3>5. NameInv(c)' BY <3>1, NameKept DEF IInv, KeptNear
    <3> QED BY <3>2, <3>3, <3>4, <3>5
  <2>2. Positioned' BY <1>2 DEF IInv, Positioned, vars, nameVars
  <2> QED BY <1>1, <2>1, <2>2 DEF IInv
<1>3. ASSUME NEW c \in Conns, Step(c) PROVE IInv'
  <2>1. ASSUME NEW d \in Conns PROVE (NearInv(d) /\ FarInv(d) /\ Unsaid(d) /\ NameInv(d))'
    <3>1. NameInv(d)' BY <1>3, NameStep DEF IInv
    <3>2. CASE d = c
      <4>1. NearInv(d)' BY <1>3, <3>2, NearStep DEF IInv
      <4>2. FarInv(d)' BY <1>1, <1>3, <3>2, FarStep DEF IInv
      <4>3. Unsaid(d)' BY <1>3, <3>2, <4>1, UnsaidStep DEF IInv
      <4> QED BY <3>1, <4>1, <4>2, <4>3
    <3>3. CASE d # c
      <4>1. Kept(d) BY <1>3, <3>3, OthersKeep
      <4>2. NearInv(d)' BY <4>1, NearKept DEF IInv, Kept
      <4>3. FarInv(d)' BY <4>1, FarKept DEF IInv, Kept, KeptNear
      <4>4. Unsaid(d)' BY <4>1 DEF IInv, Kept, KeptNear, Unsaid
      <4> QED BY <3>1, <4>2, <4>3, <4>4
    <3> QED BY <3>2, <3>3
  <2>2. Positioned' BY <1>3, PositionedStep DEF IInv
  <2> QED BY <2>1, <2>2 DEF IInv
<1> QED BY <1>1, <1>2, <1>3 DEF Next, Step

\* What is written, read and counted stays in its range, whatever the two
\* ends send and however the handlers interleave.
THEOREM TunnelInvariant == Spec => [](Typing /\ IInv)
  BY InitIInv, NextIInv, PTL DEF Spec

LEMMA WholeHolds == Typing /\ IInv => TunnelWhole
<1> SUFFICES ASSUME Typing, IInv, NEW c \in Conns, stage[c] = "relay"
             PROVE  /\ SubSeq(nearOut[c], Socks(c) + 1, Len(nearOut[c])) \o farBuf[c] \o farIn[c]
                         = SubSeq(FarData, 1, farSent[c])
                    /\ farOut[c] \o nearIn[c]
                         = SubSeq(kase[c].script, Socks(c) + 1, nearSent[c])
  BY DEF TunnelWhole
<1>1. NearInv(c) /\ RelayInv(c) BY DEF IInv, FarInv
<1>2. Taken(c) = Socks(c) BY DEF Taken
<1> QED BY <1>1, <1>2 DEF NearInv, RelayInv

LEMMA RealHolds == Typing /\ IInv => TunnelReal
<1> SUFFICES ASSUME Typing, IInv, NEW c \in Conns,
                    stage[c] = "relay" \/ "succeeded" \in ToSet(nearOut[c])
             PROVE  \E s \in Accepting(Route(c)) :
                      LET tls == ~FromBridge(c) /\ Line(c).url = "https"
                          from == IF tls THEN Len(s) + 1 ELSE Len(s)
                          last == Len(heard[c]) IN
                      /\ IsPrefix(s, heard[c])
                      /\ tls => last >= from /\ heard[c][from] \in Trusted(Line(c), name[c])
                      /\ IF FromBridge(c) THEN last = from
                         ELSE /\ last > from /\ heard[c][last] = "101"
                              /\ \A i \in from + 1 .. last - 1 : heard[c][i] = "100"
  BY DEF TunnelReal
<1>1. stage[c] = "relay" /\ RelayInv(c)
  BY DEF IInv, Unsaid, FarInv
<1>2. PICK s \in Accepting(Route(c)) : Agreed(c, s)
  BY <1>1 DEF RelayInv
<1>3. Trusting(c, s) /\ Hops(c, s) = (IF Secure(c) THEN Len(s) + 1 ELSE Len(s))
  BY <1>2 DEF Agreed, Hops
<1>4. FromBridge(c) => ~Secure(c) BY DEF Secure
<1>5. Len(heard[c]) \in Nat /\ Len(s) \in Nat
  <2>1. s \in Seq(Words) BY Exchanges
  <2> QED BY <2>1, PendingFacts
<1>6. /\ IsPrefix(s, heard[c])
      /\ Secure(c) => /\ Len(heard[c]) >= Len(s) + 1
                      /\ heard[c][Len(s) + 1] \in Trusted(Line(c), name[c])
  BY <1>3, <1>5 DEF Trusting
<1>7. CASE FromBridge(c)
  BY <1>2, <1>4, <1>6, <1>7 DEF Agreed, Secure
<1>8. CASE ~FromBridge(c) /\ Secure(c)
  BY <1>2, <1>3, <1>6, <1>8 DEF Agreed, Secure
<1>9. CASE ~FromBridge(c) /\ ~Secure(c)
  BY <1>2, <1>3, <1>6, <1>9 DEF Agreed, Secure
<1> QED BY <1>7, <1>8, <1>9

\* However the first messages of a tunnel arrive, pipelined behind the SOCKS
\* request (socks5.rs) or behind the reply to the upgrade (transport.rs),
\* none is lost, repeated or reordered.
THEOREM TunnelKeepsWhole == Spec => []TunnelWhole
  BY TunnelInvariant, WholeHolds, PTL

\* Tor hears Succeeded, and a tunnel relays, only after every hop has agreed
\* and the bridge has shown a certificate that the bridge line trusts.
THEOREM TunnelIsReal == Spec => []TunnelReal
  BY TunnelInvariant, RealHolds, PTL

LEMMA AdvanceStep ==
  ASSUME Typing, IInv, NEW c \in Conns, Step(c), NEW s \in Specs, Distinct(s),
         advances'[s] # advances[s]
  PROVE  /\ advances'[s] = advances[s] + 1
         /\ stage[c] \in {"tls", "upgrade"} /\ stage'[c] = "ended"
         /\ SpecOf(Line(c)) = s
         /\ given[c] = advances[s] \/ advances[s] - given[c] >= Len(Names[s])
<1>1. Rerolls(c)
  BY GeneratorSteps DEF Settles
<1>2. SpecOf(Line(c)) = s /\ advances'[s] = advances[s] + 1 /\ Names[s] # <<>>
      /\ name[c] = Names[s][position[s]]
  BY <1>1 DEF Rerolls, Advances, Typing
<1>3. NameInv(c) /\ stage[c] \in {"tls", "upgrade"} /\ stage'[c] = "ended"
  BY <1>1 DEF IInv, Rerolls
<1> DEFINE L == Len(Names[s])
           k == advances[s] - given[c]
<1>4. L \in Nat /\ DOMAIN Names[s] = 1..L
  BY NamesOf
<1>5. PICK p \in 1..L :
        /\ name[c] = Names[s][p]
        /\ k < L => position[s] = p + k \/ position[s] = p + k - L
  BY <1>2, <1>3, <1>4 DEF NameInv
<1>6. position[s] \in 1..L /\ given[c] <= advances[s]
  BY <1>2, <1>3, <1>4 DEF NameInv
<1>7. given[c] \in Nat /\ advances[s] \in Nat
  BY DEF Typing
<1>8. position[s] = p
  BY <1>2, <1>4, <1>5, <1>6 DEF Distinct
<1>9. k < L => k = 0
  <2> HIDE DEF L
  <2>1. k \in Nat BY <1>6, <1>7
  <2> HIDE DEF k
  <2> QED BY <1>4, <1>5, <1>8, <2>1
<1>10. given[c] = advances[s] \/ k >= L
  <2> HIDE DEF L
  <2> QED BY <1>4, <1>6, <1>7, <1>9
<1> QED BY <1>2, <1>3, <1>10

\* However many dials use a generator when its name fails, the generator
\* moves by one for them all (reroll_if_unchanged, servername.rs).
THEOREM GeneratorAdvancesOnce == Spec => AdvanceOnce
<1>1. Typing /\ IInv /\ [Next]_vars =>
        [\A s \in Specs : Distinct(s) /\ advances'[s] # advances[s] =>
           /\ advances'[s] = advances[s] + 1
           /\ \E c \in Conns :
                /\ stage[c] \in {"tls", "upgrade"} /\ stage'[c] = "ended"
                /\ SpecOf(Line(c)) = s
                /\ \/ given[c] = advances[s]
                   \/ advances[s] - given[c] >= Len(Names[s])]_vars
  <2> SUFFICES ASSUME Typing, IInv, NEW c \in Conns, Step(c), NEW s \in Specs, Distinct(s),
                      advances'[s] # advances[s]
               PROVE  /\ advances'[s] = advances[s] + 1
                      /\ \E d \in Conns :
                           /\ stage[d] \in {"tls", "upgrade"} /\ stage'[d] = "ended"
                           /\ SpecOf(Line(d)) = s
                           /\ \/ given[d] = advances[s]
                              \/ advances[s] - given[d] >= Len(Names[s])
    BY DEF Next, Step
  <2> QED BY AdvanceStep
<1> QED BY <1>1, TunnelInvariant, PTL DEF Spec, AdvanceOnce
=============================================================================
