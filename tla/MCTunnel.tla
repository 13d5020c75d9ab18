------------------------------ MODULE MCTunnel ------------------------------
(***************************************************************************)
(* A plan is one connection, which varies the SOCKS messages, the route or  *)
(* the bridge line, or three connections in two places that share a list of *)
(* two names: a slow dial sees the generator go all the way round.          *)
(***************************************************************************)
EXTENDS Tunnel

CONSTANTS c1, c2

NamesDef == [s \in Specs |-> CASE s = "a,b" -> <<"a", "b">>
                               [] s = "a,?" -> <<"a", "?">>
                               [] s \in {"blank", ""} -> <<>>
                               [] OTHER -> <<s>>]

CertNamesDef == [k \in Certs |-> CASE k = "cert a" -> {"a"}
                                   [] k = "cert host" -> {"host"}
                                   [] OTHER -> {}]

PlainLine == [url |-> "http", servername |-> Absent, imitation |-> Absent,
              certdomain |-> Absent, utls |-> "none", pin |-> ""]
TlsLine == [PlainLine EXCEPT !.url = "https", !.utls = "default"]

GoodLines ==
  {[TlsLine EXCEPT !.servername = "a,b"],
   [TlsLine EXCEPT !.servername = "a,b", !.imitation = "x"],
   [TlsLine EXCEPT !.servername = "a,?"],
   [TlsLine EXCEPT !.imitation = "a", !.certdomain = ""],
   [TlsLine EXCEPT !.servername = "blank", !.pin = "cert self"]}

BadLines ==
  {[PlainLine EXCEPT !.url = "ftp"],
   [TlsLine EXCEPT !.servername = ","],
   [TlsLine EXCEPT !.servername = "blank"],
   [TlsLine EXCEPT !.servername = ""],
   [TlsLine EXCEPT !.certdomain = "?"],
   [TlsLine EXCEPT !.certdomain = "*"]}

Short == <<"noauth", "connect">>
Scripts ==
  {<<"userpass", "args", "connect", "n1">>, <<"noauth", "connect", "n1">>,
   <<"userpass", "bad args">>, <<"gssapi">>, <<"noauth", "bind">>}

AllCases ==
       [script : Scripts, route : {"direct"}, line : {PlainLine}]
  \cup [script : {Short}, route : {"direct"}, line : GoodLines \cup BadLines]
  \cup [script : {Short}, route : {"http", "socks4", "socks5", "socks5 user"},
        line : {PlainLine, TlsLine}]
  \cup [script : {<<"n1">>}, route : {"or", "extor"}, line : {PlainLine}]

Rotating == [script |-> Short, route |-> "direct",
             line |-> [TlsLine EXCEPT !.servername = "a,b"]]
PlansDef ==
       {[c \in Conns |-> IF c = c1 THEN <<k>> ELSE <<>>] : k \in AllCases}
  \cup {[c \in Conns |-> IF c = c1 THEN <<Rotating>> ELSE <<Rotating, Rotating>>]}

MessagesDef == {"userpass", "noauth", "gssapi", "args", "bad args", "connect",
                "bind", "n1", "f1", "f2"}
FarDataDef == <<"f1", "f2">>
=============================================================================
