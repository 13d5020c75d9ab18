----------------------------- MODULE HttpClient -----------------------------
(***************************************************************************)
(* The HTTP client of the brokers (httpc.rs) on the message format of       *)
(* http.rs: one request at a time, one idle connection kept for the next,    *)
(* and a second attempt on a new connection when the idle one was dead.      *)
(*                                                                         *)
(* The server answers, interim responses first or not, sends the body with   *)
(* the head or later, closes or resets the connection at any point, and may   *)
(* say something on a connection that is idle.  A piece of a response is one  *)
(* value; a read takes any number of the pieces that arrived.                *)
(***************************************************************************)
EXTENDS Naturals, Sequences

CONSTANTS
  Framings      \* how the server may delimit a body, a subset of AllFramings

\* A body with its length or in chunks, none, up to the end of the
\* connection, with "Connection: close", and one that passes the read limit.
AllFramings == {"sized", "none", "until eof", "sized, close", "long"}
ASSUME FramingsAssumption == Framings \subseteq AllFramings

VARIABLES
  http,         \* where round_trip is
  trip,         \* the number of the round trip
  sends,        \* how often its request was written
  answered,     \* a part of a final response to it was read
  fresh,        \* the connection in hand is a new one: no second attempt
  head,         \* the response head that was read
  result,       \* what the last round trip returned
  pooled,       \* the connection is in the `idle` place
  req,          \* the request the server has to answer, 0 for none
  owes,         \* the head of the response whose body the server still owes
  in,           \* pieces under way to the client
  rbuf,         \* pieces read, not used yet
  line,         \* "up", "eof" or "reset": what the client will find after `in`
  junk          \* bound: interim and unsolicited responses and resets left

clientVars == <<http, trip, sends, answered, fresh, head, result, pooled>>
connVars == <<req, owes, in, rbuf, line, junk>>
httpVars == <<clientVars, connVars>>

NoHead == [kind |-> "no head"]
Failure == [ok |-> FALSE, of |-> 0, status |-> "none", truncated |-> FALSE, whole |-> FALSE]
Interim == [kind |-> "interim"]
Half == [kind |-> "half a head"]
Body(r) == [kind |-> "body", of |-> r]
HeadOf(r, status, framing) ==
  [kind |-> "head", of |-> r, status |-> status, framing |-> framing]
Junk == HeadOf(0, "408", "none, close")

-----------------------------------------------------------------------------
(***************************************************************************)
(* The server's end of the connection.                                      *)
(***************************************************************************)
Quiet == UNCHANGED clientVars

ServerInterim ==
  /\ req # 0 /\ line = "up" /\ in = <<>>
  /\ junk > 0 /\ junk' = junk - 1
  /\ in' = <<Interim>> /\ UNCHANGED <<req, owes, rbuf, line>> /\ Quiet

ServerAnswers ==
  /\ req # 0 /\ line = "up"
  /\ \E status \in {"200", "500"}, framing \in Framings :
       LET h == HeadOf(req, status, framing) IN
       /\ in' = Append(in, h)
       /\ owes' = IF framing = "none" THEN NoHead ELSE h
  /\ req' = 0 /\ UNCHANGED <<rbuf, line, junk>> /\ Quiet

\* The body, and perhaps more bytes than the head announced, which read as a
\* response; "until eof" and "close" end the connection after it.
ServerBody ==
  /\ owes # NoHead /\ line = "up"
  /\ \/ in' = Append(in, Body(owes.of)) /\ UNCHANGED junk
     \/ /\ owes.framing = "sized" /\ junk > 0 /\ junk' = junk - 1
        /\ in' = in \o <<Body(owes.of), HeadOf(owes.of, "200", "none")>>
  /\ owes' = NoHead
  /\ line' = IF owes.framing \in {"until eof", "sized, close"} THEN "eof" ELSE "up"
  /\ UNCHANGED <<req, rbuf>> /\ Quiet

\* The server goes away, perhaps in the middle of a head.
ServerCloses ==
  /\ line = "up"
  /\ \/ in' = in
     \/ req # 0 /\ in' = Append(in, Half)
  /\ line' = "eof" /\ req' = 0 /\ owes' = NoHead
  /\ UNCHANGED <<rbuf, junk>> /\ Quiet

ServerResets ==
  /\ line = "up" /\ junk > 0 /\ junk' = junk - 1
  /\ line' = "reset" /\ req' = 0 /\ owes' = NoHead
  /\ UNCHANGED <<in, rbuf>> /\ Quiet

\* A response to no request, as servers send when they give up waiting; the
\* connection ends with it.
ServerSpeaks ==
  /\ line = "up" /\ req = 0 /\ owes = NoHead /\ junk > 0
  /\ in' = Append(in, Junk) /\ line' = "eof" /\ junk' = junk - 1
  /\ UNCHANGED <<req, owes, rbuf>> /\ Quiet

Server == ServerInterim \/ ServerAnswers \/ ServerBody \/ ServerCloses
          \/ ServerResets \/ ServerSpeaks

-----------------------------------------------------------------------------
(***************************************************************************)
(* round_trip                                                               *)
(***************************************************************************)
\* Dropping a connection: what the server still sends goes nowhere.
Dropped ==
  /\ req' = 0 /\ owes' = NoHead /\ in' = <<>> /\ rbuf' = <<>> /\ line' = "none"
  /\ UNCHANGED junk

\* The round trip returns; the connection is dropped or kept.
Return(r) == http' = "rest" /\ result' = r

\* still_open: a read that would not block finds nothing, not even the end.
StillOpen == in = <<>> /\ line = "up"

\* Takes the idle connection, drops it if it is for another host, as a front
\* is chosen at random for each request, or if it is not still open.
RoundTrip(sameKey) ==
  /\ http = "rest"
  /\ trip' = trip + 1 /\ sends' = 0 /\ answered' = FALSE /\ result' = Failure
  /\ pooled' = FALSE
  /\ IF pooled /\ sameKey /\ StillOpen
       THEN http' = "send" /\ fresh' = FALSE /\ UNCHANGED connVars
       ELSE http' = "dial" /\ fresh' = TRUE /\ Dropped
  /\ UNCHANGED head

\* connect, within 30 s for TCP and 10 s for TLS.
Dial ==
  /\ http = "dial"
  /\ \/ http' = "send" /\ line' = "up" /\ UNCHANGED result
     \/ Return(Failure) /\ UNCHANGED line
  /\ fresh' = TRUE
  /\ UNCHANGED <<trip, sends, answered, head, pooled, req, owes, in, rbuf, junk>>

\* exchange returns Err((false, _)): once more on a new connection, if this
\* was the idle one.
Unanswered == IF fresh THEN Return(Failure) ELSE http' = "dial" /\ UNCHANGED result

Send ==
  /\ http = "send"
  /\ \/ /\ http' = "head" /\ sends' = sends + 1
        /\ req' = IF line = "up" THEN trip ELSE 0
        /\ UNCHANGED <<result, owes, in, rbuf, line, junk>>
     \/ line # "up" /\ Unanswered /\ Dropped /\ UNCHANGED sends
  /\ UNCHANGED <<trip, answered, fresh, head, pooled>>

Fill ==
  /\ \/ http = "head" /\ (rbuf = <<>> \/ rbuf = <<Half>>)
     \/ http = "body" /\ (rbuf = <<>> \/ head.framing = "until eof")
  /\ \E n \in 1..Len(in) :
       /\ rbuf' = rbuf \o SubSeq(in, 1, n)
       /\ in' = SubSeq(in, n + 1, Len(in))
       /\ answered' = (answered \/ \E i \in 1..n : in[i] # Interim)
  /\ UNCHANGED <<http, trip, sends, fresh, head, result, pooled, req, owes,
                 line, junk>>

\* read_head: interim responses are drained and leave no trace.
ReadHead ==
  /\ http = "head" /\ rbuf # <<>> /\ rbuf[1] # Half
  /\ rbuf' = Tail(rbuf)
  /\ IF rbuf[1] = Interim
       THEN UNCHANGED <<http, head>>
       ELSE http' = "body" /\ head' = rbuf[1]
  /\ UNCHANGED <<trip, sends, answered, result, fresh, pooled, req, owes, in, line, junk>>

\* Mutant: an end in the middle of a head is taken for an idle connection's.
ReadHeadEofAny ==
  /\ http = "head" /\ in = <<>> /\ (rbuf = <<>> \/ rbuf = <<Half>>)
  /\ \/ line = "eof" /\ Unanswered
     \/ line = "reset" /\ Return(Failure)
  /\ Dropped /\ UNCHANGED <<trip, sends, answered, fresh, head, pooled>>

\* The end before a head, told from a connection that died idle by the bytes
\* that are left; any other error counts as an answer.
ReadHeadEof ==
  /\ http = "head" /\ in = <<>> /\ (rbuf = <<>> \/ rbuf = <<Half>>)
  /\ \/ line = "eof" /\ rbuf = <<>> /\ Unanswered
     \/ line = "eof" /\ rbuf # <<>> /\ Return(Failure)
     \/ line = "reset" /\ Return(Failure)
  /\ Dropped /\ UNCHANGED <<trip, sends, answered, fresh, head, pooled>>

\* Mutant: only the answer on a new connection is waited for with a deadline.
HeaderTimeoutFresh ==
  /\ http = "head" /\ fresh
  /\ Return(Failure) /\ Dropped
  /\ UNCHANGED <<trip, sends, answered, fresh, head, pooled>>

\* The header timeout, 15 s with the broker and 60 s with SQS.
HeaderTimeout ==
  /\ http = "head"
  /\ Return(Failure) /\ Dropped
  /\ UNCHANGED <<trip, sends, answered, fresh, head, pooled>>

\* The response as the caller sees it.  A body up to the end of the
\* connection may be a part of one, and nothing tells.
Response ==
  [ok |-> TRUE, of |-> head.of, status |-> head.status,
   truncated |-> head.framing = "long",
   whole |-> head.framing = "until eof" => rbuf # <<>>]

\* Mutant: bytes past the body stay with the connection that is kept.
PutIdleUnchecked(buffer) ==
  IF head.framing \in {"sized", "none"}
    THEN pooled' = TRUE /\ rbuf' = buffer /\ UNCHANGED <<req, owes, in, line, junk>>
    ELSE pooled' = FALSE /\ Dropped

\* put_idle
Reusable == head.framing \in {"sized", "none"}
PutIdle(buffer) ==
  IF Reusable /\ buffer = <<>>
    THEN pooled' = TRUE /\ rbuf' = buffer /\ UNCHANGED <<req, owes, in, line, junk>>
    ELSE pooled' = FALSE /\ Dropped

\* read_body, once the body is there: the pieces it uses are drained.
ReadBody ==
  /\ http = "body"
  /\ \/ head.framing \in {"none", "none, close"} /\ PutIdle(rbuf)
     \/ /\ head.framing \in {"sized", "sized, close", "long"} /\ rbuf # <<>>
        /\ PutIdle(Tail(rbuf))
     \/ /\ head.framing = "until eof" /\ in = <<>> /\ line = "eof"
        /\ PutIdle(<<>>)
  /\ Return(Response)
  /\ UNCHANGED <<trip, sends, answered, fresh, head>>

\* The connection ends, or is reset, before the body does.
ReadBodyEof ==
  /\ http = "body" /\ in = <<>>
  /\ \/ line = "reset" /\ (rbuf = <<>> \/ head.framing = "until eof")
     \/ line = "eof" /\ rbuf = <<>> /\ head.framing \in {"sized", "sized, close", "long"}
  /\ head.framing \notin {"none", "none, close"}
  /\ Return(Failure) /\ Dropped
  /\ UNCHANGED <<trip, sends, answered, fresh, head, pooled>>

Client == \/ Dial \/ Send \/ Fill \/ ReadHead \/ ReadHeadEof \/ HeaderTimeout
          \/ ReadBody \/ ReadBodyEof

InitHttp ==
  /\ http = "rest" /\ trip = 0 /\ sends = 0 /\ answered = FALSE /\ fresh = TRUE
  /\ head = NoHead /\ result = Failure /\ pooled = FALSE
  /\ req = 0 /\ owes = NoHead /\ in = <<>> /\ rbuf = <<>> /\ line = "none"

=============================================================================
