----------------------------- MODULE Rendezvous -----------------------------
(***************************************************************************)
(* How a snowflake client trades an offer for an answer: the part of         *)
(* Peer::connect up to the data channel, over the broker channel and one of  *)
(* its three methods, an HTTP POST, a GET through an AMP cache, or an SQS    *)
(* queue, all on HttpClient, while the NAT is probed (NatType).              *)
(*                                                                         *)
(* connect_loop makes one connection after another.                          *)
(***************************************************************************)
EXTENDS HttpClient, NatType

CONSTANTS
  Plans,        \* the cases: [config, servers, calls, junk], where config is a
                \* bridge line [sqs, creds, amp, broker], each TRUE if given,
                \* servers the number of STUN servers, calls bounds the
                \* connections and junk what a server does beside answering and
                \* closing
  MaxAttempts,  \* MAX_ATTEMPTS of a call of SQS
  Retries       \* RETRIES of an exchange over SQS

VARIABLES
  method,       \* "http", "amp", "sqs", or "none" for a bad bridge line
  peer,         \* where Peer::connect is
  calls,        \* bound: connections left
  op,           \* the operation of SQS, or "exchange" of the other methods
  attempt,      \* attempt of a call of SQS
  try,          \* try of an operation, of RETRIES
  answer,       \* what negotiate returned
  spoofs        \* connections that failed to open on a claim that was a guess

brokerVars == <<op, attempt, try, answer>>
peerVars == <<method, peer, calls, spoofs>>
exchangeVars == <<httpVars, natVars, brokerVars, peerVars>>

\* BrokerChannel::new
Method(config) ==
  IF config.sqs
    THEN IF config.amp \/ config.broker \/ ~config.creds THEN "none" ELSE "sqs"
    ELSE IF ~config.broker THEN "none" ELSE IF config.amp THEN "amp" ELSE "http"

-----------------------------------------------------------------------------
\* A connection: the claim is chosen when the offer is ready, then the first
\* request goes out.
Connect ==
  /\ peer = "rest" /\ calls > 0 /\ method # "none"
  /\ calls' = calls - 1 /\ peer' = "negotiate" /\ StartClaim
  /\ op' = IF method = "sqs" THEN "send" ELSE "exchange"
  /\ attempt' = 1 /\ try' = 1 /\ answer' = Failure
  /\ \E sameKey \in BOOLEAN : RoundTrip(sameKey)
  /\ UNCHANGED <<method, spoofs>>

\* The exchange with the broker is over: its error, or what negotiate decodes,
\* an answer unless the broker has none or the body is not whole.
Negotiated(got) ==
  /\ \/ got /\ result.whole /\ peer' = "opening"
        /\ answer' = result
     \/ peer' = "rest" /\ UNCHANGED answer
  /\ UNCHANGED <<httpVars, natVars, op, attempt, try, method, calls, spoofs>>

TripFinished == peer = "negotiate" /\ http = "rest"

\* HttpRendezvous::exchange and AmpCacheRendezvous::exchange
Exchanged ==
  /\ TripFinished /\ op = "exchange"
  /\ Negotiated(result.ok /\ result.status = "200" /\ ~result.truncated)

\* The next request of an exchange over SQS, all to one host.
NextRequest(nextOp, nextAttempt, nextTry) ==
  /\ op' = nextOp /\ attempt' = nextAttempt /\ try' = nextTry
  /\ RoundTrip(TRUE)
  /\ UNCHANGED <<natVars, answer, peerVars>>

Succeeded == result.ok /\ result.status = "200" /\ ~result.truncated /\ result.whole

\* SqsClient::call tries again after an error of the connection or of the
\* service; any other answer of the service is final.
Retryable == ~result.ok \/ result.status = "500"

CallAgain ==
  /\ TripFinished /\ op # "exchange" /\ Retryable /\ attempt < MaxAttempts
  /\ NextRequest(op, attempt + 1, try)

CallFailed == TripFinished /\ op # "exchange" /\ ~Succeeded
              /\ (Retryable => attempt >= MaxAttempts)

SendDone == TripFinished /\ op = "send" /\ Succeeded /\ NextRequest("url", 1, 1)

UrlFound == TripFinished /\ op = "url" /\ Succeeded /\ NextRequest("receive", 1, 1)

UrlAgain == CallFailed /\ op = "url" /\ try < Retries /\ NextRequest("url", 1, try + 1)

\* A long poll that found nothing.
ReceiveAgain ==
  TripFinished /\ op = "receive" /\ Succeeded /\ try < Retries
  /\ NextRequest("receive", 1, try + 1)

\* A message was found, or the last poll found none.
MessageReceived == TripFinished /\ op = "receive" /\ Succeeded /\ Negotiated(TRUE)

SqsFailed ==
  /\ CallFailed /\ (op = "url" => try >= Retries)
  /\ Negotiated(FALSE)

Sqs == \/ CallAgain \/ SendDone \/ UrlFound \/ UrlAgain \/ ReceiveAgain
       \/ MessageReceived \/ SqsFailed

\* The data channel opens, or the connection fails for that: then the claim
\* is to blame.  A failed exchange says nothing of the claim.
Opens ==
  /\ peer = "opening" /\ peer' = "rest"
  /\ UNCHANGED <<httpVars, natVars, brokerVars, method, calls, spoofs>>

OpenFails ==
  /\ peer = "opening" /\ peer' = "rest" /\ ClaimFails
  /\ spoofs' = spoofs + IF sent # actual THEN 1 ELSE 0
  /\ UNCHANGED <<httpVars, brokerVars, method, calls>>

Negotiator == Exchanged \/ Sqs

HttpStep == (Client \/ Server) /\ UNCHANGED <<natVars, brokerVars, peerVars>>
ProbeStep == Probe /\ UNCHANGED <<httpVars, brokerVars, peerVars>>

ExchangeNext == Connect \/ Negotiator \/ Opens \/ OpenFails \/ HttpStep \/ ProbeStep

ExchangeInit ==
  /\ InitHttp /\ InitNat
  /\ \E plan \in Plans :
       /\ method = Method(plan.config) /\ calls = plan.calls /\ junk = plan.junk
       /\ probe = IF plan.servers = 0 THEN Done ELSE Request(plan.servers, 1)
  /\ peer = "rest" /\ spoofs = 0
  /\ op = "exchange" /\ attempt = 1 /\ try = 1 /\ answer = Failure

ExchangeSpec == ExchangeInit /\ [][ExchangeNext]_exchangeVars

\* The client's task runs and its timeouts fire; a server that has begun a
\* response ends it or closes, since nothing bounds the time of a body.
Do(A) == A /\ UNCHANGED <<natVars, brokerVars, peerVars>>
Fairness ==
  /\ WF_exchangeVars(Negotiator) /\ WF_exchangeVars(Do(Dial \/ Send)) /\ WF_exchangeVars(Do(HeaderTimeout))
  /\ WF_exchangeVars(Do(Fill \/ ReadHead \/ ReadHeadEof \/ ReadBody \/ ReadBodyEof))
  /\ WF_exchangeVars(Do(ServerBody \/ (owes # NoHead /\ ServerCloses)))
FairExchangeSpec == ExchangeSpec /\ Fairness

-----------------------------------------------------------------------------
\* An answer belongs to the request it is returned for, although connections
\* are kept, time out, end early and carry what nobody asked for (httpc.rs:158).
AnswerMatches ==
  /\ result.ok /\ result.status = "200" => result.of = trip
  /\ answer.ok => answer.of = trip

\* A request goes out again at most once, and only if nothing of a final
\* response to it was read (httpc.rs:142, 164): the broker may hear an offer
\* twice, but not after it has answered.
ResentUnanswered == [][trip' = trip /\ sends' > sends /\ sends > 0 =>
                         sends = 1 /\ ~answered]_exchangeVars

\* The probe never reports what the NAT is not, whatever is lost, late or
\* repeated (stun.rs:153).
NatTypeTrue == nat \in {"unknown", real}

\* A guess fails once at most (nat.rs:20), whatever fails after it and however
\* the probe ends meanwhile.
GuessFailsOnce == spoofs <= 1

\* What the broker hears of the NAT is true, or a guess that has not failed yet.
NatReported == NatTypeTrue /\ GuessFailsOnce

\* Every negotiation returns, whatever the connections do.
NegotiationEnds == peer = "negotiate" ~> peer # "negotiate"

=============================================================================
