------------------------------- MODULE NatType ------------------------------
(***************************************************************************)
(* Which NAT type the broker hears: the probe of the STUN servers, a task    *)
(* of its own (nat.rs, stun.rs), and NatPolicy, which claims "unrestricted"  *)
(* while nothing is known, until that has failed once.                       *)
(*                                                                         *)
(* A probe sends two requests to two addresses of one server and compares    *)
(* the addresses it was seen at.  Requests are sent again while they wait,   *)
(* and responses may be lost, late or repeated: a response under way stays    *)
(* so, and is received any number of times.                                  *)
(***************************************************************************)
EXTENDS Naturals

CONSTANT
  NatTypes      \* what the NAT may be

ASSUME NatTypesAssumption == NatTypes \subseteq {"restricted", "unrestricted"}

VARIABLES
  real,         \* what the NAT is
  nat,          \* BrokerChannel.nat_type
  probe,        \* the probe: servers left, the one at work included, and which
                \* of its requests, or Done
  able,         \* the server at work supports RFC 5780
  replies,      \* responses on their way to the socket, by transaction
  mapped,       \* the address the first response had
  claimFailed,  \* NatPolicy.assumed_unrestricted_and_failed
  actual, sent  \* the connection being made: the type known, the type sent

probeVars == <<real, nat, probe, able, replies, mapped>>
policyVars == <<claimFailed, actual, sent>>
natVars == <<probeVars, policyVars>>

Request(server, n) == [server |-> server, request |-> n]
Done == Request(0, 0)

\* The address a request was seen at: another for the second destination
\* if the mapping depends on it.
Seen(tx) == IF real = "restricted" THEN tx.request ELSE 1

\* The server gets the request or one of its retransmissions.
ServerReplies ==
  /\ probe # Done /\ replies' = replies \cup {probe}
  /\ UNCHANGED <<real, nat, probe, able, mapped, policyVars>>

\* The next server, on a socket of its own, or the end with nothing known.
NextServer ==
  /\ replies' = {} /\ mapped' = 0
  /\ IF probe.server > 1
       THEN /\ probe' = Request(probe.server - 1, 1)
            /\ able' \in BOOLEAN /\ UNCHANGED nat
       ELSE probe' = Done /\ nat' = "unknown" /\ UNCHANGED able

\* Mutant: any response is taken, whichever request it answers.
ExpectedAny(tx) == tx.server = probe.server

\* bind_all takes the response whose transaction it waits for, others it drops.
Expected(tx) == tx = probe

Received(tx) ==
  /\ tx \in replies /\ Expected(tx)
  /\ IF probe.request = 1
       THEN IF able
              THEN /\ mapped' = Seen(tx) /\ probe' = Request(probe.server, 2)
                   /\ UNCHANGED <<nat, able, replies>>
              ELSE NextServer
       ELSE /\ nat' = IF mapped # Seen(tx) THEN "restricted" ELSE "unrestricted"
            /\ probe' = Done /\ replies' = {} /\ UNCHANGED <<able, mapped>>
  /\ UNCHANGED <<real, policyVars>>

ProbeTimeout ==
  /\ probe # Done /\ NextServer /\ UNCHANGED <<real, policyVars>>

Probe == ServerReplies \/ (\E tx \in replies : Received(tx)) \/ ProbeTimeout

-----------------------------------------------------------------------------
\* nat_type_to_send
Claim(known) == IF ~claimFailed /\ known = "unknown" THEN "unrestricted" ELSE known

\* A connection starts: what is known, and what is sent, are read once.
StartClaim ==
  /\ actual' = nat /\ sent' = Claim(nat)
  /\ UNCHANGED <<probeVars, claimFailed>>

\* NatPolicy::failure, of a data channel that did not open.
ClaimFails ==
  /\ claimFailed' = (claimFailed \/ (actual = "unknown" /\ sent = "unrestricted"))
  /\ UNCHANGED <<probeVars, actual, sent>>

InitNat ==
  /\ real \in NatTypes /\ nat = "unknown"
  /\ able \in BOOLEAN /\ replies = {} /\ mapped = 0
  /\ claimFailed = FALSE /\ actual = "unknown" /\ sent = "unknown"
=============================================================================
