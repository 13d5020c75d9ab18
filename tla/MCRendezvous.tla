---------------------------- MODULE MCRendezvous ----------------------------
(***************************************************************************)
(* Four cases: a broker over HTTP while two STUN servers are probed, a       *)
(* broker whose connections misbehave (an AMP cache and a plain broker do     *)
(* the same requests), an SQS queue, and a bridge line that is refused.       *)
(***************************************************************************)
EXTENDS Rendezvous

Line(sqs, creds, amp, broker) ==
  [sqs |-> sqs, creds |-> creds, amp |-> amp, broker |-> broker]
Plan(config, servers, n, faults) ==
  [config |-> config, servers |-> servers, calls |-> n, junk |-> faults]
PlansDef ==
  {Plan(Line(FALSE, FALSE, FALSE, TRUE), 2, 3, 0), Plan(Line(FALSE, FALSE, TRUE, TRUE), 0, 2, 2),
   Plan(Line(TRUE, TRUE, FALSE, FALSE), 0, 2, 0), Plan(Line(TRUE, FALSE, FALSE, TRUE), 1, 1, 0)}
=============================================================================
