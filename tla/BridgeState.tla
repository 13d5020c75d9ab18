----------------------------- MODULE BridgeState -----------------------------
(***************************************************************************)
(* A bridge's long-term identity (obfs4's state.rs and fs_state_store.rs): *)
(* starts with and without keys in the arguments, the state file and the   *)
(* bridge line as they are truncated and written, and crashes and failures *)
(* of the file system between any two steps.                               *)
(***************************************************************************)
EXTENDS Integers, FiniteSets

CONSTANTS
  FreshIds,   \* node id, key pair and seed as drawn by new_state
  ArgIds,     \* ... as given by arguments
  BadIds,     \* ... given, but not the hex of keys
  IatInts,    \* integers given as iat-mode
  Absent, Torn, \* a file that is not there, and one with a part of its bytes
  MaxFaults   \* bound on crashes and failures while a start is under way

IatMode == {0, 1, 2}

ASSUME BridgeAssumption ==
  /\ IatInts \subseteq Int
  /\ BadIds \subseteq ArgIds
  /\ FreshIds \cap ArgIds = {}
  /\ Absent # Torn
  /\ {Absent, Torn} \cap (FreshIds \cup ArgIds) = {}
  /\ {Absent, Torn} \cap [id : FreshIds \cup ArgIds, iat : IatInts \cup {0}] = {}

Ids == FreshIds \cup ArgIds

\* StoredState
Stored == [id : Ids, iat : IatInts \cup {0}]

File == Stored \cup {Absent, Torn}

\* The arguments of a start.  keys: how many of private-key, node-id, drbg-seed
\* are given; mode: whether iat-mode is, and is a number.
Args == [keys : {"none", "some", "all"}, id : ArgIds,
         mode : {"none", "malformed", "number"}, iat : IatInts]

VARIABLES
  stateFile, lineFile,  \* obfs4_state.json, obfs4_bridgeline.txt
  pc,      \* where the start is
  args,    \* its arguments
  js,      \* the state it goes on with
  begun,   \* history: the state file when it began
  faults   \* crashes and failures so far

stateVars == <<stateFile, lineFile, pc, args, js, begun, faults>>

StateInit ==
  /\ stateFile = Absent /\ lineFile = Absent
  /\ pc = "down"
  /\ args \in Args /\ js \in Stored
  /\ begun = Absent
  /\ faults = 0

files == <<stateFile, lineFile>>

Fault == faults < MaxFaults /\ faults' = faults + 1

-----------------------------------------------------------------------------
(* server_state_from_args.                                                 *)

\* Keys from the arguments come with iat-mode 0; some keys without the others
\* are refused.
Start(a) ==
  /\ pc = "down"
  /\ args' = a
  /\ begun' = stateFile
  /\ \/ a.keys = "none" /\ pc' = "load" /\ js' = js
     \/ a.keys = "some" /\ pc' = "refused" /\ js' = js
     \/ a.keys = "all" /\ pc' = "mode" /\ js' = [id |-> a.id, iat |-> 0]
  /\ UNCHANGED <<files, faults>>

\* Mutant: a file that cannot be parsed counts as none
LoadLenient ==
  /\ pc = "load"
  /\ \/ stateFile \in Stored /\ js' = stateFile /\ pc' = "mode"
     \/ /\ stateFile \in {Absent, Torn}
        /\ js' \in [id : FreshIds, iat : {0}]
        /\ pc' = "create"
  /\ UNCHANGED <<files, args, begun, faults>>

\* FsBridgeStateStore::load, and new_state when there is no file
Load ==
  /\ pc = "load"
  /\ \/ stateFile \in Stored /\ js' = stateFile /\ pc' = "mode"
     \/ stateFile = Torn /\ js' = js /\ pc' = "failed"
     \/ /\ stateFile = Absent
        /\ js' \in [id : FreshIds, iat : {0}]
        /\ pc' = "create"
  /\ UNCHANGED <<files, args, begun, faults>>

\* Mutant: the state is saved before the mode is looked at
ModeSaves ==
  /\ pc = "mode"
  /\ stateFile' = js
  /\ pc' = IF args.mode = "malformed" THEN "refused" ELSE "parse"
  /\ UNCHANGED <<lineFile, args, js, begun, faults>>

\* iat-mode in the arguments comes before the stored one.
Mode ==
  /\ pc = "mode"
  /\ \/ args.mode = "none" /\ js' = js /\ pc' = "parse"
     \/ args.mode = "malformed" /\ js' = js /\ pc' = "refused"
     \/ args.mode = "number" /\ js' = [js EXCEPT !.iat = args.iat] /\ pc' = "parse"
  /\ UNCHANGED <<files, args, begun, faults>>

\* state_from_stored: all is parsed before anything is saved.
Parse ==
  /\ pc = "parse"
  /\ pc' = IF js.id \notin BadIds /\ js.iat \in IatMode THEN "line" ELSE "refused"
  /\ UNCHANGED <<files, args, js, begun, faults>>

-----------------------------------------------------------------------------
(* write_private_file: the file is opened and truncated, then written.     *)

OpenState ==
  /\ pc \in {"create", "state"}
  /\ stateFile' = Torn
  /\ pc' = IF pc = "create" THEN "creating" ELSE "saving"
  /\ UNCHANGED <<lineFile, args, js, begun, faults>>

WriteState ==
  /\ pc \in {"creating", "saving"}
  /\ stateFile' = js
  /\ pc' = IF pc = "creating" THEN "mode" ELSE "serving"
  /\ UNCHANGED <<lineFile, args, js, begun, faults>>

OpenLine ==
  /\ pc = "line"
  /\ lineFile' = Torn
  /\ pc' = "lining"
  /\ UNCHANGED <<stateFile, args, js, begun, faults>>

\* Mutant: the state is saved only when it was not loaded
WriteLineOnly ==
  /\ pc = "lining"
  /\ lineFile' = js
  /\ pc' = IF args.keys = "all" THEN "state" ELSE "serving"
  /\ UNCHANGED <<stateFile, args, js, begun, faults>>

WriteLine ==
  /\ pc = "lining"
  /\ lineFile' = js
  /\ pc' = "state"
  /\ UNCHANGED <<stateFile, args, js, begun, faults>>

\* A file cannot be read, opened or written: the start fails.
FileFails ==
  /\ pc \in {"load", "create", "creating", "line", "lining", "state", "saving"}
  /\ Fault
  /\ pc' = "failed"
  /\ UNCHANGED <<files, args, js, begun>>

\* The process dies during a start.
Crash ==
  /\ pc \notin {"down", "serving", "refused", "failed"}
  /\ Fault
  /\ pc' = "down"
  /\ UNCHANGED <<files, args, js, begun>>

\* The process ends, whatever it came to, and tor may start it again.
Exit ==
  /\ pc \in {"serving", "refused", "failed"}
  /\ pc' = "down"
  /\ UNCHANGED <<files, args, js, begun, faults>>

StateNext ==
  \/ \E a \in Args : Start(a)
  \/ Load \/ Mode \/ Parse
  \/ OpenState \/ WriteState \/ OpenLine \/ WriteLine
  \/ FileFails \/ Crash \/ Exit

StateSpec == StateInit /\ [][StateNext]_stateVars

-----------------------------------------------------------------------------
(* Properties.                                                             *)

PC == {"down", "load", "create", "creating", "mode", "parse", "line", "lining",
       "state", "saving", "serving", "refused", "failed"}

\* The types of the variables
StateTypeOK ==
  /\ stateFile \in File /\ lineFile \in File
  /\ pc \in PC
  /\ args \in Args /\ js \in Stored
  /\ begun \in File
  /\ faults \in Nat

\* What a serving bridge tells tor is what the next start reads and what the
\* bridge line says, so that a client that got the line can connect after every
\* restart.
ServedIsStored ==
  pc = "serving" => stateFile = js /\ lineFile = js

\* A refused start has no effect on the identity that the bridge had, however
\* late the refusal comes.
RefusedKeeps ==
  pc = "refused" => stateFile = begun \/ begun = Absent

\* Only a crash or a failure leaves a part of a file: no sequence of starts,
\* refusals and exits does.
TornByFault ==
  faults = 0 /\ pc \in {"down", "serving", "refused", "failed"}
    => Torn \notin {stateFile, lineFile}

Saving == pc \in {"creating", "saving"}

Abstract == INSTANCE BridgeIdentity WITH
  FreshIds <- FreshIds,
  ArgIds <- ArgIds,
  None <- Absent,
  Lost <- Torn,
  identity <- IF Saving THEN js.id
              ELSE IF stateFile \in Stored THEN stateFile.id ELSE stateFile,
  serving <- IF pc = "serving" THEN js.id ELSE Absent

\* Once there is an identity, starts without keys serve it or fail, and only a
\* crash or a failure while it is saved loses it: BridgeIdentity.
Identity == Abstract!Spec
=============================================================================
