--------------------------- MODULE BridgeIdentity ---------------------------
(***************************************************************************)
(* What a bridge operator relies on, whatever the files are: a bridge has  *)
(* one identity, made when there is none; it serves no other; another one  *)
(* comes only from the arguments; and when the identity is lost the bridge *)
(* does not serve rather than make a new one.                              *)
(***************************************************************************)
CONSTANTS FreshIds,  \* identities that may be drawn
          ArgIds,    \* identities that the operator may give
          None, Lost

VARIABLES identity, \* the bridge's identity, None or Lost
          serving   \* the identity that clients meet, or None

vars == <<identity, serving>>

Init == identity = None /\ serving = None

Create == /\ identity = None /\ serving = None
          /\ identity' \in FreshIds
          /\ serving' = None

Adopt == /\ serving = None
         /\ identity' \in ArgIds
         /\ serving' = None

\* A save was cut short.
Lose == /\ identity # None /\ serving = None
        /\ identity' = Lost
        /\ serving' = None

Serve == /\ identity \notin {None, Lost} /\ serving = None
         /\ serving' = identity
         /\ identity' = identity

Stop == serving' = None /\ identity' = identity

Next == Create \/ Adopt \/ Lose \/ Serve \/ Stop

Spec == Init /\ [][Next]_vars
=============================================================================
