------------------------------- MODULE Server -------------------------------
(***************************************************************************)
(* The server: the HTTP and gRPC requests of Serving and the gRPC streams  *)
(* of Streaming.  They share the process but no state, so a behaviour is   *)
(* checked for one or the other.                                           *)
(***************************************************************************)
EXTENDS Serving, Streaming

Init ==
    \/ \E coming \in Scenarios : ServingInit(coming) /\ StreamInit(FALSE)
    \/ ServingInit({}) /\ StreamInit(TRUE)

Next ==
    \/ ServingNext /\ UNCHANGED streamVars
    \/ StreamNext /\ UNCHANGED vars

serverVars == <<vars, streamVars>>

Spec == Init /\ [][Next]_serverVars /\ ServingFairness /\ StreamFairness
=============================================================================
