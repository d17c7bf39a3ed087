---------------------------- MODULE MCModelCalls ----------------------------
(* Two calls for items of one array, which share the definition of its items. *)
EXTENDS ModelCalls

CONSTANTS c1, c2, m1, m2

SharedDefinition == [c \in Calls |-> c1]
=============================================================================
