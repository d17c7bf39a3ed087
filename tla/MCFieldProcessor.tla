-------------------------- MODULE MCFieldProcessor --------------------------
(* Instances of FieldProcessor: one request with fields a to d and an object o, *)
(* in several schema shapes.                                                  *)
EXTENDS FieldProcessor

CONSTANTS r1, a, b, c, d, o

MCReqOf == [j \in Jobs |-> r1]
MCPriority == [j \in Jobs |-> 50]
NoOrder == [n \in Inner |-> <<>>]

\* a is an ordered batch, b and d are the next, the object o holding c comes last.
MixedParent == [j \in Jobs |-> IF j = c THEN o ELSE r1]
MixedOrdered == [n \in Inner |-> IF n = r1 THEN << {a}, {b, d} >> ELSE <<>>]
MixedRest == [n \in Inner |-> IF n = r1 THEN {o} ELSE {c}]

\* Two fields without an order.
FlatParent == [j \in Jobs |-> r1]
FlatRest == [n \in Inner |-> Jobs]

\* The object o holding a and b is itself submitted to the pool.
NestedParent == [j \in Jobs |-> IF j = o THEN r1 ELSE o]
NestedRest == [n \in Inner |-> IF n = r1 THEN {o} ELSE {a, b}]
=============================================================================
