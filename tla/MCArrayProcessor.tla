-------------------------- MODULE MCArrayProcessor --------------------------
(* An array o of two arrays p and q. *)
EXTENDS ArrayProcessor

CONSTANTS o, p, q

Leaf == [i \in Index |-> None]
NestedInner == [a \in Arrays |-> IF a = o THEN [i \in Index |-> IF i = 0 THEN p ELSE q] ELSE Leaf]

Marker(k, n) == [kind |-> k, indented |-> FALSE, number |-> 0, digit |-> FALSE, rest |-> n]
Line(n, text) == [kind |-> "text", indented |-> FALSE, number |-> n, digit |-> TRUE, rest |-> text]

\* Two lines and their count; a count of nothing; a count beyond the limit and fewer lines;
\* numbered lines without the markers that were asked for.
Full == <<Marker("list", 0), Line(1, 7), Line(2, 8), Marker("count", 2)>>
Bare == <<Marker("count", 0)>>
Short == <<Marker("list", 0), Line(2, 8), Marker("count", 3)>>
Plain == <<Line(1, 7)>>

MCResponses == {Full, Bare, Short, Plain}
=============================================================================
