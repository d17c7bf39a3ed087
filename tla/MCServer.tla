----------------------------- MODULE MCServer ------------------------------
(* Requests that come together: two synchronous ones with the same cache key, a          *)
(* synchronous and a queued one, two queued ones, and a gRPC call beside an HTTP one; the *)
(* queued request q1 is polled by two clients.  The stream has two nested fields of the   *)
(* same name and one without a value.                                                     *)
EXTENDS Server, TLC

CONSTANTS st, s1, s2, q1, q2, g1, c1, c2

MCKind == (s1 :> "sync") @@ (s2 :> "sync") @@ (q1 :> "queued") @@ (q2 :> "queued") @@ (g1 :> "grpc")
MCCacheKey == (s1 :> "k") @@ (s2 :> "k") @@ (q1 :> "k") @@ (q2 :> "l") @@ (g1 :> "l")
MCFieldResults ==
    {[id |-> 1, key |-> "name", present |-> TRUE], [id |-> 2, key |-> "name", present |-> TRUE],
     [id |-> 3, key |-> "age", present |-> TRUE], [id |-> 4, key |-> "note", present |-> FALSE]}
MCTarget == [p \in {c1, c2} |-> q1]
=============================================================================
