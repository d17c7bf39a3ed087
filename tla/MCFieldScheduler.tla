-------------------------- MODULE MCFieldScheduler --------------------------
(* Generation over orders of up to three keys, every choice of object fields, *)
(* and dependency relations between the keys and the field inside an object.  *)
(* Dependencies and objects range over all keys, so the orders need to be     *)
(* distinct only up to a renaming of the keys.                                *)
EXTENDS Generation

CONSTANTS k1, k2, k3

MCOrders == {<<>>, <<k1>>, <<k1, k2>>, <<k1, k2, k3>>}

\* A ProcessingOrder that names a key twice.
RepeatingOrders == {<<k1, k1>>}
=============================================================================
