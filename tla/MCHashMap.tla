----------------------------- MODULE MCHashMap -----------------------------
(* Four keys, three of them with the same hash or a wrapping probe, from   *)
(* two buckets up: the table doubles twice.                                *)
EXTENDS HashMap
CONSTANTS k1, k2, k3, k4
MCKeys == {k1, k2, k3, k4}
MCHash == [k \in MCKeys |-> CASE k = k1 -> 3 [] k = k2 -> 3 [] k = k3 -> 7 [] k = k4 -> 6]
=============================================================================
