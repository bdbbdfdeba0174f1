-------------------------- MODULE MC_CacheManager ---------------------------
(***************************************************************************)
(* Model-checking instances of CacheManager.  Keys, values and clients are *)
(* model values; the definitions below give the segment map and each       *)
(* client's requests, and each .cfg picks the ones it needs.                *)
(***************************************************************************)
EXTENDS CacheManager, TLC

CONSTANTS k1, k2, k3, c1, c2, v1, v2

\* k1 and k2 share segment 1 (capacity 1: each evicts the other), k3 is
\* alone in segment 2.
SegOf3 == (k1 :> 1) @@ (k2 :> 1) @@ (k3 :> 2)

\* Two keys in two segments.
SegOf2 == (k1 :> 1) @@ (k2 :> 2)

\* Two keys in one segment of capacity 1.
SegOfShared == (k1 :> 1) @@ (k2 :> 1)

\* One client writing two keys (no reads, no deletes).
SoleWriter == c1 :> {Cmd!PutReq(k, v) : k \in Keys, v \in Vals}

\* Each client works on its own keys; FLUSHALL touches all of them.
DisjointRequests == (c1 :> Cmd!RequestsOn({k1})) @@ (c2 :> Cmd!RequestsOn({k2, k3}))

\* One client sending every request on every key.
SoleClientRequests == c1 :> Cmd!RequestsOn(Keys)

=============================================================================
