---------------------------- MODULE MC_LSMEngine ----------------------------
(***************************************************************************)
(* Model values and request sets for checking LSMEngine with TLC.  The     *)
(* .cfg files pick one request set per run.                                *)
(***************************************************************************)
EXTENDS LSMEngine

CONSTANTS k1, k2, v1, v2, w1, w2

Call(kind, k, v) == [kind |-> kind, key |-> k, val |-> v]

\* Two threads, one key each, storing either value through store and
\* batch_store, so a stale or reordered version reads differently from
\* the newest one.
DisjointStores ==
  (w1 :> {Call(c, k1, v) : c \in {"store", "batch"}, v \in {v1, v2}})
  @@ (w2 :> {Call(c, k2, v) : c \in {"store", "batch"}, v \in {v1, v2}})

\* One thread storing one key through store and batch_store.
OneKeyStores == w1 :> {Call("store", k1, v1), Call("batch", k1, v1)}

\* One thread storing and removing one key.
StoreRemove == w1 :> {Call("store", k1, v1), Call("remove", k1, v1)}

=============================================================================
