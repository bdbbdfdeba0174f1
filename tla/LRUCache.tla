------------------------------ MODULE LRUCache ------------------------------
(***************************************************************************)
(* One LRU shard of the cache (src/include/cache/lru_cache.h) over the     *)
(* pointer-level list of DoublyLinkedList (src/include/cache/node.h), as   *)
(* pure operators.                                                         *)
(*                                                                         *)
(* A shard is a record                                                     *)
(*   lst   : the DoublyLinkedList list_ (next, prev, size_)                *)
(*   ent   : map_, a function from the cached keys to their nodes' value   *)
(*           and dirty flag                                                *)
(*   order : a ghost no code reads: the recency order the LRU policy       *)
(*           prescribes, most recent first, kept with sequence operators   *)
(*           (an access moves a key to the front, eviction takes the       *)
(*           back).  ListRefinesOrder relates it to lst.                   *)
(* last_access timestamps are written but never read by the code and are   *)
(* left out.                                                               *)
(*                                                                         *)
(* Every mutating operator returns [sh |-> new shard, ev |-> evictions],   *)
(* where ev is the sequence of [key, val, dirty] records passed to the     *)
(* eviction callback, in the order the code calls it.  What the callback   *)
(* does is up to the owner of the shard (the CacheManager).                *)
(***************************************************************************)
EXTENDS Naturals, Sequences, SequencesExt, Functions

CONSTANTS Keys, Vals

DLL == INSTANCE DoublyLinkedList WITH Nodes <- Keys

EmptyShard ==
    [lst   |-> DLL!EmptyList,
     ent   |-> [k \in {} |-> [val |-> CHOOSE v \in Vals : TRUE, dirty |-> FALSE]],
     order |-> <<>>]

Cached(sh) == DOMAIN sh.ent

Entry(k, v, d) == [key |-> k, val |-> v, dirty |-> d]

\* The policy's order after an access to k: k first.
ToFront(order, k) == <<k>> \o Remove(order, k)

\* LRUCache::get: a hit moves the node to the MRU position.
Get(sh, k) ==
    IF k \in Cached(sh)
    THEN [sh EXCEPT !.lst = DLL!MoveToFront(@, k), !.order = ToFront(@, k)]
    ELSE sh

\* evict_lru: pop_back; nothing if it returns nullptr; else the callback
\* with the node's fields, and the key erased from map_.  The policy's
\* victim is the back of the order.
EvictLru(sh) ==
    LET p == DLL!PopBack(sh.lst)
        n == p.node
    IN  IF n = DLL!Null THEN [sh |-> sh, ev |-> <<>>]
        ELSE [sh |-> [lst   |-> p.list,
                      ent   |-> Restrict(sh.ent, Cached(sh) \ {n}),
                      order |-> Front(sh.order)],
              ev |-> <<Entry(n, sh.ent[n].val, sh.ent[n].dirty)>>]

\* `while (map_.size() >= bound) evict_lru();`
RECURSIVE EvictWhile(_, _, _)
EvictWhile(sh, bound, ev) ==
    IF Cardinality(Cached(sh)) >= bound
    THEN LET r == EvictLru(sh) IN EvictWhile(r.sh, bound, ev \o r.ev)
    ELSE [sh |-> sh, ev |-> ev]

\* Insert a new dirty node at the MRU position and into map_.
Insert(sh, k, v) ==
    [lst   |-> DLL!PushFront(sh.lst, k),
     ent   |-> sh.ent @@ (k :> [val |-> v, dirty |-> TRUE]),
     order |-> <<k>> \o sh.order]

\* Mutant: `while (map_.size() > capacity_)` -- one entry too many.
PutNoEvict(sh, k, v, cap) ==
    IF k \in Cached(sh)
    THEN [sh |-> [sh EXCEPT !.ent[k] = [val |-> v, dirty |-> TRUE],
                            !.lst = DLL!MoveToFront(@, k), !.order = ToFront(@, k)],
          ev |-> <<>>]
    ELSE LET r == EvictWhile(sh, cap + 1, <<>>) IN [sh |-> Insert(r.sh, k, v), ev |-> r.ev]

\* LRUCache::put.  An existing key is updated in place, marked dirty and
\* moved to the front.  Otherwise evict_lru() runs while map_ is at
\* capacity, then a new dirty node is pushed to the front.
Put(sh, k, v, cap) ==
    IF k \in Cached(sh)
    THEN [sh |-> [sh EXCEPT !.ent[k] = [val |-> v, dirty |-> TRUE],
                            !.lst = DLL!MoveToFront(@, k), !.order = ToFront(@, k)],
          ev |-> <<>>]
    ELSE LET r == EvictWhile(sh, cap, <<>>) IN [sh |-> Insert(r.sh, k, v), ev |-> r.ev]

\* LRUCache::del: detach, erase, then the callback with the node's dirty
\* flag.  Returns whether the key existed in `found`.
Del(sh, k) ==
    IF k \in Cached(sh)
    THEN [sh    |-> [lst   |-> DLL!Detach(sh.lst, k),
                     ent   |-> Restrict(sh.ent, Cached(sh) \ {k}),
                     order |-> Remove(sh.order, k)],
          ev    |-> <<Entry(k, sh.ent[k].val, sh.ent[k].dirty)>>,
          found |-> TRUE]
    ELSE [sh |-> sh, ev |-> <<>>, found |-> FALSE]

\* LRUCache::clear_dirty.
ClearDirty(sh, k) ==
    IF k \in Cached(sh) THEN [sh EXCEPT !.ent[k].dirty = FALSE] ELSE sh

\* LRUCache::clear: evict_lru() until map_ is empty.
Clear(sh) == EvictWhile(sh, 1, <<>>)

\* LRUCache::dirty_entries: walk head -> tail, keep the dirty nodes.
DirtyEntries(sh) ==
    LET d == SelectSeq(DLL!Forward(sh.lst), LAMBDA k : sh.ent[k].dirty)
    IN [i \in 1..Len(d) |-> <<d[i], sh.ent[d[i]].val>>]

\* The shard invariant of the code: size_ counts map_'s keys, which never
\* exceed the capacity.
WellFormed(sh, cap) ==
    /\ sh.lst.size = Cardinality(Cached(sh))
    /\ Cardinality(Cached(sh)) <= cap

\* The pointers implement the policy: walking next from head_ meets the
\* keys in the policy's order and ends at tail_, walking prev from tail_
\* meets them in the reverse order and ends at head_, and size_ is their
\* number; the keys are those of map_.
ListRefinesOrder(sh) ==
    /\ DLL!Forward(sh.lst) = sh.order
    /\ DLL!Backward(sh.lst) = Reverse(sh.order)
    /\ sh.lst.size = Len(sh.order)
    /\ ToSet(sh.order) = Cached(sh)
=============================================================================
