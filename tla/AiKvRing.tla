------------------------------ MODULE AiKvRing ------------------------------
(***************************************************************************)
(* ConsistentHashRing of ai_kv::core (src/ai_kv_store/include/core/        *)
(* shard_manager.h) as pure operators, and the ring the Coordinator        *)
(* constructor builds.                                                     *)
(*                                                                         *)
(* A ring is a record: ring is ring_ (a function from vnode hashes to      *)
(* shard ids, std::map's order being the order of the integers) and shards *)
(* the key set of shards_ (no other ShardInfo field is read by routing).   *)
(* overrides_ is left out: MigrateKeyRange, its only writer, is never      *)
(* called.  absl::HashOf is out of TLC's reach; KeyHash and VNodeHash are  *)
(* constant functions into 0..HashSpace-1, the uint64_t space scaled down. *)
(***************************************************************************)
EXTENDS Integers, Sequences, SequencesExt, FiniteSetsExt, Functions

CONSTANTS
    Keys,
    KeyRank,         \* a key's position in std::string order
    NumShards,       \* NodeConfig::num_shards
    VNodesPerShard,  \* vnodes_per_shard_
    HashSpace,
    KeyHash,         \* KeyHash(key)
    VNodeHash        \* VNodeHash(shard_id, vnode)

ShardIds == 0..NumShards - 1

EmptyRing == [ring |-> <<>>, shards |-> {}]

VHashes(s) == {VNodeHash[s, v] : v \in 0..VNodesPerShard - 1}

\* AddShard: shards_[id] = shard, then ring_[VNodeHash(id, v)] = id for
\* every vnode.
AddShard(r, s) ==
    [r EXCEPT !.shards = @ \cup {s},
              !.ring = [h \in DOMAIN @ \cup VHashes(s) |->
                          IF h \in VHashes(s) THEN s ELSE @[h]]]

\* RemoveShard: shards_.erase(id), then ring_.erase(VNodeHash(id, v)).
RemoveShard(r, s) ==
    [r EXCEPT !.shards = @ \ {s}, !.ring = Restrict(@, DOMAIN @ \ VHashes(s))]

\* Mutant: upper_bound for lower_bound.
RingLookupUpper(r, h) ==
    IF DOMAIN r.ring = {} THEN 0
    ELSE LET gt == {x \in DOMAIN r.ring : x > h}
         IN  r.ring[IF gt # {} THEN Min(gt) ELSE Min(DOMAIN r.ring)]

\* 0 for an empty ring, else lower_bound(hash), wrapping to begin().
RingLookup(r, h) ==
    IF DOMAIN r.ring = {} THEN 0
    ELSE LET ge == {x \in DOMAIN r.ring : x >= h}
         IN  r.ring[IF ge # {} THEN Min(ge) ELSE Min(DOMAIN r.ring)]

\* GetShard: the ring only.
GetShard(r, k) == RingLookup(r, KeyHash[k])

\* The Coordinator constructor: AddShard for s = 0 .. num_shards - 1.
CoordinatorRing == FoldLeft(AddShard, EmptyRing, [i \in 1..NumShards |-> i - 1])

\* The reference: the live shard owning the vnode nearest clockwise from h.
Clockwise(h, x) == (x - h) % HashSpace
Successor(live, h) ==
    LET vs == live \X (0..VNodesPerShard - 1)
        d(p) == Clockwise(h, VNodeHash[p[1], p[2]])
    IN  (CHOOSE p \in vs : \A q \in vs : d(p) <= d(q))[1]

\* Rings the API can reach from the Coordinator's: some shards removed.
Reachable == {FoldLeft(RemoveShard, CoordinatorRing, SetToSeq(ShardIds \ live)) :
                live \in SUBSET ShardIds \ {{}}}

=============================================================================
