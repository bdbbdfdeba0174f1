----------------------------- MODULE MC_AiKvLSM -----------------------------
EXTENDS AiKvLSM, TLC

CONSTANTS k1, k2, v1, v2, r1, r2

\* k1 sorts before k2 and is shorter; v1 and v2 have one length, so the
\* symmetry over values is sound.  A put of k1 is a 20-byte record, of k2
\* 22, a delete 18 or 20: with block_size 20 two records share a block
\* only if the first is a delete of k1.
MCKeyRank == [k \in {k1, k2} |-> IF k = k1 THEN 1 ELSE 2]
MCKeyBytes == [k \in {k1, k2} |-> IF k = k1 THEN 1 ELSE 3]
MCValBytes == [v \in {v1, v2} |-> 2]
\* Seeds of k1 and k2 share bit 5 of the 64.
MCBloomHash(k, i) == IF k = k1 THEN 5 + 64 * i + 9 * i ELSE 5 + 11 * i

\* Two shards of two vnodes.  k1 hashes exactly onto a vnode of shard 1,
\* k2 past the last vnode, so lookups hit the lower_bound boundary and the
\* wrap to begin().
MCKeyHash == [k \in {k1, k2} |-> IF k = k1 THEN 20 ELSE 60]
MCVNodeHash == [p \in (0..1) \X (0..1) |-> 10 + 10 * p[1] + 30 * p[2]]

Ring == INSTANCE AiKvRing WITH NumShards <- 2, VNodesPerShard <- 2, HashSpace <- 64,
                               KeyHash <- MCKeyHash, VNodeHash <- MCVNodeHash

\* Coordinator::Get routes its key with shard_ring_->GetShard before it
\* reads: for every Get under way, GetShard sends the reader's key to the
\* clockwise successor of its hash among the live shards' vnodes, on the
\* ring the Coordinator builds and on every ring RemoveShard leaves.
RingRoutesClockwise ==
    \A r \in Readers : rpc[r] # "idle" =>
        \A ring \in Ring!Reachable :
            Ring!GetShard(ring, rkey[r]) = Ring!Successor(ring.shards, MCKeyHash[rkey[r]])

MCSymmetry == Permutations({v1, v2}) \cup Permutations({r1, r2})

=============================================================================
