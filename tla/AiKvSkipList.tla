---------------------------- MODULE AiKvSkipList ----------------------------
(***************************************************************************)
(* The skip list of ai_kv::storage::MemTable (src/ai_kv_store/include/     *)
(* storage/lsm_tree.h) at the level of its forward pointers.               *)
(*                                                                         *)
(* A node is named by the entry it holds (an InternalKey and its value):   *)
(* sequence_ makes every entry of one memtable unique.  A memtable is a    *)
(* record of the forward array of head_ and of every node created so far,  *)
(* max_height_, sequence_ and entry_count_.  Insert is cut where the       *)
(* writer's stores become visible to the lock-free readers: InsertBegin    *)
(* finds update[], raises max_height_ and creates the node; each Link is   *)
(* one pass of the bottom-up loop; InsertEnd is the bookkeeping.  The two  *)
(* stores of one pass are one step: new_node is reachable at level i only  *)
(* after the second one, and a reader never climbs to a higher level.      *)
(* RandomHeight draws from a thread-local mt19937 seeded by random_device: *)
(* every height up to MaxHeight is a possible draw.                        *)
(***************************************************************************)
EXTENDS AiKvSSTable, TLC

CONSTANT MaxHeight   \* kMaxHeight (20), scaled down

\* head_: SkipNode::Create(InternalKey{"", 0, kValue}, "", kMaxHeight).
HeadNode == [key |-> "", seq |-> 0, type |-> "value", val |-> ""]

\* nullptr, shaped as a node so that it compares with one.
Null == [key |-> "null", seq |-> 0, type |-> "value", val |-> ""]

\* UINT64_MAX as a sequence: above every sequence a memtable hands out.
kMaxSequence == 2147483647

\* SkipNode::Create(k, v, h): h forward pointers, all null.
NewNode(h) == [i \in 0..h - 1 |-> Null]

\* MemTable(): head_ with kMaxHeight null pointers, max_height_ 1,
\* sequence_ and entry_count_ 0.
NewMemTable == [fwd |-> HeadNode :> NewNode(MaxHeight), maxh |-> 1, seq |-> 0, count |-> 0]

\* Mutant: RandomHeight's loop test as "height <= kMaxHeight".
RandomHeightPastMax == 1..MaxHeight + 1

\* RandomHeight: 1, raised while below kMaxHeight and the draw succeeds;
\* every height from 1 to kMaxHeight is a possible result.
RandomHeight == 1..MaxHeight

\* The while loop of Insert and FindGreaterOrEqual at level i: from x,
\* follow forward[i] while the next node is before key.
RECURSIVE Advance(_, _, _, _)
Advance(m, x, i, key) ==
    LET nx == m.fwd[x][i]
    IN  IF nx # Null /\ InternalLess(nx, key) THEN Advance(m, nx, i, key) ELSE x

\* update[i]: the node the top-down search stands on at level i, head_
\* for the levels at and above max_height_.
RECURSIVE Pred(_, _, _)
Pred(m, key, i) ==
    IF i >= m.maxh THEN HeadNode ELSE Advance(m, Pred(m, key, i + 1), i, key)

\* FindGreaterOrEqual: the level-0 successor of the last node before key.
FindGreaterOrEqual(m, key) == m.fwd[Pred(m, key, 0)][0]

\* MemTable::Get: the node at or after {user_key, UINT64_MAX}, a hit if it
\* holds the key (Deleted for a tombstone).
LookupKey(k) == [key |-> k, seq |-> kMaxSequence]
GetResultOf(n, k) == IF n # Null /\ n.key = k THEN Hit(n) ELSE Miss
MemGet(m, k) == GetResultOf(FindGreaterOrEqual(m, LookupKey(k)), k)

\* Insert up to its loop: update[] top-down, RandomHeight's h, max_height_
\* raised (update[i] = head_ above the old top), SkipNode::Create.
InsertBegin(m, e, h) ==
    [m   |-> [m EXCEPT !.maxh = IF h > @ THEN h ELSE @, !.fwd = @ @@ (e :> NewNode(h))],
     e   |-> e,
     upd |-> [i \in 0..h - 1 |-> Pred(m, e, i)]]

\* MemTable::Put and Delete: sequence_.fetch_add(1), then Insert.
MemPut(m, k, v, h) ==
    InsertBegin([m EXCEPT !.seq = @ + 1], [key |-> k, seq |-> m.seq, type |-> "value", val |-> v], h)
MemDelete(m, k, h) ==
    InsertBegin([m EXCEPT !.seq = @ + 1], [key |-> k, seq |-> m.seq, type |-> "deletion", val |-> NoVal], h)

\* One pass of the loop: new_node->forward[i] = update[i]->forward[i],
\* then update[i]->forward[i] = new_node.
Link(m, e, p, i) ==
    LET m1 == [m EXCEPT !.fwd[e][i] = m.fwd[p][i]]
    IN  [m1 EXCEPT !.fwd[p][i] = e]

\* Insert's bookkeeping: approximate_size_ and entry_count_.
InsertEnd(m) == [m EXCEPT !.count = @ + 1]

\* The nodes met following forward[i] from x to the end, at most fuel.
RECURSIVE Walk(_, _, _, _)
Walk(m, x, i, fuel) ==
    IF x = Null \/ fuel = 0 THEN <<>> ELSE <<x>> \o Walk(m, m.fwd[x][i], i, fuel - 1)

LevelList(m, i) == Walk(m, m.fwd[HeadNode][i], i, Cardinality(DOMAIN m.fwd))

\* ForEach: head_->forward[0] to the end.
ForEach(m) == LevelList(m, 0)

\* The entries a memtable holds: those linked at level 0.
Entries(m) == Range(ForEach(m))

\* Every level is sorted by InternalKey and is a sublist of the level
\* below it: what a reader may rely on at any moment.
IsSkipList(m) ==
    \A i \in 0..MaxHeight - 1 :
        LET l == LevelList(m, i)
        IN  /\ \A j \in 1..Len(l) - 1 : InternalLess(l[j], l[j + 1])
            /\ i > 0 => Range(l) \subseteq Range(LevelList(m, i - 1))

=============================================================================
