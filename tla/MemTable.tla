------------------------------ MODULE MemTable ------------------------------
(***************************************************************************)
(* The memtable of the LSM engine (include/storage/memtable.h) as pure     *)
(* operators over a set of internal records.  The skip list orders         *)
(* InternalKeys by user key ascending and sequence descending, so a set of *)
(* records with the lookup "largest sequence of the key" is the same       *)
(* structure; the node heights and the random level generator change no   *)
(* observable result and are left out.                                     *)
(*                                                                         *)
(* A record is [key, seq, del, val, ep]: del is the kDeletion type, val is *)
(* NoVal for a deletion, and ep is a ghost field (the restart epoch that   *)
(* wrote the record) that no operator of the code reads.                   *)
(***************************************************************************)
EXTENDS Naturals, FiniteSets

CONSTANTS Keys, Vals, NoVal

\* Result of a lookup that found no record of the key (LookupResult.found = false).
Absent == "absent"

\* MemTable::Insert: a record with the same key and sequence has its value
\* overwritten, any other record is linked in beside the existing ones.
Insert(m, r) == {x \in m : ~(x.key = r.key /\ x.seq = r.seq)} \cup {r}

Versions(m, k) == {r \in m : r.key = k}

\* The first node at or after InternalKey{k, UINT64_MAX}: the newest version.
Newest(m, k) ==
  CHOOSE r \in Versions(m, k) : \A s \in Versions(m, k) : s.seq <= r.seq

\* MemTable::Get as LSMEngine::load reads it: Absent when not found, NoVal
\* (a Miss) when the newest record is a deletion marker, else its value.
Get(m, k) ==
  IF Versions(m, k) = {} THEN Absent
  ELSE IF Newest(m, k).del THEN NoVal ELSE Newest(m, k).val

\* MemTable::ShouldFlush: approx_size_ >= kWriteBufferSize.  Every record of
\* the model has the same size, so the threshold is an entry count.
ShouldFlush(m, flushAt) == Cardinality(m) >= flushAt

\* DoFlush's ForEach callback: every kValue record is added to the SSTable
\* writer, older versions of a key included; deletion markers are skipped.
FlushPairs(m) == {<<r.key, r.val>> : r \in {x \in m : ~x.del}}

=============================================================================
