------------------------------ MODULE AiKvLSM ------------------------------
(***************************************************************************)
(* The storage engine of the ai_kv_store subproject:                       *)
(* ai_kv::storage::LSMTree with its skip-list MemTable and SSTable reader  *)
(* (src/ai_kv_store/include/storage/lsm_tree.h), written by the Raft       *)
(* applier through Coordinator::ApplyCommitted and read concurrently by    *)
(* Coordinator::Get (src/ai_kv_store/include/core/shard_manager.h).        *)
(*                                                                         *)
(* A memtable is the skip list of module AiKvSkipList.  Every memtable    *)
(* ever made is kept in mts, the active one last: a shared_ptr keeps it    *)
(* alive while a reader holds it.  The applier's Insert and a reader's     *)
(* lock-free FindGreaterOrEqual are steps of their own, one per store and  *)
(* one per load.  An SSTable is the file SSTableWriter makes of a memtable *)
(* (module AiKvSSTable), read back through SSTableReader.  The WAL is      *)
(* written but never read back by this code, so it is left out; so are    *)
(* file numbers, which are unique.  CompactLevel changes no state: its     *)
(* merge is a placeholder, so levels 1 and up stay empty.                  *)
(***************************************************************************)
EXTENDS AiKvSkipList

CONSTANTS
    Readers,      \* threads serving Coordinator::Get
    FlushAt,      \* entries at which MemTable::ShouldFlush holds
    MaxApplied    \* bound on the commands the applier applies

\* What Coordinator::Put and Delete propose, and the empty command that
\* Put proposes for a leader hint when it finds the node not leader (it is
\* appended if the node became leader in between).
Commands == [op : {"put"}, key : Keys, val : Vals] \cup [op : {"del"}, key : Keys]
                \cup {[op |-> "none"]}

VARIABLES
    mts,      \* every memtable made; active_memtable_ is the last
    imm,      \* immutable_memtables_ (indexes into mts), oldest first
    level0,   \* the files of current_version_->levels[0], oldest first
    applied,  \* commands applied so far
    kv,       \* history: each key's value after the applied commands
    fpc,      \* FlushImmutableMemTable: "idle" or "write" (holding to_flush)
    toFlush,
    wpc,      \* applier: "idle", "link" (in Insert's loop), "end"
    ins,      \* Insert's locals: the node, update[], the next pass, the command
    rpc,      \* reader: "idle", "active", "search", "imm", "sst", then "done"
              \* if a memtable answered, "done_sst" if the SSTables did
    rkey, rres,
    rmem, rcur, rlvl,  \* FindGreaterOrEqual's memtable, current node, level
    rseen     \* history: the values rkey had while the Get ran

vars == <<mts, imm, level0, applied, kv, fpc, toFlush, wpc, ins, rpc, rkey, rres,
          rmem, rcur, rlvl, rseen>>

Active == mts[Len(mts)]

\* MemTable::ShouldFlush: every entry adds about the same to approximate_size_.
ShouldFlush(m) == m.count >= FlushAt

\* SearchSSTables: the first hit scanning level 0 from the newest (the end)
\* to the oldest; the deeper levels are empty.
NewestFirst(results) ==
    LET hits == {i \in DOMAIN results : results[i].found}
    IN  IF hits = {} THEN Miss ELSE results[Max(hits)]

\* Mutant: the memtable rotated away without being pushed onto the deque.
InstallNoPush(m) ==
    IF ShouldFlush(m)
    THEN /\ imm' = imm
         /\ mts' = Append([mts EXCEPT ![Len(mts)] = m], NewMemTable)
    ELSE /\ mts' = [mts EXCEPT ![Len(mts)] = m]
         /\ imm' = imm

\* MaybeScheduleFlush, given the active memtable after an insert: push it
\* onto the immutable deque and RotateMemTable (a fresh memtable, and a
\* WAL nobody reads).
Install(m) ==
    IF ShouldFlush(m)
    THEN /\ imm' = Append(imm, Len(mts))
         /\ mts' = Append([mts EXCEPT ![Len(mts)] = m], NewMemTable)
    ELSE /\ mts' = [mts EXCEPT ![Len(mts)] = m]
         /\ imm' = imm

NoIns == [e |-> Null, upd |-> <<>>, lvl |-> 0, cmd |-> [op |-> "none"]]

Init ==
    /\ mts = <<NewMemTable>>
    /\ imm = <<>>
    /\ level0 = <<>>
    /\ applied = 0
    /\ kv = [k \in Keys |-> NoVal]
    /\ fpc = "idle"
    /\ toFlush = 0
    /\ wpc = "idle"
    /\ ins = NoIns
    /\ rpc = [r \in Readers |-> "idle"]
    /\ rkey = [r \in Readers |-> CHOOSE k \in Keys : TRUE]
    /\ rres = [r \in Readers |-> NoVal]
    /\ rmem = [r \in Readers |-> 1]
    /\ rcur = [r \in Readers |-> HeadNode]
    /\ rlvl = [r \in Readers |-> 0]
    /\ rseen = [r \in Readers |-> {}]

\* Readers whose Get is running see every value the key takes meanwhile.
Witness == [r \in Readers |-> IF rpc[r] \in {"active", "search", "imm", "sst"}
                                 THEN rseen[r] \cup {kv'[rkey[r]]} ELSE rseen[r]]

\* The bytes of a user key or value: KeyBytes[k] (ValLen(v)) symbols.
KeyStr(k) == [i \in 1..KeyBytes[k] |-> <<k, i>>]
ValStr(v) == [i \in 1..ValLen(v) |-> <<v, i>>]
KeyNamed(s) == CHOOSE k \in Keys : KeyStr(k) = s
ValNamed(s) == CHOOSE v \in Vals : ValStr(v) = s

\* A uint32_t appended with its 4 bytes (little-endian), and a memcpy of
\* 4 bytes at offset pos; std::string::substr(pos, n), clamped at the end.
U32Bytes(n) == <<n % 256, (n \div 256) % 256, (n \div 65536) % 256, n \div 16777216>>
U32At(s, pos) == s[pos + 1] + 256 * s[pos + 2] + 65536 * s[pos + 3] + 16777216 * s[pos + 4]
Substr(s, pos, n) == SubSeq(s, pos + 1, Min({pos + n, Len(s)}))

\* Coordinator::SerializePut and DeserializePut: 0x01, klen, key, vlen, value.
SerializePut(k, v) ==
    <<1>> \o U32Bytes(KeyBytes[k]) \o KeyStr(k) \o U32Bytes(ValLen(v)) \o ValStr(v)
DeserializePut(cmd) ==
    LET klen == U32At(cmd, 1)
    IN  [key |-> Substr(cmd, 5, klen), val |-> Substr(cmd, 9 + klen, U32At(cmd, 5 + klen))]

\* Coordinator::SerializeDelete and DeserializeDelete: 0x02, klen, key.
SerializeDelete(k) == <<2>> \o U32Bytes(KeyBytes[k]) \o KeyStr(k)
DeserializeDelete(cmd) == Substr(cmd, 5, U32At(cmd, 1))

\* The entry's command bytes for what the client asked.
Command(c) ==
    CASE c.op = "put" -> SerializePut(c.key, c.val)
      [] c.op = "del" -> SerializeDelete(c.key)
      [] OTHER        -> <<>>

\* Coordinator::ApplyCommitted's reading of the command bytes: shorter
\* than 2 bytes is skipped, opcode 0x01 is a PUT, 0x02 a DELETE, any other
\* opcode is skipped.
ApplyOp(cmd) ==
    CASE Len(cmd) < 2 -> [op |-> "skip"]
      [] cmd[1] = 1 -> LET d == DeserializePut(cmd)
                       IN  [op |-> "put", key |-> KeyNamed(d.key), val |-> ValNamed(d.val)]
      [] cmd[1] = 2 -> [op |-> "del", key |-> KeyNamed(DeserializeDelete(cmd))]
      [] OTHER      -> [op |-> "skip"]

\* Each command as the applier decodes it (a constant: computed once).
Decoded == [c \in Commands |-> ApplyOp(Command(c))]

\* History: each key's value after the client's command.
Intended(c) ==
    CASE c.op = "put" -> [kv EXCEPT ![c.key] = c.val]
      [] c.op = "del" -> [kv EXCEPT ![c.key] = NoVal]
      [] OTHER        -> kv

\* LSMTree::Put and Delete under write_mu_ (the WAL append left out): the
\* active memtable's Put or Delete, up to Insert's loop, for height h.
Put(k, v, h) == MemPut(Active, k, v, h)
Delete(k, h) == MemDelete(Active, k, h)

\* Coordinator::ApplyCommitted of a committed entry: a skipped command is
\* done at once; a PUT or DELETE takes write_mu_ and starts its Insert.
Apply(c) ==
    /\ wpc = "idle"
    /\ applied < MaxApplied
    /\ applied' = applied + 1
    /\ LET d == Decoded[c]
       IN  \/ d.op = "skip" /\ UNCHANGED <<mts, wpc, ins>>
           \/ /\ d.op \in {"put", "del"}
              /\ \E h \in RandomHeight :
                   LET b == IF d.op = "put" THEN Put(d.key, d.val, h) ELSE Delete(d.key, h)
                   IN  /\ mts' = [mts EXCEPT ![Len(mts)] = b.m]
                       /\ ins' = [e |-> b.e, upd |-> b.upd, lvl |-> 0, cmd |-> c]
              /\ wpc' = "link"
    /\ UNCHANGED <<imm, level0, kv, fpc, toFlush, rpc, rkey, rres, rmem, rcur, rlvl, rseen>>

\* Mutant: Insert's loop run top-down, from level h-1 to level 0.
ApplyLinkTopDown ==
    /\ wpc = "link"
    /\ LET i == Cardinality(DOMAIN ins.upd) - 1 - ins.lvl
       IN  /\ mts' = [mts EXCEPT ![Len(mts)] = Link(@, ins.e, ins.upd[i], i)]
           /\ IF i = 0 THEN kv' = Intended(ins.cmd) /\ rseen' = Witness
                       ELSE UNCHANGED <<kv, rseen>>
    /\ ins' = [ins EXCEPT !.lvl = @ + 1]
    /\ wpc' = IF ins.lvl + 1 = Cardinality(DOMAIN ins.upd) THEN "end" ELSE "link"
    /\ UNCHANGED <<imm, level0, applied, fpc, toFlush, rpc, rkey, rres, rmem, rcur, rlvl>>

\* One pass of Insert's bottom-up loop; the pass at level 0 makes the
\* entry visible to ForEach and to every reader.
ApplyLink ==
    /\ wpc = "link"
    /\ LET i == ins.lvl
       IN  /\ mts' = [mts EXCEPT ![Len(mts)] = Link(@, ins.e, ins.upd[i], i)]
           /\ IF i = 0 THEN kv' = Intended(ins.cmd) /\ rseen' = Witness
                       ELSE UNCHANGED <<kv, rseen>>
    /\ ins' = [ins EXCEPT !.lvl = @ + 1]
    /\ wpc' = IF ins.lvl + 1 = Cardinality(DOMAIN ins.upd) THEN "end" ELSE "link"
    /\ UNCHANGED <<imm, level0, applied, fpc, toFlush, rpc, rkey, rres, rmem, rcur, rlvl>>

\* Insert's bookkeeping, then MaybeScheduleFlush; write_mu_ is released.
ApplyEnd ==
    /\ wpc = "end"
    /\ Install(InsertEnd(Active))
    /\ wpc' = "idle"
    /\ ins' = NoIns
    /\ UNCHANGED <<level0, applied, kv, fpc, toFlush, rpc, rkey, rres, rmem, rcur, rlvl, rseen>>

\* FlushImmutableMemTable, first critical section: take the oldest
\* immutable memtable, or return false if there is none.
FlushPick ==
    /\ fpc = "idle"
    /\ imm # <<>>
    /\ toFlush' = Head(imm)
    /\ fpc' = "write"
    /\ UNCHANGED <<mts, imm, level0, applied, kv, wpc, ins, rpc, rkey, rres, rmem, rcur, rlvl, rseen>>

\* FlushImmutableMemTable's SSTableWriter, sized for the memtable's
\* EntryCount, given every entry ForEach walks, then finished.
WriteTable(m) ==
    Finish(FoldLeft(WriterAdd, NewWriter(m.count), ForEach(m)))

\* Mutant: pop_back for pop_front.
FlushInstallPopBack ==
    /\ fpc = "write"
    /\ level0' = Append(level0, WriteTable(mts[toFlush]))
    /\ imm' = Front(imm)
    /\ fpc' = "idle"
    /\ UNCHANGED <<mts, applied, kv, toFlush, wpc, ins, rpc, rkey, rres, rmem, rcur, rlvl, rseen>>

\* Write every entry (tombstones included) to a new SSTable, then, under
\* version_mu_, append it to a copy of levels[0] and pop the front memtable.
FlushInstall ==
    /\ fpc = "write"
    /\ level0' = Append(level0, WriteTable(mts[toFlush]))
    /\ imm' = Tail(imm)
    /\ fpc' = "idle"
    /\ UNCHANGED <<mts, applied, kv, toFlush, wpc, ins, rpc, rkey, rres, rmem, rcur, rlvl, rseen>>

\* A Get answers with res if it found the key (a tombstone is a miss that
\* stops the search), else goes on to pc.
Answer(r, res, pc) ==
    IF res.found
    THEN rpc' = [rpc EXCEPT ![r] = "done"] /\ rres' = [rres EXCEPT ![r] = ValueOf(res)]
    ELSE rpc' = [rpc EXCEPT ![r] = pc] /\ UNCHANGED rres

\* Coordinator::Get(key) calls LSMTree::Get.
GetStart(r, k) ==
    /\ rpc[r] = "idle"
    /\ rpc' = [rpc EXCEPT ![r] = "active"]
    /\ rkey' = [rkey EXCEPT ![r] = k]
    /\ rseen' = [rseen EXCEPT ![r] = {kv[k]}]
    /\ UNCHANGED <<mts, imm, level0, applied, kv, fpc, toFlush, wpc, ins, rres, rmem, rcur, rlvl>>

\* Step 1: active_memtable_ read without a lock, then FindGreaterOrEqual's
\* load of max_height_.
GetActive(r) ==
    /\ rpc[r] = "active"
    /\ rpc' = [rpc EXCEPT ![r] = "search"]
    /\ rmem' = [rmem EXCEPT ![r] = Len(mts)]
    /\ rcur' = [rcur EXCEPT ![r] = HeadNode]
    /\ rlvl' = [rlvl EXCEPT ![r] = Active.maxh - 1]
    /\ UNCHANGED <<mts, imm, level0, applied, kv, fpc, toFlush, wpc, ins, rkey, rres, rseen>>

\* One load of FindGreaterOrEqual's loop: on to the next node of this
\* level if it is before {key, UINT64_MAX}, else down a level.
GetSearch(r) ==
    /\ rpc[r] = "search"
    /\ rlvl[r] >= 0
    /\ LET nx == mts[rmem[r]].fwd[rcur[r]][rlvl[r]]
       IN  IF nx # Null /\ InternalLess(nx, LookupKey(rkey[r]))
           THEN rcur' = [rcur EXCEPT ![r] = nx] /\ UNCHANGED rlvl
           ELSE rlvl' = [rlvl EXCEPT ![r] = @ - 1] /\ UNCHANGED rcur
    /\ UNCHANGED <<mts, imm, level0, applied, kv, fpc, toFlush, wpc, ins, rpc, rkey, rres, rmem, rseen>>

\* FindGreaterOrEqual's last load, current->forward[0], and MemTable::Get's
\* check of the node: a hit or a tombstone answers, else on to step 2.
GetFound(r) ==
    /\ rpc[r] = "search"
    /\ rlvl[r] < 0
    /\ Answer(r, GetResultOf(mts[rmem[r]].fwd[rcur[r]][0], rkey[r]), "imm")
    /\ rmem' = [rmem EXCEPT ![r] = 1]
    /\ rcur' = [rcur EXCEPT ![r] = HeadNode]
    /\ rlvl' = [rlvl EXCEPT ![r] = 0]
    /\ UNCHANGED <<mts, imm, level0, applied, kv, fpc, toFlush, wpc, ins, rkey, rseen>>

\* Step 2: the immutable memtables, newest first, under version_mu_; no
\* writer inserts into them any more.
GetImm(r) ==
    /\ rpc[r] = "imm"
    /\ Answer(r, NewestFirst([i \in DOMAIN imm |-> MemGet(mts[imm[i]], rkey[r])]), "sst")
    /\ UNCHANGED <<mts, imm, level0, applied, kv, fpc, toFlush, wpc, ins, rkey, rmem, rcur, rlvl, rseen>>

\* Step 3: GetCurrentVersion, then SearchSSTables; not found is a miss.
GetSst(r) ==
    /\ rpc[r] = "sst"
    /\ rpc' = [rpc EXCEPT ![r] = "done_sst"]
    /\ rres' = [rres EXCEPT ![r] = ValueOf(NewestFirst([i \in DOMAIN level0 |-> SstGet(level0[i], rkey[r])]))]
    /\ UNCHANGED <<mts, imm, level0, applied, kv, fpc, toFlush, wpc, ins, rkey, rmem, rcur, rlvl, rseen>>

\* Coordinator::Get returns its OpResult.
GetReturn(r) ==
    /\ rpc[r] \in {"done", "done_sst"}
    /\ rpc' = [rpc EXCEPT ![r] = "idle"]
    /\ UNCHANGED <<mts, imm, level0, applied, kv, fpc, toFlush, wpc, ins, rkey, rres, rmem, rcur, rlvl, rseen>>

Next ==
    \/ \E c \in Commands : Apply(c)
    \/ ApplyLink
    \/ ApplyEnd
    \/ FlushPick
    \/ FlushInstall
    \/ \E r \in Readers :
        \/ \E k \in Keys : GetStart(r, k)
        \/ GetActive(r)
        \/ GetSearch(r)
        \/ GetFound(r)
        \/ GetImm(r)
        \/ GetSst(r)
        \/ GetReturn(r)

Spec == Init /\ [][Next]_vars

-----------------------------------------------------------------------------

TypeOK ==
    /\ \A m \in Range(mts) :
           /\ m.maxh \in 1..MaxHeight
           /\ DOMAIN m.fwd \ {HeadNode} \subseteq Entry
           /\ \A x \in DOMAIN m.fwd : \A i \in DOMAIN m.fwd[x] :
                  m.fwd[x][i] \in (DOMAIN m.fwd \ {HeadNode}) \cup {Null}
    /\ imm \in Seq(DOMAIN mts)
    /\ \A f \in Range(level0) : \A g \in Range(f) : g.kind \in {"data", "meta", "index", "footer"}
    /\ applied \in 0..MaxApplied
    /\ kv \in [Keys -> Vals \cup {NoVal}]
    /\ fpc \in {"idle", "write"}
    /\ wpc \in {"idle", "link", "end"}
    /\ rpc \in [Readers -> {"idle", "active", "search", "imm", "sst", "done", "done_sst"}]
    /\ rres \in [Readers -> Vals \cup {NoVal}]
    /\ rmem \in [Readers -> DOMAIN mts]
    /\ rlvl \in [Readers -> -1..MaxHeight - 1]

\* Every table of the engine, newest first: the active memtable, the
\* immutable ones from the back of the deque, then level 0 from its end.
Tables == <<Entries(Active)>> \o Reverse([i \in 1..Len(imm) |-> Entries(mts[imm[i]])])
                             \o Reverse([i \in 1..Len(level0) |-> FileEntries(level0[i])])

\* No write is lost or shadowed by rotation and flush (LSMTree::Put,
\* MaybeScheduleFlush, FlushImmutableMemTable): for every key, the newest
\* version in the first table that holds the key is the last value the
\* applier wrote, even while a flush is between its two critical sections.
StoredLatest ==
    LET ts == Tables
    IN  \A k \in Keys :
            LET holds == {i \in 1..Len(ts) : \E e \in ts[i] : e.key = k}
            IN  kv[k] = IF holds = {} THEN NoVal
                        ELSE ValueOf(Hit(Newest({e \in ts[Min(holds)] : e.key = k})))

\* The lock-free readers may stand anywhere in a memtable while Insert
\* runs: after every store of Insert's loop (bottom-up, update[] computed
\* before max_height_ was raised), in every memtable, active, frozen or
\* flushed, each level is sorted by InternalKey and holds only nodes of the
\* level below, so a search that goes down a level never skips a node.
SkipListOrdered == \A i \in DOMAIN mts : IsSkipList(mts[i])

\* An SSTable leads a lookup of any key it holds to the key's newest
\* version: the footer, bloom block and index that SSTableWriter::Finish
\* wrote parse back in SSTableReader::Init, the filter passes the key, and
\* FindBlock picks the data block that holds the newest version, however
\* SSTableWriter::Add and FlushDataBlock split a key's versions over blocks.
ReaderFindsNewest ==
    \A i \in DOMAIN level0 :
        LET f == level0[i]
            es == FileEntries(f)
            r == Open(f)
        IN  \A k \in {e.key : e \in es} :
                LET b   == FindBlock(r.index, k)
                    blk == ReadRegion(f, r.index[b].handle)
                IN  /\ r.ok
                    /\ MayContain(r.bloom, k)
                    /\ b # 0
                    /\ blk.ok
                    /\ EncodeInternalKey(Newest({e \in es : e.key = k}))
                           \in {x.key : x \in Range(blk.data)}

\* SSTableReader::Get finds, for every key a flushed file holds, the key's
\* newest version in that file (ScanBlock's best_seq scan).
SstGetFindsNewest ==
    \A i \in DOMAIN level0 :
        LET es == FileEntries(level0[i])
        IN  \A k \in {e.key : e \in es} :
                SstGet(level0[i], k) = Hit(Newest({e \in es : e.key = k}))

\* Every LSMTree::Get is linearizable, those the SSTables answer included.
GetLinearizable ==
    \A r \in Readers : rpc[r] \in {"done", "done_sst"} => rres[r] \in rseen[r]

=============================================================================
