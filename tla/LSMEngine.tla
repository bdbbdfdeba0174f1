------------------------------ MODULE LSMEngine ------------------------------
(***************************************************************************)
(* LSMEngine (unnamed/part_003) over the memtable, WAL and SSTable         *)
(* operators: writer threads running store / remove / batch_store, the    *)
(* compaction thread running DoFlush and CompactLevel(0), a process crash  *)
(* and a clean restart through the destructor, each followed by the       *)
(* constructor's RecoverFromWAL and LoadSSTables.                          *)
(*                                                                         *)
(* Disk state: the current.wal file (walFile) with the ofstream buffer in  *)
(* front of it (walBuf), the records of rotating_*.wal files (rot), and    *)
(* the SSTable files by name <<level, number>> (files).  Memory state:     *)
(* sequence_ (seq), memtable_ (mem), imm_memtable_ (imm, {} when null),    *)
(* flush_pending_ (pending), levels_[0..1] (levels) and sstable_counter_   *)
(* (counter).  Only CompactLevel(0) is ever called, so levels 2 and 3 stay *)
(* empty and are left out.                                                 *)
(*                                                                         *)
(* Ghost state: hist, the records that have been inserted into a memtable *)
(* and not lost by a restart; persisted, the records whose frame reached a *)
(* WAL file or whose memtable reached an SSTable; made, a creation stamp   *)
(* of SSTable files; crashes, the restarts so far.                         *)
(***************************************************************************)
EXTENDS Naturals, Sequences, SequencesExt, FiniteSets, TLC

CONSTANTS Keys, Vals, NoVal,
          Writers,      \* threads calling the StorageBackend interface
          Requests,     \* Requests[w]: the calls thread w may make
          FlushAt,      \* memtable entries at which ShouldFlush holds
          L0Trig,       \* kL0CompactTrig
          MaxSeq,       \* bound on sequence numbers per run of the engine
          MaxRestarts   \* bound on crashes and restarts

Mem == INSTANCE MemTable
Log == INSTANCE WAL
Sst == INSTANCE SSTable

Levels == 0..1
Req == [kind : {"store", "remove", "batch"}, key : Keys, val : Vals]
Rec == [key : Keys, seq : 0..MaxSeq - 1, del : BOOLEAN,
        val : Vals \cup {NoVal}, ep : 0..MaxRestarts]

\* The record slot of a thread that has not yet called anything.
NoRecord == [key |-> NoVal, seq |-> 0, del |-> FALSE, val |-> NoVal, ep |-> 0]

ASSUME Requests \in [Writers -> SUBSET Req]
ASSUME FlushAt \in Nat \ {0} /\ L0Trig \in Nat \ {0}

VARIABLES seq, mem, imm, pending, walFile, walBuf, rot, files, levels,
          counter, pc, cur, cpc, out, hist, persisted, made, crashes

vars == <<seq, mem, imm, pending, walFile, walBuf, rot, files, levels,
          counter, pc, cur, cpc, out, hist, persisted, made, crashes>>

-----------------------------------------------------------------------------
(* Reading.                                                                *)

\* The index of a table file; a reader whose file was removed finds nothing.
Tab(n) == IF n \in DOMAIN files THEN files[n].tab ELSE Sst!EmptyTable

\* load step 3: level 0 from the last registered table backwards, then level 1.
SstLoad(k) ==
  LET order == Reverse(levels[0]) \o Reverse(levels[1])
      i == SelectInSeq(order, LAMBDA n : Sst!Has(Tab(n), k))
  IN  IF i = 0 THEN NoVal ELSE Tab(order[i])[k]

\* LSMEngine::load: active memtable, then the immutable one, then SSTables.
\* The result is a value (Hit) or NoVal (Miss).
Load(k) ==
  LET a == Mem!Get(mem, k)
      b == Mem!Get(imm, k)
  IN  IF a # Mem!Absent THEN a
      ELSE IF b # Mem!Absent THEN b
      ELSE SstLoad(k)

-----------------------------------------------------------------------------
(* Writers.                                                                *)

\* Mutant: the record takes the incremented counter (++sequence_).
NewRecPreIncrement(r, s) ==
  [key |-> r.key, seq |-> s + 1, del |-> r.kind = "remove",
   val |-> IF r.kind = "remove" THEN NoVal ELSE r.val, ep |-> crashes]

\* The WALRecord built by store / remove / batch_store for sequence s.
NewRec(r, s) ==
  [key |-> r.key, seq |-> s, del |-> r.kind = "remove",
   val |-> IF r.kind = "remove" THEN NoVal ELSE r.val, ep |-> crashes]

\* seq = sequence_++ and wal_->Append(rec), or for batch_store
\* wal_->AppendBatch, which ends in Sync and so flushes the whole buffer.
WalWrite(w) ==
  /\ pc[w] = "idle"
  /\ seq < MaxSeq
  /\ \E r \in Requests[w] :
       LET rc == NewRec(r, seq)
       IN  /\ cur' = [cur EXCEPT ![w] = rc]
           /\ IF r.kind = "batch"
                THEN /\ walFile' = Log!Flush(walFile, Log!WriteFrame(walBuf, rc))
                     /\ walBuf' = <<>>
                     /\ persisted' = persisted \cup ToSet(Log!Replay(walBuf))
                                               \cup {rc}
                ELSE /\ walBuf' = Log!WriteFrame(walBuf, rc)
                     /\ UNCHANGED <<walFile, persisted>>
  /\ seq' = seq + 1
  /\ pc' = [pc EXCEPT ![w] = "mem"]
  /\ UNCHANGED <<mem, imm, pending, rot, files, levels, counter, cpc, out,
                 hist, made, crashes>>

\* memtable_->Put / Delete into whichever memtable is active now.
MemInsert(w) ==
  /\ pc[w] = "mem"
  /\ mem' = Mem!Insert(mem, cur[w])
  /\ hist' = hist \cup {cur[w]}
  /\ pc' = [pc EXCEPT ![w] = "sched"]
  /\ UNCHANGED <<seq, imm, pending, walFile, walBuf, rot, files, levels,
                 counter, cur, cpc, out, persisted, made, crashes>>

\* Mutant: the rotation forgets to set flush_pending_.
RotateNoPending ==
  /\ imm' = mem
  /\ mem' = {}
  /\ rot' = rot \cup ToSet(Log!Replay(Log!Flush(walFile, walBuf)))
  /\ persisted' = persisted \cup ToSet(Log!Replay(walBuf))
  /\ walFile' = <<>>
  /\ walBuf' = <<>>
  /\ pending' = pending

\* MaybeScheduleFlush: freeze the memtable, close current.wal (flushing its
\* buffer) and rename it to rotating_<seq>.wal, open a fresh current.wal.
Rotate ==
  /\ imm' = mem
  /\ mem' = {}
  /\ rot' = rot \cup ToSet(Log!Replay(Log!Flush(walFile, walBuf)))
  /\ persisted' = persisted \cup ToSet(Log!Replay(walBuf))
  /\ walFile' = <<>>
  /\ walBuf' = <<>>
  /\ pending' = TRUE

MaybeScheduleFlush(w) ==
  /\ pc[w] = "sched"
  /\ IF Mem!ShouldFlush(mem, FlushAt) /\ imm = {}
       THEN Rotate
       ELSE UNCHANGED <<mem, imm, pending, walFile, walBuf, rot, persisted>>
  /\ pc' = [pc EXCEPT ![w] = "idle"]
  /\ UNCHANGED <<seq, files, levels, counter, cur, cpc, out, hist, made,
                 crashes>>

-----------------------------------------------------------------------------
(* Compaction thread.                                                      *)

\* DoFlush (imm_mu_ held): write sst/L0/sst_<counter>.sst from the kValue
\* records of the immutable memtable, register it at the end of level 0,
\* release the memtable, clear flush_pending_, delete rotating_*.wal.
FlushImm(m) ==
  /\ \E t \in Sst!Tables(Mem!FlushPairs(m)) :
       files' = (<<0, counter>> :> [tab |-> t, born |-> made]) @@ files
  /\ levels' = [levels EXCEPT ![0] = Append(@, <<0, counter>>)]
  /\ counter' = counter + 1
  /\ made' = made + 1
  /\ imm' = {}
  /\ pending' = FALSE
  /\ rot' = {}
  /\ persisted' = persisted \cup m

DoFlush ==
  /\ cpc = "idle"
  /\ pending /\ imm # {}
  /\ FlushImm(imm)
  /\ UNCHANGED <<seq, mem, walFile, walBuf, pc, cur, cpc, out, hist, crashes>>

\* CompactLevel(0), merge: level-0 tables in registration order, a later one
\* overwriting an earlier one; then keys of level-1 tables not yet present.
Merge(l0, l1) ==
  LET upper == FoldLeft(LAMBDA acc, n : Tab(n) @@ acc, Sst!EmptyTable, l0)
  IN  FoldLeft(LAMBDA acc, n : acc @@ Tab(n), upper, l1)

\* CompactionLoop's trigger and CompactLevel(0) up to writer.Finish() of
\* sst/L1/sst_<counter>.sst (sst_mu_ held throughout).
CompactWrite ==
  /\ cpc = "idle"
  /\ Len(levels[0]) >= L0Trig
  /\ files' = (<<1, counter>> :> [tab |-> Merge(levels[0], levels[1]),
                                  born |-> made]) @@ files
  /\ out' = <<1, counter>>
  /\ counter' = counter + 1
  /\ made' = made + 1
  /\ cpc' = "install"
  /\ UNCHANGED <<seq, mem, imm, pending, walFile, walBuf, rot, levels, pc,
                 cur, hist, persisted, crashes>>

\* CompactLevel(0) goes on with std::remove of every listed L0 file by path.
CompactRemoveL0 ==
  /\ cpc = "install"
  /\ files' = [n \in DOMAIN files \ ToSet(levels[0]) |-> files[n]]
  /\ cpc' = "removeL1"
  /\ UNCHANGED <<seq, mem, imm, pending, walFile, walBuf, rot, levels, counter,
                 pc, cur, out, hist, persisted, made, crashes>>

\* ... then std::remove of every listed L1 file, clear both lists and
\* register the new table in level 1; sst_mu_ is released.
CompactInstall ==
  /\ cpc = "removeL1"
  /\ files' = [n \in DOMAIN files \ ToSet(levels[1]) |-> files[n]]
  /\ levels' = [l \in Levels |-> IF l = 0 THEN <<>> ELSE <<out>>]
  /\ cpc' = "idle"
  /\ UNCHANGED <<seq, mem, imm, pending, walFile, walBuf, rot, counter, pc,
                 cur, out, hist, persisted, made, crashes>>

\* A CompactionLoop iteration with nothing to flush or compact: it sleeps
\* 100 ms and changes nothing.
CompactionSleep ==
  /\ cpc = "idle"
  /\ ~(pending /\ imm # {})
  /\ Len(levels[0]) < L0Trig
  /\ UNCHANGED vars

-----------------------------------------------------------------------------
(* Restart.                                                                *)

\* The constructor after a restart with the given current.wal and SSTable
\* files: RecoverFromWAL replays current.wal only (rotating_*.wal files are
\* not read), sequence_ becomes one past the largest replayed sequence,
\* sstable_counter_ starts at 0, and LoadSSTables lists each level directory
\* in readdir order, which is any order.
Recover(file, fs) ==
  LET recs == Log!Replay(file)
  IN  /\ mem' = FoldLeft(LAMBDA m, r : Mem!Insert(m, r), {}, recs)
      /\ seq' = FoldLeft(LAMBDA s, r : IF r.seq >= s THEN r.seq + 1 ELSE s,
                         0, recs)
      /\ imm' = {}
      /\ pending' = FALSE
      /\ counter' = 0
      /\ \E l0 \in SetToSeqs({n \in DOMAIN fs : n[1] = 0}),
            l1 \in SetToSeqs({n \in DOMAIN fs : n[1] = 1}) :
           levels' = [l \in Levels |-> IF l = 0 THEN l0 ELSE l1]
      /\ pc' = [w \in Writers |-> "idle"]
      /\ cpc' = "idle"
      /\ crashes' = crashes + 1

\* The process dies at any point: the ofstream buffer is partly written,
\* threads in flight vanish, and every record that never reached a WAL file
\* or an SSTable is gone.  A call caught between its WAL append and its
\* memtable insert may take effect through the replay (spec 4.8).
Crash ==
  /\ crashes < MaxRestarts
  /\ \E img \in Log!CrashImages(walFile, walBuf) :
       LET keep == persisted \cup ToSet(Log!Replay(img))
       IN  /\ walFile' = img
           /\ walBuf' = <<>>
           /\ persisted' = keep
           /\ hist' = (hist \cup {cur[w] : w \in {x \in Writers : pc[x] = "mem"}})
                      \cap keep
           /\ Recover(img, files)
  /\ UNCHANGED <<rot, files, cur, out, made>>

\* ~LSMEngine with no call in flight: join the compaction thread, then
\* FlushMemTable (freeze the active memtable only if no immutable one is
\* pending, flush the immutable one), then close the WAL; then restart.
CleanRestart ==
  /\ crashes < MaxRestarts
  /\ \A w \in Writers : pc[w] = "idle"
  /\ cpc = "idle"
  /\ LET flushing == IF imm = {} THEN mem ELSE imm
         file == Log!Flush(walFile, walBuf)
     IN  /\ walFile' = file
         /\ walBuf' = <<>>
         /\ hist' = hist
         /\ IF flushing # {}
              THEN /\ \E t \in Sst!Tables(Mem!FlushPairs(flushing)) :
                        LET fs == (<<0, counter>> :> [tab |-> t, born |-> made])
                                  @@ files
                        IN  /\ files' = fs
                            /\ Recover(file, fs)
                   /\ made' = made + 1
                   /\ rot' = {}
                   /\ persisted' = persisted \cup flushing
                                   \cup ToSet(Log!Replay(file))
              ELSE /\ Recover(file, files)
                   /\ UNCHANGED <<files, made, rot>>
                   /\ persisted' = persisted \cup ToSet(Log!Replay(file))
  /\ UNCHANGED <<cur, out>>

-----------------------------------------------------------------------------

Init ==
  /\ seq = 0 /\ mem = {} /\ imm = {} /\ pending = FALSE
  /\ walFile = <<>> /\ walBuf = <<>> /\ rot = {}
  /\ files = [n \in {} |-> [tab |-> Sst!EmptyTable, born |-> 0]]
  /\ levels = [l \in Levels |-> <<>>]
  /\ counter = 0
  /\ pc = [w \in Writers |-> "idle"]
  /\ cur = [w \in Writers |-> NoRecord]
  /\ cpc = "idle" /\ out = <<0, 0>>
  /\ hist = {} /\ persisted = {} /\ made = 0 /\ crashes = 0

WriterStep == \E w \in Writers : WalWrite(w) \/ MemInsert(w)
                                 \/ MaybeScheduleFlush(w)

CompactorStep == DoFlush \/ CompactWrite \/ CompactRemoveL0 \/ CompactInstall

Next == WriterStep \/ CompactorStep \/ CompactionSleep \/ Crash \/ CleanRestart

Spec == Init /\ [][Next]_vars

\* The compaction thread wakes every 100 ms; writers and restarts get none.
FairSpec == Spec /\ WF_vars(CompactorStep)

-----------------------------------------------------------------------------
(* Properties.                                                             *)

TypeOK ==
  /\ seq \in 0..MaxSeq
  /\ mem \subseteq Rec /\ imm \subseteq Rec /\ pending \in BOOLEAN
  /\ walFile \in Seq([rec : Rec, ok : BOOLEAN])
  /\ walBuf \in Seq([rec : Rec, ok : BOOLEAN])
  /\ rot \subseteq Rec
  /\ \A n \in DOMAIN files : n \in Levels \X Nat /\ DOMAIN files[n].tab \subseteq Keys
  /\ \A l \in Levels : levels[l] \in Seq(Levels \X Nat)
  /\ pc \in [Writers -> {"idle", "mem", "sched"}]
  /\ cur \in [Writers -> Rec \cup {NoRecord}]
  /\ cpc \in {"idle", "install", "removeL1"}
  /\ hist \subseteq Rec /\ persisted \subseteq Rec
  /\ crashes \in 0..MaxRestarts

\* What load(k) must return: the newest record of k that has been inserted
\* and, across restarts, reached disk.  Records of an earlier run of the
\* engine are older than every record of a later one.
Newer(r, s) == r.ep > s.ep \/ (r.ep = s.ep /\ r.seq > s.seq)

Expected(k) ==
  LET h == {r \in hist : r.key = k}
  IN  IF h = {} THEN NoVal
      ELSE LET r == CHOOSE r \in h : \A s \in h \ {r} : Newer(r, s)
           IN  IF r.del THEN NoVal ELSE r.val

\* Spec section 8, properties 9 and 10: load(k) returns the value of the
\* latest store of k (Miss after remove) whatever flushes, compactions and
\* restarts have run since, as long as that store reached a WAL file or an
\* SSTable before a crash.  Covers LSMEngine::load, DoFlush, CompactLevel,
\* MaybeScheduleFlush's WAL rotation and RecoverFromWAL.  While CompactLevel
\* holds sst_mu_ a load waits for it, so the property is asked of the states
\* in which the compaction thread is not inside CompactLevel.
LoadSeesLatest == cpc = "idle" => \A k \in Keys : Load(k) = Expected(k)

\* A frozen memtable is eventually written to level 0 by the compaction
\* thread (CompactionLoop / DoFlush), so the immutable slot frees and the
\* next rotation can happen.
ImmEventuallyFlushed == imm # {} ~> imm = {}

\* A table file that a level list refers to is never rewritten: DoFlush and
\* CompactLevel write only new sst_<counter>.sst names.
LiveTablesImmutable ==
  [][\A n \in ToSet(levels[0]) \cup ToSet(levels[1]) :
       n \in DOMAIN files /\ n \in DOMAIN files' => files'[n] = files[n]]_vars

=============================================================================
