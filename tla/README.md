# TLA+ models of the distributed cache server

These modules model the concurrent core of the cache server in `src/`:
- the segmented LRU cache and the CacheManager in front of a storage
  backend, with their write-through and write-back paths;
- the LSM storage engine with its write-ahead log, memtables, flush,
  compaction, crash and restart;
- the Raft nodes that order write commands;
- the RESP parser and one TCP connection of the server;
- the LSM tree of the separate `ai_kv_store` prototype, written by its
  Raft applier and read by its coordinator;
- the Raft node and log of that prototype.

TLC checks them in small configurations. This README describes what is
modelled, what each run checks and shows, and what is left for later.

## 1. The system and its parts (inventory)

| Part | Source | Concurrency | Modelled by |
|---|---|---|---|
| LRU shard: intrusive list plus map | `include/cache/lru_cache.h`, `node.h` | none (caller locks) | `LRUCache` over `DoublyLinkedList` (pure operators) |
| Segmented cache: N shards, one mutex each | `include/cache/segmented_cache.h` | one segment lock per call | `CacheManager` (`Cache*` helpers, one step per lock) |
| CacheManager: cache-aside get, write-through / write-back put, del, flush_all, shutdown, eviction hook | `unnamed/part_006` (`sync/cache_manager.h`) | client threads, worker thread, main thread | `CacheManager` |
| WriteBackWorker: periodic batched flush, stop with final flush | `include/persistence/storage_backend.h` (2nd file) | own thread | `CacheManager` (worker actions) |
| FileStorage backend | `include/persistence/storage_backend.h` (1st/2nd file) | internal mutex | `CacheManager` (`backend` map, `Outcomes`) |
| ClientHandler dispatcher | `unnamed/part_004` | one per connection | `KVRequest`, `Receive` |
| RESP parser | `include/network/resp_parser.h` | none | `RespParser` (pure operators) |
| TCP server: lifecycle and one connection | `include/network/tcp_server.h`, `src/tests/test_resp_parser.cpp` (`main`, `signal_handler`) | main thread in `accept_loop`, thread per connection, SIGINT handler | `TCPConnection` |
| HTTP dashboard server | `include/network/http_server.h`, `unnamed/part_000`, `part_002` | thread per connection | not modelled (I/O) |
| LSM engine | `unnamed/part_003` | writer threads, compaction thread | `LSMEngine` |
| WAL, memtable | `include/storage/wal.h`, `memtable.h` | under the engine's locks | `WAL`, `MemTable` (pure operators) |
| SSTable writer/reader | not in `src/` (spec 4.9) | none | `SSTable` (from the spec) |
| Raft node and log | `unnamed/part_005`, `include/raft/raft_log.h` | ticker, applier, client and dashboard HTTP threads per node; handlers run on the caller's thread | `RaftLog`, `RaftNode` |
| ai_kv_store LSMTree, MemTable | `ai_kv_store/include/storage/lsm_tree.h` | applier, readers, a flusher | `AiKvLSM` |
| ai_kv_store BloomFilter, SSTableWriter, SSTableReader | `ai_kv_store/include/storage/lsm_tree.h` | none | `AiKvSSTable` (pure operators) |
| ai_kv_store ConsistentHashRing | `ai_kv_store/include/core/shard_manager.h` (1st part) | readers lock | `AiKvRing` (pure operators) |
| ai_kv_store Coordinator | `ai_kv_store/include/core/shard_manager.h` (2nd file) | Raft applier, client threads | `AiKvLSM` (apply and read paths) |
| ai_kv_store Raft node and log | `unnamed/part_008` (`raft_node.h`), `part_007` (`raft_log.h`), transport in `ai_kv_store/src/main.cpp` | ticker, applier, gRPC handler and client threads per node, one `mu_` | `AiKvRaft` |
| ai_kv_store PINN, sharder statistics; ML; tests, demos | `ai_kv_store/`, `include/ml/`, `demo/` | - | not modelled |

How the parts interact on the cache path:
1. A connection thread parses a command and calls `CacheManager`.
2. Every cache access takes one segment lock. Every backend call takes the
   backend's mutex. Between two such calls of one operation, any other
   thread may run.
3. The LRU's eviction callback stores dirty evictees synchronously.
4. In write-back mode, the worker thread collects dirty entries one segment
   at a time. It stores them in batches and then clears their dirty flags
   one key at a time.
5. `shutdown` stops and joins the worker, runs a final flush, and then
   clears every segment.

How the parts interact in the LSM engine:
1. Writer threads `store`, `remove` or `batch_store`. Each one writes a WAL
   frame, inserts into the active memtable, and may rotate it.
2. A full memtable is frozen as `imm_`. The WAL is renamed to
   `rotating_*.wal` and a new one is opened.
3. The compaction thread flushes `imm_` into a new L0 table. When L0 holds
   enough tables, it merges L0 and L1 into one L1 table.
4. `load` reads the memtable, then `imm_`, then L0 newest first, then L1.
5. A restart replays `wal/current.wal` and re-reads the table directories.

How the Raft nodes interact:
1. `LocalRaftTransport` calls the peer's handler directly, on the caller's
   thread. A handler runs under the peer's `mu_`.
2. The ticker decides under `mu_`, then releases it and acts. A follower
   whose timer expired runs `StartElection`; a leader runs
   `SendHeartbeats`. Each prepares its arguments under `mu_`, then calls
   the peers one by one without it, taking `mu_` again to read each reply.
   The dashboard's `/api/election` calls `TriggerElection`, which runs
   `StartElection` on the HTTP thread, beside whatever the ticker does.
3. Exception: `BecomeLeader` runs inside `StartElection`'s lock and calls
   `SendHeartbeats`. That first round runs with `mu_` held.
4. The applier applies committed entries. Clients call `Propose` on the
   leader.

How a TCP connection works:
1. `handle_client` loops on `recv()`, which returns any non-empty prefix of
   the bytes the client has sent. It appends them to its buffer.
2. The inner loop calls `parse`. When the result has tokens and a
   non-zero consumed count, it executes the command, sends the reply and
   erases the consumed bytes. QUIT closes the connection. Otherwise it
   goes back to its outer loop, which tests `running_` before `recv()`.
3. The cache server's `main()` calls `start()`, whose `accept_loop` runs
   on the main thread: it accepts a connection and, holding
   `threads_mu_`, pushes the connection's handler thread. SIGINT runs
   `signal_handler` on the main thread, wherever it was; it calls
   `stop()`, which clears `running_`, closes the listening socket, and
   joins every handler thread under `threads_mu_`. `accept()` then fails,
   `start()` returns, `main()` calls `CacheManager::shutdown`, and
   `~TCPServer` calls `stop()` again.

How the ai_kv_store LSM tree is used:
1. The Raft applier calls `Coordinator::ApplyCommitted`, which calls
   `LSMTree::Put` or `Delete` under `write_mu_`. A full memtable is pushed
   onto `immutable_memtables_`, and a new one replaces it.
2. `Coordinator::Get` calls `LSMTree::Get` on client threads. Get reads
   the active memtable without a lock, then the immutable deque under
   `version_mu_`, then the SSTables of the current version.
3. `FlushImmutableMemTable` writes the oldest immutable memtable to a
   level-0 SSTable. It is meant for a background thread, but nothing in
   the code calls it yet.

How the ai_kv_store Raft nodes interact:
1. The ticker decides under `mu_`. A follower or candidate past its
   deadline runs `StartElection`; a leader runs `SendHeartbeats`, which
   calls `ReplicateTo` for each peer in id order and then
   `AdvanceCommitIndex`.
2. `ReplicateTo` and `StartElection` build a request under `mu_`, release
   it for the RPC, and take it again to read the reply. `ReplicateTo`
   returns early if the node is no longer leader of the request's term,
   but `SendHeartbeats` goes on to the next peer regardless.
3. The peer's handler runs on a gRPC thread under the peer's `mu_`.
4. The only transport in the code, `GrpcTransport` in `main.cpp`, is a
   placeholder: every call returns a failed reply of the request's term.
5. `RaftLog` keeps entries in a deque and appends each one to the
   `raft_log` file. `TruncateFrom` erases from the deque only. A restart
   reloads the term and vote from `raft_state` and replays `raft_log`.
6. The applier polls `commit_index_` every 5 ms and applies entries up to
   it.

## 2. Modules

- **`DoublyLinkedList`**: the intrusive list of `node.h` at the level of
  its pointers. A list is a record of the `next` and `prev` field of every
  node and of the sentinels `head_` and `tail_`, and of `size_`. A node is
  named by its key.
  - `PushFront`, `Detach`, `PopBack` and `MoveToFront` make the pointer
    assignments of the code one after the other, in the code's order, so
    an assignment read after an earlier one sees its effect.
  - `WalkNext` is the `node = node->next` loop of `dirty_entries`; a null
    pointer or a sentinel met on the way ends the walk.
- **`LRUCache`**: a shard as a record `[lst, ent, order]`.
  - `lst` is the pointer-level list, `ent` maps each cached key to
    `[val, dirty]` (the map of nodes). `order` is a ghost: the recency
    order, MRU first, that the list is meant to implement.
  - `Get`, `Put`, `Del`, `ClearDirty`, `Clear` and `DirtyEntries` translate
    the methods of the same names. `EvictWhile` is the `while (size >=
    capacity) evict_lru()` loop, and `EvictLru` is `evict_lru`. Each
    mutating operator returns the evictions in callback order, so the
    owner of the shard decides what the callback does.
  - `ListRefinesOrder` is the refinement of the ghost order by the
    pointers: walking `next` from `head_` gives `order`, walking `prev`
    from `tail_` gives it reversed, and `size_` counts it.
  - `last_access` is left out: the code writes it and never reads it.
- **`KVRequest`**: the requests a connection can send (GET, SET, DEL of one
  key, FLUSHALL) as records over small sets of keys and values.
- **`KVStore`**: the abstract specification. It is a linearizable key-value
  store with one request in flight per client. Each request takes effect in
  one `Apply` step. FLUSHALL leaves the store unchanged, because the backend
  keeps every persisted value (spec 4.3, "Flush-all").
- **`CacheManager`**: the detailed specification.
  - Variables:
    - `cache`: the segments.
    - `backend`: FileStorage's `data_`.
    - `pc`, `req`, `ret`, `iter`: the client threads.
    - `phase`, `clr`: the main thread's shutdown.
    - `wpc`, `snap`, `wseg`, `off`, `bi`: the locals of `WriteBackWorker::flush`.
  - Each action is one critical section of the code. For example, `get` is
    `GetCache` → `GetLoad` → `GetFill` → `GetClean`. Write-through `put` is
    `PutWriteThrough` → `WriteThroughStore` → `WriteThroughClean`. The worker
    is `WorkerWake` → `Collect` per segment → `StoreBatch` / `ClearBatch` per
    batch and key.
  - A failed store changes only the control flow. FileStorage updates
    `data_` before it writes the file, and LSMEngine::store always returns
    true.
  - The refinement mapping views the store as the cached value if present,
    else the backend's value. Each request is "done" once the step that makes
    it visible has run.
- **`MC_CacheManager`**: model values for keys, values and clients, plus the
  segment maps and per-client request sets that the `.cfg` files pick.
- **`MemTable`**: the skip list as a set of records `[key, seq, del, val]`.
  - `Insert` overwrites a record with the same key and sequence, as the
    skip list does.
  - `Get` returns the newest sequence of a key.
  - `ShouldFlush` counts entries instead of bytes.
  - `FlushPairs` is DoFlush's `ForEach`: every value record, old versions
    included, with deletion markers skipped.
- **`WAL`**: frames `[rec, ok]`.
  - The writer's state is a pair: the frames in the file, and the frames
    still in the ofstream buffer. `Append` leaves a frame in the buffer;
    `Sync` and `Close` flush it.
  - `Replay` stops at the first bad frame.
  - `CrashImages` is the file a crash leaves: any prefix of the buffer,
    possibly followed by one torn frame.
- **`SSTable`**: spec-modelled, because `sstable.h` is not in `src/`. A table
  is a function from key to value. When a key was added twice, either value
  may end up in the reader's index.
- **`LSMEngine`**: the engine (`unnamed/part_003`).
  - Disk state: `walFile`, `walBuf`, `rot` (the records of `rotating_*.wal`)
    and `files` (SSTables by `<<level, number>>`).
  - Memory state: `seq`, `mem`, `imm`, `pending`, `levels`, `counter`
    (`sstable_counter_`).
  - Writers: `WalWrite` (the WAL append under the WAL lock; `batch_store`
    syncs), then `MemInsert`, which also rotates and schedules a flush.
  - Compaction thread: `DoFlush`, then `CompactWrite` → `CompactRemoveL0` →
    `CompactInstall` for `CompactLevel(0)`, and `CompactionSleep` for an idle
    tick.
  - `Crash` picks a crash image of the WAL and runs the constructor's
    recovery: `RecoverFromWAL` reads `wal/current.wal` only, `LoadSSTables` lists
    each level directory in any order, and `sstable_counter_` is 0 again.
    `CleanRestart` runs the destructor first: it flushes the memtable and
    closes the WAL.
  - Ghost state: `hist` (records written and not lost), `persisted`, `made`
    and `crashes`. `Expected(k)` is the newest surviving record of k.
- **`MC_LSMEngine`**: model values and per-thread request sets.
- **`RaftLog`**: the first `RaftLog` definition of `raft_log.h` as operators
  over a sequence of `[term, index, cmd]`.
  - `GetEntry` and `TermAt` search by the index field, while `TruncateFrom`
    cuts by position.
  - `MatchesAt` accepts an index the log does not hold.
  - `SaveState`/`LoadState` and `AppendEntryToFile`/`RewriteLog`/
    `LoadEntries` are the encodings of `raft_state.dat` and
    `raft_log.dat`: the term and vote, and per entry its term, index,
    command length and command.
- **`RaftNode`**: the nodes of `unnamed/part_005`.
  - Per node: the persistent `currentTerm`, `votedFor` and `log`, and the
    volatile `role`, `votes`, `commitIndex`, `lastApplied`, `nextIndex` and
    `matchIndex`.
  - Two threads per node run rounds (`Threads`): the ticker and the HTTP
    thread. Each has `tpc`, the peers still to call (`pending`), the
    prepared arguments (`rvArgs`, `hbs`), the last reply, and `held`, TRUE
    while its round runs inside `BecomeLeader` with `mu_` held.
  - Ticker actions: `TickerDecide` (the locked check of `TickerLoop`),
    then `Timeout` (the locked part of `StartElection`, with no role check,
    as in the code) or `Heartbeat` (`SendHeartbeats`, which returns when
    the node is no longer leader), and `TickerIdle`. `Trigger` is
    `TriggerElection` on the HTTP thread.
  - Round actions, for either thread: `CallRequestVote` /
    `CallAppendEntries` and `OnVoteReply` / `OnAppendReply`.
  - A call step runs the peer's whole handler, `HandleRequestVote` or
    `HandleAppendEntries`. It is enabled only while no thread of the peer
    holds `mu_` (`MuFree`). Every other locked step of a thread waits
    until no other thread of its node holds `mu_` (`MuFreeFor`). The reply
    step is one lock section, and its disjuncts are the early returns of
    the loop body.
  - `Propose`, `Apply` and `ApplierIdle` are the client and the applier.
  - `Restart` (when `MayRestart`) restarts the process hosting the
    cluster: every node is rebuilt from its files (`StateFile`,
    `LogFile`, read back by `LoadState` and `LoadEntries`) as a follower
    with commit and applied indexes 0, and every thread is idle.
  - Ghost state: `leaders` (every `<<term, node>>` that became leader) and
    `applied` (the entries each applier applied).
  - The election timer is abstract: a node in `Timeouts` that is not
    leader may time out whenever its ticker is idle. `Triggers` names the
    nodes `/api/election` may pick. The model follows the
    Windows build, where `compat::Mutex` is recursive.
- **`RespParser`**: `RESPParser` as operators over a buffer, which is a
  sequence of one-byte strings.
  - `parse`, `parse_array` and `parse_inline` return a record
    `[thrown, tokens, consumed]`. `thrown` is set when `std::stoi` would
    throw.
  - The element loop of `parse_array` is the recursive function
    `ArrayElems` over its loop state. `Stoi`, `Find` and `Substr` follow
    the library calls, including `npos` and a wrapped `size_t` length.
  - `EncodeArray` is `encode_array`, the framing a RESP client sends.
  - The parsers are functions of the buffer, so TLC evaluates each one
    once per state, also while it checks liveness.
- **`TCPConnection`**: one connection of `handle_client` and its client.
  - Client: `Send` appends a framed command to `wire`; `ClientClose` runs
    once every request was answered.
  - Handler: `Recv(n)` moves n bytes from `wire` to `buffer`; `RecvEof`
    is `recv()` returning 0. Then `Parse` → `Execute` or `NeedMore`.
  - `executed` lists the token lists handed to `execute`. Execution is
    abstracted to "the command ran", except QUIT.
  - `Check` is the outer loop's `running_` test.
  - Main thread (`srv`): `Start`, `Top` (the `while (running_)` of
    `accept_loop`), `Accept`, `LockThreads`, `Spawn`, then
    `ManagerShutdown` (`mgrDown`, and `downExec` records how many
    commands had run), `DtorStop` and `DtorJoin`.
  - Signal handler (`sig`): `Signal`, `SigLock`, `SigJoin`. While it
    runs, the main thread takes no step. `SigLock` has no step while the
    main thread holds `threads_mu_`: `std::mutex` locked twice by one
    thread never returns.
- **`MC_TCPConnection`**: the command sets. `MCArrayCommands` holds a
  GET-like, a SET-like and a QUIT command. `MCInlineCommands` holds one
  telnet line and an empty line.
- **`AiKvLSM`**: the ai_kv_store LSM tree and the coordinator's use of it.
  - A memtable is the pointer-level skip list of `AiKvSkipList`; every
    memtable ever made stays in `mts` (a `shared_ptr` keeps it alive for
    a reader), the active one last, and `imm` holds indexes into it. Its
    `sequence_` starts at 0 in every memtable. An SSTable is the file `AiKvSSTable`'s
    writer produces from the memtable's `ForEach`, and `GetSst` reads it
    through `SstGet`.
  - `Apply` is `ApplyCommitted` → `LSMTree::Put`/`Delete` up to
    `Insert`'s loop (`update[]`, `RandomHeight` as any height up to
    `MaxHeight`, `max_height_` raised, the node created). `ApplyLink` is
    one pass of the bottom-up loop (its two stores in one step: the node
    becomes reachable at a level only by the second); `ApplyEnd` is the
    bookkeeping, `MaybeScheduleFlush` and `RotateMemTable`. `FlushPick` and `FlushInstall` are the two
    critical sections of `FlushImmutableMemTable`.
  - A reader runs `GetStart` → `GetActive` (the unlocked read of
    `active_memtable_` and of `max_height_`) → `GetSearch`, one pointer
    load of `FindGreaterOrEqual` per step → `GetFound` (the final load
    of `current->forward[0]` and `MemTable::Get`'s check) → `GetImm` →
    `GetSst` → `GetReturn`. The first hit ends the Get.
  - `TableGet` is `ScanBlock`: it keeps an entry only if `seq > best_seq`,
    where `best_seq` starts at 0.
  - Ghost state: `kv` (each key's last applied value) and `rseen` (the
    values a reader's key held while its Get ran).
  - Neither the WAL (written and never read) nor `CompactLevel` (a
    placeholder that changes no state) is modelled.
- **`AiKvSkipList`**: `MemTable`'s skip list as operators. A node is
  named by its entry (sequences make entries unique); a memtable is the
  forward array of `head_` and of every node, `max_height_`,
  `sequence_` and `entry_count_`. `InsertBegin`, `Link` and `InsertEnd`
  cut `Insert` where its stores become visible; `FindGreaterOrEqual`,
  `MemGet` and `ForEach` follow the pointers. `IsSkipList` states what
  a reader relies on: every level sorted and contained in the one below.
- **`AiKvSSTable`**: the table format of `lsm_tree.h` as operators.
  - A file is the sequence of regions the writer wrote, each with its
    offset, size in bytes and contents; byte strings are kept as what
    they encode, their lengths come from `KeyBytes` and `ValBytes`.
  - `WriterAdd`, `FlushDataBlock` and `Finish` are `SSTableWriter`; the
    block is cut once it has reached `block_size`, then the bloom meta
    block, the index and the 40-byte footer follow.
  - `Open`, `FindBlock`, `ScanBlock` and `SstGet` are `SSTableReader`. A
    seek to an offset that is not a region's start reads nothing
    parseable. `BloomSerialize` and `BloomDeserialize` follow the bit
    layout; `BloomFilter::Hash` is the constant operator `BloomHash`.
- **`AiKvRing`**: `ConsistentHashRing` as operators over a record of
  `ring_` (vnode hash to shard id) and the ids in `shards_`. `AddShard`,
  `RemoveShard` and `GetShard` (lower_bound, wrapping to the first vnode,
  0 on an empty ring) translate the methods; `CoordinatorRing` is the ring
  the `Coordinator` constructor builds. `absl::HashOf` is the constant
  functions `KeyHash` and `VNodeHash` into a scaled-down hash space.
  `Successor` is the reference: the shard of the vnode nearest clockwise.
- **`MC_AiKvLSM`**: model values, the symmetry of values and readers, the
  key and bloom hashes, and the ring of two shards of two vnodes.
- **`AiKvRaft`**: the ai_kv_store Raft node and log.
  - State: `role`, `currentTerm`, `votedFor`, the deque `log`, the file
    records `disk`, `commitIndex`, `lastApplied`, the applier's snapshot
    `applyTo`, `nextIndex` and `matchIndex`, and `tk`, the ticker's round
    in progress (step, peers left, request, reply, votes).
  - Ticker: `TickElection` and `TickHeartbeat` start a round;
    `TickerIdle` is a wake-up before any deadline. `RvSend`/`AeSend` are
    the RPC with `mu_` released, and the callee's handler runs inside
    them. `RvRecv`/`AeRecv` are the code after `mu_` is taken again.
    `RvRecv` may call `BecomeLeader`, which appends the no-op entry and
    prepares the first `ReplicateTo`.
  - Fault model: each RPC either returns the handler's reply, or returns
    the stub's failed reply (`RvFailed`, `AeFailed`) after the handler
    ran, or before it ran.
  - `HandleRequestVote` and `HandleAppendEntries` follow the code's rules.
    `ConflictStart` is the walk back over the conflicting term. `Merge`
    is rule 3: it truncates the deque and returns the records appended to
    the file.
  - `ApplierWake` reads `commit_index_`; `ApplyNext` is one pass of the
    inner loop. `Propose` appends a client command on a leader.
    `Restart` sets `log` to `disk`, and commit and applied indexes to 0.
  - Ghosts: `elected` (every `BecomeLeader`) and `appliedSet` (every
    entry handed to `apply_cb_`).
- **`MC_AiKvRaft`**: model values for the commands.

The PROJECT.json "map" names the source lines of every definition.

## 3. Runs

| Run | Module | Bounds | Checks | Result |
|---|---|---|---|---|
| `wt_disjoint` | MC_CacheManager | write-through; 2 clients on disjoint keys; 3 keys, 2 segments, capacity 1; failing stores | `TypeOK`, `LRUOrderImplemented`, `KVRefinement` | pass |
| `wb_liveness` | MC_CacheManager | write-back; 1 client; 2 keys in 2 segments; batch 2; `batch_store` may fail forever; weak fairness | `DirtyEventuallyFlushed`, `ShutdownTerminates` | pass |
| `lsm_reads` | MC_LSMEngine | 2 writers on 2 keys, 2 values; store and batch_store; flush at 1 entry, L0 trigger 2; no restarts | `LoadSeesLatest` | violation (finding) |
| `lsm_restart` | MC_LSMEngine | 1 writer, 1 key; up to 2 crashes or clean restarts; weak fairness on the compaction thread | `TypeOK`, `ImmEventuallyFlushed` | pass |
| `lsm_rotated_wal` | MC_LSMEngine | store and batch_store; 1 crash | `LoadSeesLatest` | violation (finding) |
| `raft_pair` | RaftNode | 2 nodes, both timers live, triggers on both nodes; terms up to 2; 1 log entry; process restarts | `TypeOK` | pass |
| `raft_deadlock` | RaftNode | 2 nodes, both timers live, trigger on node 0; terms up to 3; no restarts; weak fairness on rounds | `RoundsComplete` | violation (finding) |
| `raft_double_vote` | RaftNode | 3 nodes, all timers live; term 1 | `ElectionSafety` | violation (finding) |
| `resp_framing` | MC_TCPConnection | RESP arrays; up to 2 pipelined commands; recv() chunks of every size; SIGINT at any point; weak fairness on the handler and the main thread | `TypeOK`, `FramingSafe`, `NoCommandAfterShutdown`, `AllAnswered` | pass |
| `aikv_store` | MC_AiKvLSM | 2 keys, 2 values; up to 3 applied commands; skip-list height 2; freeze at 2 entries; block size 20 bytes; a flusher; 1 reader; 2 shards of 2 vnodes | `TypeOK`, `StoredLatest`, `SkipListOrdered`, `ReaderFindsNewest`, `RingRoutesClockwise` | pass |
| `aikv_get_race` | MC_AiKvLSM | 2 applied commands, no rotation; 1 reader | `GetLinearizable` | violation (finding) |
| `aikv_raft` | MC_AiKvRaft | 2 nodes; terms up to 2; 1 proposal; 1 restart; RPCs fail as the stub does | `TypeOK`, `ElectionSafety`, `VoteBinds` | pass |

More configurations are kept beside the runs. Each one demonstrates a bug
that PROJECT.json lists as a hazard:

| Cfg | Module | Checks | Result |
|---|---|---|---|
| `wb_lost_update.cfg` | MC_CacheManager | `CleanMeansPersisted`, write-back, SETs only | violated |
| `wb_del_resurrect.cfg` | MC_CacheManager | `KVRefinement`, SET and DEL on keys sharing a segment | violated |
| `lsm_tombstone.cfg` | MC_LSMEngine | `LoadSeesLatest`, store then remove of one key, L0 trigger 3 | violated |
| `lsm_sst_overwrite.cfg` | MC_LSMEngine | `LiveTablesImmutable` after one restart | violated |
| `resp_inline_split.cfg` | MC_TCPConnection | `FramingSafe` with inline lines | violated |
| `aikv_seq0.cfg` | MC_AiKvLSM | `SstGetFindsNewest` | violated in 9 states |
| `resp_inline_stall.cfg` | MC_TCPConnection | `AllAnswered` with inline lines | violated |
| `tcp_stop_hang.cfg` | MC_TCPConnection | `ServerExits`: after SIGINT the process reaches the end of `main()` | violated in 7 states |
| `aikv_raft_stale.cfg` | MC_AiKvRaft | `StateMachineSafety`, 3 nodes, no proposals | violated in 20 states |
| `aikv_raft_log_file.cfg` | MC_AiKvRaft | `LogFileHoldsLog`, 3 nodes | violated in 10 states |

What the passing runs show:
- **Write-through on disjoint keys.** When two clients use disjoint keys,
  the cache and backend together implement `KVStore`. This holds through
  evictions, FLUSHALL from the other client, failed stores and shutdown.
  Through every eviction,
  move to front, erase and clear, the list's pointers, walked forwards and
  backwards, hold exactly the recency order, and `size_` counts it
  (`LRUOrderImplemented`).
- **Write-back liveness.** `batch_store` may fail at any call. Provided
  it does not fail at every attempt from some point on (`BackendRecovers`,
  strong fairness on a successful call: an assumption about the backend,
  stated inside the property), every dirty entry is eventually persisted
  or evicted through the hook: a failed tick leaves the flags set and a
  later tick collects the entry again.
- **Shutdown under store failures.** Shutdown completes even when
  `batch_store` keeps failing, because `flush` returns on failure instead of
  retrying.
- **LSM flush liveness.** Across crashes and restarts, a frozen memtable is
  always flushed eventually. The record counters stay in range across
  the restarts (`TypeOK`).
- **Raft with two nodes and the dashboard.** Either node may be sent into
  an election by `/api/election` at any moment, beside both tickers, and
  the process may restart from the nodes' files. Every index and term the
  handlers write stays in range (`TypeOK`); a `match_index` set one past
  the log breaks it. This run is a reachability check of the two-node
  protocol: the bugs of `RaftNode` need three nodes (`raft_double_vote`)
  or fairness (`raft_deadlock`). Deadlock checking is off in this run
  because the cluster really can stop, as `raft_deadlock` shows.
- **RESP framing and server shutdown.** A client may pipeline two RESP
  arrays, and `recv()` may cut the stream anywhere. The handler still
  executes exactly the commands sent, in order: none early, split, merged
  or twice (`FramingSafe`). While the server runs, every one is
  eventually executed (`AllAnswered`). Wherever SIGINT lands, no command
  runs after `main()` has shut the `CacheManager` down
  (`NoCommandAfterShutdown`): `stop()` joins the handler before
  `accept_loop` can return, and a handler spawned after `stop()` sees
  `running_` false before its first `recv()`. A `stop()` that returned
  without joining breaks it. `tcp_stop_hang.cfg` shows the other side
  of that join: the process need not exit (`ServerExits`). SIGINT while
  `accept_loop` holds `threads_mu_` makes `stop()` lock it a second time
  on the same thread, and with an idle client connected the join never
  returns; a SIGINT before `start()` is undone by its `running_ = true`.
- **ai_kv_store LSM tree.** Across rotation and a concurrent flush, the
  newest version of every key in the newest table holding it is the last
  value applied (`StoredLatest`). This includes the moment between the
  flush's two critical sections. After every store of `Insert`'s
  bottom-up loop, each level of every memtable is sorted and contained in
  the level below (`SkipListOrdered`), so a lock-free search that goes
  down a level never passes a linked node. Every
  SSTable the flush writes parses back and leads a lookup of each key it
  holds to the data block with the key's newest version, also when the
  versions straddle a block boundary (`ReaderFindsNewest`). The key a Get
  routes goes to the clockwise successor of its hash on the Coordinator's
  ring and on every ring `RemoveShard` leaves, at a vnode's exact hash and
  past the last vnode (`RingRoutesClockwise`).
- **ai_kv_store Raft with two nodes.** Through elections in which any RPC
  may fail before or after its handler ran, a proposal and a restart that
  replays `raft_log`, there is at most one leader per term
  (`ElectionSafety`). A vote, once cast, is never changed within its term,
  also across a restart (`VoteBinds`): the constructor reloads the
  `voted_for_` that `PersistTermAndVote` wrote before the reply left. A
  restart that forgot the vote breaks it.

What the violations show: each is a finding in PROJECT.json.
- **Flush writes superseded versions** (`lsm_reads`). `DoFlush` writes
  every `kValue` record of the frozen memtable into the new L0 table, not
  only the latest one of each key (spec 4.7 says only the latest). With
  two values, a write of k1 = v1 and then k1 = v2 in one memtable gives a
  table that holds both, and the lookup in the table can return v1, so
  `load` misses the newest write.
- **Get misses a key during a concurrent insert** (`aikv_get_race`).
  `FindGreaterOrEqual` ends its search on the last node before the key
  and then loads `current->forward[0]` again. The trace:
  1. Put k2 = v1 completes.
  2. Get(k2) starts; at level 0 it stands on `head_`, whose next node is
     k2.
  3. Put k1 links its node after `head_`.
  4. The Get's final load returns the k1 node; `MemTable::Get` sees
     another key and reports a miss; the deque and the SSTables are
     empty, so Get(k2) returns not found.
  With a frozen memtable holding an older k2, the same race returns the
  older value. LevelDB's search returns the node it compared last.
  The bug is latent in the shipped binary: no gRPC service runs
  `LSMTree::Get` beside the applier yet.
- **Rotated WAL never replayed.** `RecoverFromWAL` reads only `wal/current.wal`. A
  crash after a rotation and before the flush loses every write that sits
  only in `rotating_*.wal` (spec §8 property 10, §4.8).
- **Stale vote, then two leaders waiting on each other.** `StartElection`
  counts a granted reply whose term is not above the current one, without
  comparing it with the term it asked for. The trace:
  1. Node 0's ticker decides to start an election (it is a follower), and
     so does node 1's.
  2. Node 0's HTTP thread runs `TriggerElection` into term 1, and node 1
     grants it. The reply is not read yet.
  3. Node 1's ticker starts term 2, and node 0 grants it.
  4. Node 0's ticker, on its old decision, starts term 3.
  5. Node 0's HTTP thread reads its term-1 vote, counts it against term 3
     and becomes leader of term 3. Node 1 becomes leader of term 2.
  6. Each `BecomeLeader` round holds its node's `mu_` and calls the other
     node, whose `mu_` is held. Neither round ever ends.
  Spec §5 says a thread releases `mu_` before issuing peer RPCs. With
  triggers on both nodes, the same stale vote gives two leaders of one
  term (ElectionSafety fails in 9 states); that is kept as a hazard.
- **Double vote.** `HandleAppendEntries` calls `BecomeFollower` also on an
  equal term, and its `SetTerm` clears `voted_for`. The trace:
  1. Node 1 wins term 1 with node 0's vote.
  2. Node 1's first heartbeat clears node 0's vote.
  3. Node 2 times out into term 1, and node 0 grants it.
  4. Two leaders hold term 1.

What the extra configurations show:
- **Lost update in the write-back worker** (`wb_lost_update.cfg`). The
  worker's `clearer_` marks clean a value written after the worker
  collected an older one.
- **DEL undone by the worker** (`wb_del_resurrect.cfg`). The worker's
  `batch_store` resurrects a deleted key.
- **Tombstone dropped at flush** (`lsm_tombstone.cfg`). DoFlush skips
  deletion markers, so a `remove` flushed into its own L0 table leaves
  nothing to hide the older value in an earlier table. `load` returns it
  again (spec §8 property 9, §4.7).
- **Inline command stalls the connection** (`resp_inline_stall.cfg`). `parse_inline` consumes an
  unterminated line. "GET k" read without its CRLF runs at once. The CRLF
  that arrives next parses as an empty line with 2 bytes consumed, and
  `handle_client` leaves its loop on empty tokens without erasing them.
  Every later command on the connection then waits forever (spec 4.10,
  6.1).
- **Stale leader overwrites a committed entry** (`aikv_raft_stale.cfg`).
  The trace, with three nodes:
  1. Node 2 leads term 1 and appends its no-op at index 1.
  2. Node 1 wins term 2 with node 0's vote; node 0 stores node 1's term-2
     no-op at index 1, and node 1 commits it.
  3. Node 2's heartbeat round of term 1 gets node 0's reply of term 2 and
     steps down, but `SendHeartbeats` goes on to node 1.
  4. The request it builds carries term 2 and node 2's log, so node 1
     replaces its committed index 1 with the term-1 no-op.
  5. Nodes 0 and 1 apply different entries at index 1.
  The bug is latent: the placeholder transport fails every RPC.
- **Truncation kept in `raft_log`** (`aikv_raft_log_file.cfg`).
  `TruncateFrom` erases the conflicting entries from the deque but not
  from the file, so a restart replays them before their replacements. The
  spec says truncation on conflict rewrites the file.
- **Inline command split** (`resp_inline_split.cfg`). "GET k" cut by
  `recv()` into "GET" and " k\r\n" runs as two commands.
- **Sequence 0 invisible in an ai_kv SSTable** (`aikv_seq0.cfg`). The
  trace: put k1, put k2 (the memtable freezes), flush, then Get(k1)
  returns not found. k1 was the memtable's first entry, with sequence 0,
  and `ScanBlock` only keeps entries whose sequence exceeds 0. This bug is
  latent, because nothing calls `FlushImmutableMemTable` yet.

The cache's write-through races remain hazards under the same properties,
and no separate run is kept for them:
- `get`'s backfill clears a concurrent SET's dirty flag;
- two writers clear each other's flag;
- a backfill reinserts a value a DEL just removed.

The LSM engine also overwrites an SSTable file after a restart.
`sstable_counter_` restarts at 0, so the next flush rewrites `sst_0.sst`,
which level 0 still lists. `LiveTablesImmutable` states this, and TLC
breaks it under `lsm_sst_overwrite.cfg` after one restart and one flush.
That configuration is kept beside the runs but is not one of them, and the
hazard list records the bug.

Every property of a passing run has a mutant in PROJECT.json that TLC
catches. The Raft mutant is a `match_index` one past the last index
(`TypeOK`).

Among the others:
- `push_front` without `head_->next->prev = node` (`LRUOrderImplemented`);
- `put` that does not evict before an insert (`TypeOK`);
- `lower_bound` replaced by `upper_bound` in `GetShard`
  (`RingRoutesClockwise`);
- `FindBlock` with `>` for `>=` (`ReaderFindsNewest`).
- `Insert`'s loop run top-down, from the node's top level to level 0
  (`SkipListOrdered`);
- `MaybeScheduleFlush` rotating without pushing the memtable onto the
  deque (`StoredLatest`).

The ai_kv_store Raft mutants are:
- a vote granted without looking at `voted_for_` (`ElectionSafety`);
- a restart that does not reload `voted_for_` (`VoteBinds`);
- `next_index` stepped back by one on a failure, without the conflict
  hint or the clamp at 1 (`TypeOK`).

Among the rest: `RandomHeight` looping while `height <= kMaxHeight`, so a
node gets a level the memtable does not have (`TypeOK` of `aikv_store`),
and a WAL record given `++sequence_` in place of `sequence_++`, which
runs the sequence past its bound (`TypeOK` of `lsm_restart`).

**Bounds.**
- Cache:
  - Capacity 1 per segment makes every insert into an occupied segment
    evict.
  - Two segments let a flush interleave between segment locks.
  - Two values let a stale value be told apart from a fresh one.
- LSM:
  - Flush at one entry makes every write rotate.
  - An L0 trigger of 2 makes the second flush compact.
  - Two writers give both orders of WAL append and memtable insert.
  - One crash or restart is enough for both restart findings.
- Raft, two nodes:
  - `raft_pair` reaches terms 1 and 2, so a leader can be deposed and a
    second elected; term 3 with both triggers takes it past five
    minutes. `raft_deadlock` reaches term 3 with one trigger.
  - Logs hold one entry, so entries of two terms can meet at index 1.
    With two entries the state space grows to 1.8 million states.
  - A double vote needs three nodes: one to vote twice and two
    candidates. This is why `raft_pair` checks no election property and
    `raft_double_vote` uses three nodes. With three nodes the double vote
    is found at term 1 in 7 steps.

- RESP/TCP:
  - Two commands give a pipeline: a second command behind the first in
    one buffer, whole or cut. One- and two-byte tokens make multi-digit
    counts unnecessary, yet `recv()` can still cut a count, a length or
    a CRLF in half. A third command, with the server's lifecycle around
    the connection, takes the run past five minutes.
  - SIGINT may arrive at every step of the main thread, before `start()`
    included, and at every step of the handler.
  - Two inline commands are enough for the stall: one cut before its
    CRLF, then one that waits forever.
- ai_kv_store:
  - Freezing at two entries makes the first entry of each memtable have
    sequence 0 and a second entry besides. Three commands give a frozen
    memtable, its flush and an insert into the next memtable during the
    flush; a fourth would give two frozen memtables but takes the run
    past five minutes with the pointer-level skip list.
  - Height 2 lets a node be linked on a level above another's, so the
    bottom-up order of `Insert`'s loop matters.
  - A block size of 20 bytes with the record sizes of `MC_AiKvLSM` cuts
    a table between two versions of one key in some runs and not in
    others.
  - The ring's hashes put one key exactly on a vnode and the other past
    the last vnode, the two boundaries of `lower_bound`.
  - One reader is enough: the readers do not interact.
- ai_kv_store Raft, two nodes:
  - Two terms let a node be deposed and a second leader elected.
  - One proposal and the leaders' no-ops give logs of two or three
    entries of two terms, so an out-of-date candidate can be refused.
  - One restart lets a node replay `raft_log` and re-apply its entries.
  - Two nodes never truncate a log: a follower can only hold entries of
    the one other node. Truncation and the stale-leader round need three
    nodes, which the extra configurations use; a passing three-node run
    with proposals and restarts is beyond five minutes.

**Fairness.**
- The write-back worker gets weak fairness. It wakes at least once per
  `flush_interval`, and each of its steps is a single lock or backend call.
- The main thread gets weak fairness once it starts `shutdown`.
- The LSM compaction thread gets weak fairness. It loops with a 100 ms
  sleep.
- Every Raft round, of the ticker or of the HTTP thread, gets weak
  fairness in `raft_deadlock`. A round calls its peers back to back, with
  no sleep between them.
- The TCP handler thread gets weak fairness on `recv()`, on `recv()`
  returning 0 after the client closed, and on each step of its loop.
  `recv()` returns once bytes are there, and the loop never blocks. The
  main thread gets weak fairness: `accept()` returns once the client's
  connection is pending. So does `stop()` once the signal handler has
  begun it. The client and the signal get none.
- `aikv_raft` has no liveness property and no fairness: with the
  placeholder transport no election can succeed, so nothing is promised
  to happen.
- `aikv_store` has no liveness property. Nothing in the code calls the
  flush, so no fairness on it would be justified.
- Clients, LSM writers, restarts, election timers, heartbeat ticks and
  the dashboard get none.
- Deadlock checking is off in the cache runs, because the system really
  stops after shutdown, and in the Raft runs with a trigger, because two
  leaders can wait on each other forever. It is on elsewhere: the compaction thread, the Raft
  ticker and the Raft applier loop forever, and their idle iterations are
  actions.

## 4. Not modelled, and why

- **Manual `CacheManager::flush`.** The tests call it from client threads,
  concurrently with the worker. It is not modelled yet.
- **Disk contents of FileStorage and a backend restart.** The model keeps
  only the in-memory map, so the eviction hook's ignored store result does
  not matter in it.
- **Read-only commands** (EXISTS, KEYS, DBSIZE, INFO, PING) and stats
  counters. They change no state.
- **Multi-key DEL.** It is a loop of single DELs.
- **LSM:**
  - `ForceCompaction` and levels 2 and 3. Only `CompactLevel(0)` is
    ever called.
  - The unlocked read of the `memtable_` / `wal_` pointers during
    rotation, which is a data race. The model makes rotation and insert
    separate steps of the writer.
  - The bloom filter. It only short-circuits misses.
- **Raft:**
  - A crash inside a file write: a torn `RewriteLog` or a partly written
    entry. The restart is modelled between steps only.
  - The POSIX build. There, `BecomeLeader`'s second lock of `std::mutex`
    never returns, and every node's first term as leader hangs.
  - The second `RaftLog` definition that follows the first in
    `raft_log.h`. The model uses the first.
  - The 5-node cluster of the test driver. It is beyond TLC. Three nodes
    already show the double vote.
- **The HTTP dashboard.** Its detached threads only read statistics or
  call `TriggerElection`, which `RaftNode` models.
- **More than one TCP connection.** Connections share only the
  `CacheManager`, which `CacheManager` models, and the join of `stop()`,
  which one blocked connection already shows. `init_socket`'s failures
  make `start()` return at once; `send_all`'s partial sends are not
  checked by the code.
- **Replies and the contents of `ClientHandler::execute` on the TCP path.**
  The cache model covers what the commands do.
- **The ML code and the ai_kv_store PINN.**
- **ai_kv_store:**
  - In its Raft node: the tensor payload of entries, snapshots and
    `leader_id_` hints; the check-then-act race between `Propose`'s
    role check and the append (the model makes `Propose` one step); and
    the applier's unlocked `Entry()` pointer, which a truncation may free.
  - `ConsistentHashRing`'s overrides and `MigrateKeyRange`, which
    nothing calls, and the statistics the routed shard feeds.
  - WAL append failures, which `ApplyCommitted` ignores.
  - The data race of `Get`'s unlocked read of `active_memtable_`. The
    model reads it atomically.
  - The memory order of the skip list's atomics: the model is
    sequentially consistent, which the release stores and acquire
    loads give the single writer and its readers here.
  - The memtable's destructor, which only frees memory.

## 5. Plan for the remaining components

1. Raft: a crash inside `RewriteLog`, leaving a torn file.
2. Cache: a second flusher (manual `flush`).
3. The `ai_kv_store` Raft node composed with `AiKvLSM` through
   `ApplyCommitted`, and a three-node run within the time bound.
4. The TCP server with two connections, one idle, within the time bound.
