---------------------------- MODULE CacheManager ----------------------------
(***************************************************************************)
(* The cache layer of the server: the SegmentedCache of LRU shards         *)
(* (src/include/cache/segmented_cache.h), the CacheManager that puts it in *)
(* front of a storage backend (src/unnamed/part_006, sync/cache_manager.h) *)
(* and the WriteBackWorker thread (storage_backend.h, write_back_worker).  *)
(*                                                                         *)
(* Actors                                                                  *)
(*   - client threads (one per TCP connection), each executing one        *)
(*     request at a time: GET, SET, DEL or FLUSHALL;                       *)
(*   - the write-back worker thread (write-back mode only);               *)
(*   - the main thread, which runs CacheManager::shutdown once every      *)
(*     client thread has been joined.                                      *)
(*                                                                         *)
(* Atomicity: one step is one critical section of the code.  A segment    *)
(* operation runs under that segment's mutex; a backend call runs under   *)
(* the backend's own mutex (FileStorage::mu_).  Between two such calls    *)
(* of one operation any other thread may run.                               *)
(*                                                                         *)
(* The backend is the in-memory map the backend serves loads from.        *)
(* FileStorage::store and batch_store update data_ and only then write    *)
(* the file, so a failed call (returning false) has still changed the      *)
(* map; LSMEngine::store never fails.  A failure therefore only changes    *)
(* the control flow of the caller.                                          *)
(***************************************************************************)
EXTENDS Naturals, Sequences, SequencesExt, FiniteSets

CONSTANTS
    Keys,          \* keys
    Vals,          \* values a client may write
    NoVal,         \* "no value": a miss, or a key absent from the backend
    Clients,       \* client threads
    NSegs,         \* N_SEGMENTS
    SegOf,         \* hasher_(key) % N_SEGMENTS, as a function Keys -> 1..NSegs
    Capacity,      \* per_segment = max(1, total_capacity / N_SEGMENTS)
    Mode,          \* "WriteThrough" or "WriteBack"
    BatchLimit,    \* BATCH_LIMIT of WriteBackWorker::flush
    StoreMayFail,  \* whether store / batch_store may return false
    Requests       \* Requests[c]: the requests client c may send

Segs == 1..NSegs

ASSUME /\ NoVal \notin Vals
       /\ SegOf \in [Keys -> Segs]
       /\ Capacity \in Nat \ {0}
       /\ Mode \in {"WriteThrough", "WriteBack"}
       /\ BatchLimit \in Nat \ {0}
       /\ StoreMayFail \in BOOLEAN

LRU == INSTANCE LRUCache

VARIABLES
    cache,    \* segments_[i].cache, for i in Segs
    backend,  \* the backend's map: Keys -> Vals \cup {NoVal}
    pc,       \* client program counters
    req,      \* the request each client is executing
    ret,      \* GET: the value returned / loaded from the backend
    iter,     \* FLUSHALL: the segment a client's cache_.clear() is at
    phase,    \* "running", "stopping", "final", "clearing", "down"
    clr,      \* the segment the main thread's final cache_.clear() is at
    wpc,      \* write-back worker program counter
    snap,     \* flush(): the collected dirty entries, <<key, value>> pairs
    wseg,     \* flush(): the segment the collector is at
    off,      \* flush(): offset of the current batch in snap
    bi        \* flush(): index in the current batch of the next clearer_ call

vars == <<cache, backend, pc, req, ret, iter, phase, clr, wpc, snap, wseg, off, bi>>
workerVars == <<wpc, snap, wseg, off, bi>>

Cmd == INSTANCE KVRequest

Outcomes == IF StoreMayFail THEN BOOLEAN ELSE {TRUE}

-----------------------------------------------------------------------------
(* Backend and segment helpers                                             *)

\* Store every <<key, value>> pair of kvs into the map b, in order.
StoreAll(b, kvs) ==
    [k \in Keys |->
        LET i == SelectLastInSeq(kvs, LAMBDA e : e[1] = k)
        IN IF i = 0 THEN b[k] ELSE kvs[i][2]]

\* Mutant: no eviction callback installed; evicted entries are dropped.
EvictionHookDropped(b, ev) == b

\* The eviction callback installed by the CacheManager constructor:
\* `if (dirty && backend_) backend_->store(key, value);`, result ignored.
EvictionHook(b, ev) ==
    LET d == SelectSeq(ev, LAMBDA e : e.dirty)
    IN StoreAll(b, [i \in 1..Len(d) |-> <<d[i].key, d[i].val>>])

Seg(k) == cache[SegOf[k]]

\* SegmentedCache::put / del: the shard operation and its callbacks, under
\* the segment lock.
CachePut(k, v) ==
    LET r == LRU!Put(Seg(k), k, v, Capacity) IN
    /\ cache' = [cache EXCEPT ![SegOf[k]] = r.sh]
    /\ backend' = EvictionHook(backend, r.ev)

CacheDel(k) ==
    LET r == LRU!Del(Seg(k), k) IN
    /\ cache' = [cache EXCEPT ![SegOf[k]] = r.sh]
    /\ backend' = EvictionHook(backend, r.ev)

CacheClearDirty(k) == cache' = [cache EXCEPT ![SegOf[k]] = LRU!ClearDirty(@, k)]

CacheClearSegment(s) ==
    LET r == LRU!Clear(cache[s]) IN
    /\ cache' = [cache EXCEPT ![s] = r.sh]
    /\ backend' = EvictionHook(backend, r.ev)

-----------------------------------------------------------------------------
(* Initial state: empty cache; the backend holds whatever was persisted.   *)

Init ==
    /\ cache = [s \in Segs |-> LRU!EmptyShard]
    /\ backend \in [Keys -> Vals \cup {NoVal}]
    /\ pc = [c \in Clients |-> "idle"]
    /\ req = [c \in Clients |-> Cmd!NoRequest]
    /\ ret = [c \in Clients |-> NoVal]
    /\ iter = [c \in Clients |-> 1]
    /\ phase = "running"
    /\ clr = 1
    /\ wpc = IF Mode = "WriteBack" THEN "wait" ELSE "none"
    /\ snap = <<>>
    /\ wseg = 1
    /\ off = 0
    /\ bi = 1

-----------------------------------------------------------------------------
(* Client threads: ClientHandler::execute dispatching to CacheManager.     *)

Goto(c, l) == pc' = [pc EXCEPT ![c] = l]

\* A parsed command is dispatched (TCPServer::handle_client).
Receive(c, r) ==
    /\ phase = "running"
    /\ pc[c] = "idle"
    /\ r \in Requests[c]
    /\ Goto(c, r.kind)
    /\ req' = [req EXCEPT ![c] = r]
    /\ ret' = [ret EXCEPT ![c] = NoVal]
    /\ iter' = [iter EXCEPT ![c] = 1]
    /\ UNCHANGED <<cache, backend, phase, clr>> /\ UNCHANGED workerVars

\* CacheManager::get step 1: cache_.get(key).  A hit promotes the key and
\* returns; a miss goes on to the backend.
GetCache(c) ==
    LET k == req[c].key IN
    /\ pc[c] = "get"
    /\ cache' = [cache EXCEPT ![SegOf[k]] = LRU!Get(@, k)]
    /\ IF k \in LRU!Cached(Seg(k))
       THEN /\ ret' = [ret EXCEPT ![c] = Seg(k).ent[k].val]
            /\ Goto(c, "idle")
       ELSE /\ Goto(c, "get_load")
            /\ UNCHANGED ret
    /\ UNCHANGED <<backend, req, iter, phase, clr>> /\ UNCHANGED workerVars

\* Step 2: backend_->load(key).  Not found: return Miss.
GetLoad(c) ==
    LET k == req[c].key IN
    /\ pc[c] = "get_load"
    /\ ret' = [ret EXCEPT ![c] = backend[k]]
    /\ Goto(c, IF backend[k] = NoVal THEN "idle" ELSE "get_fill")
    /\ UNCHANGED <<cache, backend, req, iter, phase, clr>> /\ UNCHANGED workerVars

\* Step 3: cache_.put(key, db_val.value) -- marks the entry dirty.
GetFill(c) ==
    /\ pc[c] = "get_fill"
    /\ CachePut(req[c].key, ret[c])
    /\ Goto(c, "get_clean")
    /\ UNCHANGED <<req, ret, iter, phase, clr>> /\ UNCHANGED workerVars

\* Step 4: cache_.clear_dirty(key) -- "came from DB, so it's clean".
GetClean(c) ==
    /\ pc[c] = "get_clean"
    /\ CacheClearDirty(req[c].key)
    /\ Goto(c, "idle")
    /\ UNCHANGED <<backend, req, ret, iter, phase, clr>> /\ UNCHANGED workerVars

\* put_write_back: cache_.put and return OK.
PutWriteBack(c) ==
    /\ pc[c] = "put"
    /\ Mode = "WriteBack"
    /\ CachePut(req[c].key, req[c].val)
    /\ Goto(c, "idle")
    /\ UNCHANGED <<req, ret, iter, phase, clr>> /\ UNCHANGED workerVars

\* put_write_through step 1: cache_.put.
PutWriteThrough(c) ==
    /\ pc[c] = "put"
    /\ Mode = "WriteThrough"
    /\ CachePut(req[c].key, req[c].val)
    /\ Goto(c, "wt_store")
    /\ UNCHANGED <<req, ret, iter, phase, clr>> /\ UNCHANGED workerVars

\* Step 2: backend_->store; on failure return false without clear_dirty.
WriteThroughStore(c) ==
    /\ pc[c] = "wt_store"
    /\ backend' = [backend EXCEPT ![req[c].key] = req[c].val]
    /\ \E ok \in Outcomes : Goto(c, IF ok THEN "wt_clean" ELSE "idle")
    /\ UNCHANGED <<cache, req, ret, iter, phase, clr>> /\ UNCHANGED workerVars

\* Step 3: cache_.clear_dirty(key) -- "persisted successfully".
WriteThroughClean(c) ==
    /\ pc[c] = "wt_clean"
    /\ CacheClearDirty(req[c].key)
    /\ Goto(c, "idle")
    /\ UNCHANGED <<backend, req, ret, iter, phase, clr>> /\ UNCHANGED workerVars

\* CacheManager::del step 1: cache_.del(key) (the callback persists a dirty
\* entry).
DelCache(c) ==
    /\ pc[c] = "del"
    /\ CacheDel(req[c].key)
    /\ Goto(c, "del_backend")
    /\ UNCHANGED <<req, ret, iter, phase, clr>> /\ UNCHANGED workerVars

\* Step 2: backend_->remove(key).
DelBackend(c) ==
    /\ pc[c] = "del_backend"
    /\ backend' = [backend EXCEPT ![req[c].key] = NoVal]
    /\ Goto(c, "idle")
    /\ UNCHANGED <<cache, req, ret, iter, phase, clr>> /\ UNCHANGED workerVars

\* CacheManager::flush_all = SegmentedCache::clear: one segment lock at a
\* time, each LRUCache::clear evicting through the callback.
FlushAllSegment(c) ==
    /\ pc[c] = "flushall"
    /\ CacheClearSegment(iter[c])
    /\ IF iter[c] < NSegs
       THEN /\ iter' = [iter EXCEPT ![c] = @ + 1]
            /\ UNCHANGED pc
       ELSE /\ Goto(c, "idle")
            /\ UNCHANGED iter
    /\ UNCHANGED <<req, ret, phase, clr>> /\ UNCHANGED workerVars

-----------------------------------------------------------------------------
(* WriteBackWorker::flush, run by the worker thread (run_loop) and, after  *)
(* the join, by the main thread (stop).                                    *)

BeginFlush ==
    /\ wpc' = "collect"
    /\ snap' = <<>>
    /\ wseg' = 1
    /\ off' = 0
    /\ bi' = 1

\* Leaving flush(): back to run_loop, or (final flush) on to cache_.clear.
EndFlush ==
    IF phase = "final"
    THEN /\ wpc' = "stopped"
         /\ phase' = "clearing"
         /\ clr' = 1
    ELSE /\ wpc' = "wait"
         /\ UNCHANGED <<phase, clr>>

\* Mutant: the collector's loop stops one segment short.
CollectSkipLast ==
    LET s == snap \o LRU!DirtyEntries(cache[wseg]) IN
    /\ wpc = "collect"
    /\ snap' = s
    /\ IF wseg < NSegs - 1
       THEN /\ wseg' = wseg + 1
            /\ UNCHANGED <<wpc, off, phase, clr>>
       ELSE /\ wseg' = wseg
            /\ IF s = <<>>
               THEN EndFlush /\ UNCHANGED off
               ELSE wpc' = "store" /\ off' = 0 /\ UNCHANGED <<phase, clr>>
    /\ UNCHANGED <<cache, backend, bi>>
    /\ UNCHANGED <<pc, req, ret, iter>>

\* The collector cache_.dirty_entries(): one segment lock at a time.
\* `if (dirty.empty()) return;` once all segments are read.
Collect ==
    LET s == snap \o LRU!DirtyEntries(cache[wseg]) IN
    /\ wpc = "collect"
    /\ snap' = s
    /\ IF wseg < NSegs
       THEN /\ wseg' = wseg + 1
            /\ UNCHANGED <<wpc, off, phase, clr>>
       ELSE /\ wseg' = wseg
            /\ IF s = <<>>
               THEN EndFlush /\ UNCHANGED off
               ELSE wpc' = "store" /\ off' = 0 /\ UNCHANGED <<phase, clr>>
    /\ UNCHANGED <<cache, backend, bi>>
    /\ UNCHANGED <<pc, req, ret, iter>>

BatchEnd == IF off + BatchLimit < Len(snap) THEN off + BatchLimit ELSE Len(snap)

\* Mutant: a failed batch_store restarts flush() from the collector.
StoreBatchRestart ==
    /\ wpc = "store"
    /\ backend' = StoreAll(backend, SubSeq(snap, off + 1, BatchEnd))
    /\ \E ok \in Outcomes :
          IF ok THEN wpc' = "clear" /\ bi' = 1 /\ UNCHANGED <<snap, wseg, off>>
                ELSE BeginFlush
    /\ UNCHANGED <<cache, phase, clr>>
    /\ UNCHANGED <<pc, req, ret, iter>>

\* backend_->batch_store(batch); on failure log and return.
StoreBatch ==
    /\ wpc = "store"
    /\ backend' = StoreAll(backend, SubSeq(snap, off + 1, BatchEnd))
    /\ \E ok \in Outcomes :
          IF ok THEN wpc' = "clear" /\ bi' = 1 /\ UNCHANGED <<phase, clr>>
                ELSE EndFlush /\ UNCHANGED bi
    /\ UNCHANGED <<cache, snap, wseg, off>>
    /\ UNCHANGED <<pc, req, ret, iter>>

\* clearer_(batch[i].first), i.e. cache_.clear_dirty, one lock each; then
\* `offset = end` and the next batch, or the end of flush().
ClearBatch ==
    LET i == off + bi IN
    /\ wpc = "clear"
    /\ CacheClearDirty(snap[i][1])
    /\ IF i < BatchEnd
       THEN bi' = bi + 1 /\ UNCHANGED <<wpc, off, phase, clr>>
       ELSE /\ off' = i
            /\ UNCHANGED bi
            /\ IF i < Len(snap)
               THEN wpc' = "store" /\ UNCHANGED <<phase, clr>>
               ELSE EndFlush
    /\ UNCHANGED <<backend, snap, wseg>>
    /\ UNCHANGED <<pc, req, ret, iter>>

\* run_loop: cv_.wait_for(interval, !running_) returned with running_ set.
WorkerWake ==
    /\ wpc = "wait"
    /\ phase = "running"
    /\ BeginFlush
    /\ UNCHANGED <<cache, backend, phase, clr>>
    /\ UNCHANGED <<pc, req, ret, iter>>

\* run_loop: running_ is false, the loop exits and the thread ends.
WorkerExit ==
    /\ wpc = "wait"
    /\ phase = "stopping"
    /\ wpc' = "exited"
    /\ UNCHANGED <<cache, backend, snap, wseg, off, bi, phase, clr>>
    /\ UNCHANGED <<pc, req, ret, iter>>

-----------------------------------------------------------------------------
(* Main thread: CacheManager::shutdown, after every client was joined.     *)

\* wb_worker_->stop(): running_ = false (write-back), else straight to
\* cache_.clear().
Shutdown ==
    /\ phase = "running"
    /\ \A c \in Clients : pc[c] = "idle"
    /\ IF Mode = "WriteBack" THEN phase' = "stopping" ELSE phase' = "clearing"
    /\ UNCHANGED <<cache, backend, clr>> /\ UNCHANGED workerVars
    /\ UNCHANGED <<pc, req, ret, iter>>

\* stop(): after thread_.join(), the final flush().
StopFlush ==
    /\ phase = "stopping"
    /\ wpc = "exited"
    /\ phase' = "final"
    /\ BeginFlush
    /\ UNCHANGED <<cache, backend, clr>>
    /\ UNCHANGED <<pc, req, ret, iter>>

\* cache_.clear(): "Final eviction flush", one segment at a time.
ClearOnShutdown ==
    /\ phase = "clearing"
    /\ CacheClearSegment(clr)
    /\ IF clr < NSegs
       THEN clr' = clr + 1 /\ UNCHANGED phase
       ELSE phase' = "down" /\ UNCHANGED clr
    /\ UNCHANGED workerVars
    /\ UNCHANGED <<pc, req, ret, iter>>

-----------------------------------------------------------------------------

ClientStep(c) ==
    \/ \E r \in Requests[c] : Receive(c, r)
    \/ GetCache(c) \/ GetLoad(c) \/ GetFill(c) \/ GetClean(c)
    \/ PutWriteBack(c) \/ PutWriteThrough(c)
    \/ WriteThroughStore(c) \/ WriteThroughClean(c)
    \/ DelCache(c) \/ DelBackend(c)
    \/ FlushAllSegment(c)

WorkerStep == WorkerWake \/ Collect \/ StoreBatch \/ ClearBatch \/ WorkerExit

MainStep == StopFlush \/ ClearOnShutdown

Next ==
    \/ \E c \in Clients : ClientStep(c)
    \/ WorkerStep
    \/ Shutdown
    \/ MainStep

\* The worker thread wakes at least every flush_interval and its steps are
\* never blocked for long (each is one lock acquisition or backend call);
\* the main thread runs shutdown to the end once it has started.  Clients
\* and the decision to shut down get no fairness.
Fairness == WF_vars(WorkerStep) /\ WF_vars(MainStep)

Spec == Init /\ [][Next]_vars

FairSpec == Spec /\ Fairness

-----------------------------------------------------------------------------
(* Properties                                                              *)

TypeOK ==
    /\ \A s \in Segs : LRU!WellFormed(cache[s], Capacity)
    /\ \A s \in Segs : \A k \in LRU!Cached(cache[s]) :
          /\ SegOf[k] = s
          /\ cache[s].ent[k] \in [val : Vals, dirty : BOOLEAN]
    /\ backend \in [Keys -> Vals \cup {NoVal}]
    /\ pc \in [Clients -> {"idle", "get", "get_load", "get_fill", "get_clean",
                           "put", "wt_store", "wt_clean", "del", "del_backend",
                           "flushall"}]
    /\ \A c \in Clients : req[c] \in Requests[c] \cup {Cmd!NoRequest}
    /\ ret \in [Clients -> Vals \cup {NoVal}]
    /\ iter \in [Clients -> Segs]
    /\ phase \in {"running", "stopping", "final", "clearing", "down"}
    /\ clr \in Segs
    /\ wpc \in {"none", "wait", "collect", "store", "clear", "exited", "stopped"}
    /\ snap \in Seq(Keys \X Vals)
    /\ wseg \in Segs
    /\ off \in 0..Len(snap)
    /\ bi \in 1..BatchLimit

\* The value a client would read for k: the cached value if k is cached,
\* else the backend's.
View(k) == IF k \in LRU!Cached(Seg(k)) THEN Seg(k).ent[k].val ELSE backend[k]

\* Dirty tracking is sound: an entry whose dirty flag is clear holds the
\* value the backend holds.  Everything the code does with the flag relies
\* on it: the eviction callback persists only dirty entries, and the
\* write-back worker collects only dirty ones.  It is broken by any clear_dirty
\* that runs after another thread put a newer value in the entry: the
\* write-back worker's clearer_, the read path's "came from DB, so it's
\* clean", put_write_through's clear after a slower store.
CleanMeansPersisted ==
    \A s \in Segs : \A k \in LRU!Cached(cache[s]) :
        ~cache[s].ent[k].dirty => backend[k] = cache[s].ent[k].val

\* Every segment's LRUCache keeps its intrusive list consistent with the
\* LRU policy through every interleaving of gets, puts, deletes, eviction
\* loops and clear(): the next and prev pointers link exactly map_'s keys,
\* most recently used first, so evict_lru() always removes the least
\* recently used entry and dirty_entries() walks every cached node once.
LRUOrderImplemented == \A s \in Segs : LRU!ListRefinesOrder(cache[s])

\* The refinement mapping to KVStore: the store is what clients read, a
\* request is done once the step that makes it visible has run.
LinearizedAt == {"idle", "get_fill", "get_clean", "wt_store", "wt_clean"}

AbsOp == [c \in Clients |->
            [req  |-> req[c],
             res  |-> IF req[c].kind = "get" THEN ret[c] ELSE NoVal,
             done |-> pc[c] \in LinearizedAt]]

Abstract == INSTANCE KVStore WITH store <- [k \in Keys |-> View(k)], op <- AbsOp

\* The cache and the backend together behave as one linearizable key-value
\* store: every request takes effect in one step between its receipt and its
\* reply, a GET returns the value of its linearization step, and no other
\* step (an eviction, a worker flush, a shutdown) changes what clients read.
KVRefinement == Abstract!Spec

IsDirty(k) == k \in LRU!Cached(Seg(k)) /\ Seg(k).ent[k].dirty

\* A batch_store call that succeeds.  BackendRecovers: batch_store does not
\* fail at every attempt from some point on -- what the backend, not this
\* code, must provide.
StoreSucceeds == StoreBatch /\ wpc' = "clear"
BackendRecovers == SF_vars(StoreSucceeds)

\* Write-back: if the backend recovers, a dirty entry is eventually
\* persisted -- a failed batch_store leaves the flags set and the worker's
\* next tick collects the entry again -- or leaves the cache through the
\* eviction callback.
DirtyEventuallyFlushed == BackendRecovers => \A k \in Keys : IsDirty(k) ~> ~IsDirty(k)

\* Once the main thread has begun CacheManager::shutdown, it completes:
\* WriteBackWorker::stop wakes the worker out of cv_.wait_for and joins it,
\* the final flush() ends even when batch_store keeps failing, and
\* cache_.clear() empties every segment.
ShutdownTerminates == phase # "running" ~> phase = "down"


=============================================================================
