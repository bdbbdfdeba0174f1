----------------------------- MODULE AiKvRaft -----------------------------
(***************************************************************************)
(* The Raft node of the ai_kv_store prototype (raft_node.h, raft_log.h in  *)
(* src/unnamed/part_008 and part_007).  Every node runs three kinds of     *)
(* thread on one mutex mu_:                                                *)
(*   - the ticker, which starts elections and sends heartbeats.  It        *)
(*     releases mu_ around every RPC, so a round is a series of critical   *)
(*     sections: each send and each reply is its own step;                 *)
(*   - the gRPC threads, which run HandleRequestVote and                   *)
(*     HandleAppendEntries under the callee's mu_, one step each;          *)
(*   - the applier, which hands committed entries to the state machine.    *)
(* Clients call Propose on the leader.  A node may restart: the term and   *)
(* vote come back from raft_state, and the log from the append-only       *)
(* raft_log file, which TruncateFrom never shortens.  An RPC may fail as   *)
(* the transport stub in main.cpp fails, either before the callee ran its  *)
(* handler or after.  Timers are abstracted: an election or a heartbeat    *)
(* may start whenever the ticker is between rounds.                        *)
(***************************************************************************)
EXTENDS Integers, Sequences, SequencesExt, FiniteSetsExt

CONSTANTS
    Nodes,          \* peer ids, a set of naturals; peers_ is sorted by id
    Cmds,           \* client commands
    MaxTerm,        \* no election past this term
    MaxProposals,   \* client Propose calls in a behaviour
    MaxRestarts     \* process restarts in a behaviour

VARIABLES
    role, currentTerm, votedFor,     \* role_, current_term_, voted_for_
    log,                             \* the in-memory deque entries_
    disk,                            \* the records of the raft_log file
    commitIndex, lastApplied,        \* commit_index_, last_applied_
    applyTo,                         \* the applier's snapshot of commit_index_
    nextIndex, matchIndex,           \* leader_state_
    tk,                              \* the ticker thread's round in progress
    proposals, restarts,             \* bounds
    elected,                         \* ghost: <<term, node>> of every BecomeLeader
    appliedSet                       \* ghost: <<index, entry>> handed to apply_cb_

vars == <<role, currentTerm, votedFor, log, disk, commitIndex, lastApplied,
          applyTo, nextIndex, matchIndex, tk, proposals, restarts, elected,
          appliedSet>>

kMajority == 2
kMaxBatch == 100    \* ReplicateTo sends at most next_idx .. next_idx + 99
NoNode == -1

\* LogEntry without its index (the position) and without serialisation.
Entry == [term : Nat, type : {"normal", "noop"}, cmd : Cmds \cup {"noop"}]

Others(n) == SetToSortSeq(Nodes \ {n}, <)

LastIndex(lg) == Len(lg)
LastTerm(lg) == IF lg = <<>> THEN 0 ELSE Last(lg).term
TermAt(lg, i) == IF 1 <= i /\ i <= Len(lg) THEN lg[i].term ELSE 0

\* Slice(from, to): the entries from..to that exist.
Slice(lg, from, to) == SubSeq(lg, from, Min({to, Len(lg)}))

\* The AppendEntries request ReplicateTo builds for peer p.
AeReq(n, term, lg, ni, ci, p) ==
    [term     |-> term,
     leader   |-> n,
     prevIdx  |-> ni[p] - 1,
     prevTerm |-> TermAt(lg, ni[p] - 1),
     entries  |-> IF ni[p] <= LastIndex(lg)
                  THEN Slice(lg, ni[p], Min({LastIndex(lg), ni[p] + kMaxBatch - 1}))
                  ELSE <<>>,
     commit   |-> ci]

\* The replies the stub transport returns for an unreachable peer.
RvFailed(req) == [term |-> req.term, granted |-> FALSE]
AeFailed(req) == [term |-> req.term, success |-> FALSE, match |-> 0,
                  cIdx |-> 0, cTerm |-> 0]

(***************************************************************************)
(* HandleRequestVote at node p.                                            *)
(***************************************************************************)
\* Mutant: the vote granted without looking at voted_for_.
RvReplyAnyVote(p, req) ==
    LET stepped == req.term > currentTerm[p]
        logOk   == \/ req.lastTerm > LastTerm(log[p])
                   \/ /\ req.lastTerm = LastTerm(log[p])
                      /\ req.lastIdx >= LastIndex(log[p])
    IN  [stepped |-> stepped, grant |-> logOk,
         vf |-> IF stepped THEN NoNode ELSE votedFor[p]]

RvReply(p, req) ==
    LET stepped == req.term > currentTerm[p]
        vf      == IF stepped THEN NoNode ELSE votedFor[p]
        canVote == vf \in {NoNode, req.cand}
        logOk   == \/ req.lastTerm > LastTerm(log[p])
                   \/ /\ req.lastTerm = LastTerm(log[p])
                      /\ req.lastIdx >= LastIndex(log[p])
    IN  [stepped |-> stepped, grant |-> canVote /\ logOk, vf |-> vf]

HandleRequestVote(p, req) ==
    IF req.term < currentTerm[p]
    THEN UNCHANGED <<role, currentTerm, votedFor>>
    ELSE LET r == RvReply(p, req) IN
         /\ currentTerm' = [currentTerm EXCEPT ![p] = req.term]
         /\ role' = [role EXCEPT ![p] = IF r.stepped THEN "Follower" ELSE @]
         /\ votedFor' = [votedFor EXCEPT ![p] = IF r.grant THEN req.cand ELSE r.vf]

RvResult(p, req) ==
    IF req.term < currentTerm[p]
    THEN [term |-> currentTerm[p], granted |-> FALSE]
    ELSE [term |-> req.term, granted |-> RvReply(p, req).grant]

(***************************************************************************)
(* HandleAppendEntries at node p.                                          *)
(***************************************************************************)
\* Rule 2's walk back from prev_log_index over the entries of the
\* conflicting term.
ConflictStart(lg, prevIdx, lt) ==
    Min({j \in 1..prevIdx : \A i \in j..prevIdx : TermAt(lg, i) = lt})

\* Rule 3: for each sent entry, truncate the deque on a term conflict,
\* then append the entry if its index is past the end.  Returns the new
\* deque and the records PersistEntry appends to raft_log; TruncateFrom
\* leaves the file as it is.
RECURSIVE Merge(_, _, _, _)
Merge(lg, new, idx, es) ==
    IF es = <<>> THEN [log |-> lg, new |-> new]
    ELSE LET e   == Head(es)
             ex  == TermAt(lg, idx)
             lg1 == IF ex # 0 /\ ex # e.term THEN SubSeq(lg, 1, idx - 1) ELSE lg
         IN  IF idx > LastIndex(lg1)
             THEN Merge(Append(lg1, e), Append(new, e), idx + 1, Tail(es))
             ELSE Merge(lg1, new, idx + 1, Tail(es))

\* The outcome of HandleAppendEntries once the request's term is known not
\* to be stale: rules 2 to 4, with the reply and p's new state.
AeAccept(p, req) ==
    LET lg      == log[p]
        term0   == currentTerm[p]
        lt      == TermAt(lg, req.prevIdx)
        missing == req.prevIdx > 0 /\ lt = 0 /\ req.prevIdx > LastIndex(lg)
        clash   == req.prevIdx > 0 /\ ~missing /\ lt # req.prevTerm
        m       == Merge(lg, <<>>, req.prevIdx + 1, req.entries)
        ci      == IF req.commit > commitIndex[p]
                   THEN Min({req.commit, LastIndex(m.log)})
                   ELSE commitIndex[p]
        fail(ci0, ct) == [ok |-> TRUE, log |-> lg, new |-> <<>>, commit |-> commitIndex[p],
                          resp |-> [term |-> term0, success |-> FALSE, match |-> 0,
                                    cIdx |-> ci0, cTerm |-> ct]]
    IN  CASE missing -> fail(LastIndex(lg) + 1, 0)
          [] clash   -> fail(ConflictStart(lg, req.prevIdx, lt), lt)
          [] OTHER   -> [ok |-> TRUE, log |-> m.log, new |-> m.new, commit |-> ci,
                         resp |-> [term |-> req.term, success |-> TRUE,
                                   match |-> LastIndex(m.log), cIdx |-> 0, cTerm |-> 0]]

\* Rule 1: a request of an older term changes nothing.  The reply's
\* conflict fields are left uninitialised on this path; the caller steps
\* down before it could read them.
AeOutcome(p, req) ==
    IF req.term < currentTerm[p]
    THEN [ok |-> FALSE, log |-> log[p], new |-> <<>>, commit |-> commitIndex[p],
          resp |-> [term |-> currentTerm[p], success |-> FALSE, match |-> 0,
                    cIdx |-> 0, cTerm |-> 0]]
    ELSE AeAccept(p, req)

\* Steps down on a newer term, recognises the sender as leader, and
\* applies the outcome.  "ok" is false when the request's term is stale.
HandleAppendEntries(p, req) ==
    LET o == AeOutcome(p, req) IN
    IF ~o.ok
    THEN UNCHANGED <<role, currentTerm, votedFor, log, disk, commitIndex>>
    ELSE /\ votedFor' = [votedFor EXCEPT ![p] =
                             IF req.term > currentTerm[p] THEN NoNode ELSE @]
         /\ currentTerm' = [currentTerm EXCEPT ![p] = req.term]
         /\ role' = [role EXCEPT ![p] = "Follower"]
         /\ log' = [log EXCEPT ![p] = o.log]
         /\ disk' = [disk EXCEPT ![p] = @ \o o.new]
         /\ commitIndex' = [commitIndex EXCEPT ![p] = o.commit]

(***************************************************************************)
(* The node's own threads.                                                 *)
(***************************************************************************)
NoReq == [term |-> 0]
Idle == [pc |-> "idle", peers |-> <<>>, req |-> NoReq, resp |-> NoReq, votes |-> 0]
Zeros == [p \in Nodes |-> 0]

Init ==
    /\ role = [n \in Nodes |-> "Follower"]
    /\ currentTerm = [n \in Nodes |-> 0]
    /\ votedFor = [n \in Nodes |-> NoNode]
    /\ log = [n \in Nodes |-> <<>>]
    /\ disk = [n \in Nodes |-> <<>>]
    /\ commitIndex = [n \in Nodes |-> 0]
    /\ lastApplied = [n \in Nodes |-> 0]
    /\ applyTo = [n \in Nodes |-> 0]
    /\ nextIndex = [n \in Nodes |-> Zeros]
    /\ matchIndex = [n \in Nodes |-> Zeros]
    /\ tk = [n \in Nodes |-> Idle]
    /\ proposals = 0
    /\ restarts = 0
    /\ elected = {}
    /\ appliedSet = {}

\* TickerLoop, a follower or candidate past its election deadline:
\* StartElection up to the first RequestVote.
TickElection(n) ==
    /\ tk[n].pc = "idle"
    /\ role[n] # "Leader"
    /\ currentTerm[n] < MaxTerm
    /\ currentTerm' = [currentTerm EXCEPT ![n] = @ + 1]
    /\ role' = [role EXCEPT ![n] = "Candidate"]
    /\ votedFor' = [votedFor EXCEPT ![n] = n]
    /\ tk' = [tk EXCEPT ![n] =
                [pc |-> "rv_send", peers |-> Others(n), votes |-> 1, resp |-> NoReq,
                 req |-> [term |-> currentTerm[n] + 1, cand |-> n,
                          lastIdx |-> LastIndex(log[n]), lastTerm |-> LastTerm(log[n])]]]
    /\ UNCHANGED <<log, disk, commitIndex, lastApplied, applyTo, nextIndex,
                   matchIndex, proposals, restarts, elected, appliedSet>>

\* SendRequestVote with mu_ released: the peer's handler runs and its reply
\* comes back, or the call fails before or after the handler ran.
RvSend(n) ==
    LET p == Head(tk[n].peers)
        req == tk[n].req
    IN  /\ tk[n].pc = "rv_send"
        /\ \/ /\ HandleRequestVote(p, req)
              /\ tk' = [tk EXCEPT ![n].pc = "rv_resp", ![n].resp = RvResult(p, req)]
           \/ /\ HandleRequestVote(p, req)
              /\ tk' = [tk EXCEPT ![n].pc = "rv_resp", ![n].resp = RvFailed(req)]
           \/ /\ UNCHANGED <<role, currentTerm, votedFor>>
              /\ tk' = [tk EXCEPT ![n].pc = "rv_resp", ![n].resp = RvFailed(req)]
        /\ UNCHANGED <<log, disk, commitIndex, lastApplied, applyTo, nextIndex,
                       matchIndex, proposals, restarts, elected, appliedSet>>

\* BecomeLeader, then SendHeartbeats up to its first AppendEntries.
BecomeLeader(n) ==
    LET lg == Append(log[n], [term |-> currentTerm[n], type |-> "noop", cmd |-> "noop"])
        ni == [p \in Nodes |-> LastIndex(log[n]) + 1]
    IN  /\ role' = [role EXCEPT ![n] = "Leader"]
        /\ elected' = elected \cup {<<currentTerm[n], n>>}
        /\ nextIndex' = [nextIndex EXCEPT ![n] = ni]
        /\ matchIndex' = [matchIndex EXCEPT ![n] = Zeros]
        /\ log' = [log EXCEPT ![n] = lg]
        /\ disk' = [disk EXCEPT ![n] = Append(@, Last(lg))]
        /\ tk' = [tk EXCEPT ![n] =
                    [pc |-> "ae_send", peers |-> Others(n), votes |-> 0, resp |-> NoReq,
                     req |-> AeReq(n, currentTerm[n], lg, ni, commitIndex[n],
                                   Head(Others(n)))]]

\* StepDown(new_term): the term and the cleared vote are persisted.
StepDown(n, t) ==
    /\ currentTerm' = [currentTerm EXCEPT ![n] = t]
    /\ role' = [role EXCEPT ![n] = "Follower"]
    /\ votedFor' = [votedFor EXCEPT ![n] = NoNode]

\* StartElection after a RequestVote returns and mu_ is taken again.
RvRecv(n) ==
    LET req   == tk[n].req
        resp  == tk[n].resp
        rest  == Tail(tk[n].peers)
        votes == tk[n].votes + (IF resp.granted THEN 1 ELSE 0)
    IN  /\ tk[n].pc = "rv_resp"
        /\ CASE role[n] # "Candidate" \/ currentTerm[n] # req.term ->
                  /\ tk' = [tk EXCEPT ![n] = Idle]
                  /\ UNCHANGED <<role, currentTerm, votedFor, log, disk,
                                 nextIndex, matchIndex, elected>>
             [] resp.term > currentTerm[n] ->
                  /\ StepDown(n, resp.term)
                  /\ tk' = [tk EXCEPT ![n] = Idle]
                  /\ UNCHANGED <<log, disk, nextIndex, matchIndex, elected>>
             [] resp.granted /\ votes >= kMajority ->
                  /\ BecomeLeader(n)
                  /\ UNCHANGED <<currentTerm, votedFor>>
             [] OTHER ->
                  /\ tk' = [tk EXCEPT ![n] = IF rest = <<>> THEN Idle
                              ELSE [@ EXCEPT !.pc = "rv_send", !.peers = rest,
                                             !.votes = votes]]
                  /\ UNCHANGED <<role, currentTerm, votedFor, log, disk,
                                 nextIndex, matchIndex, elected>>
        /\ UNCHANGED <<commitIndex, lastApplied, applyTo, proposals, restarts,
                       appliedSet>>

\* TickerLoop, a leader with its heartbeat due: SendHeartbeats up to the
\* first AppendEntries.
TickHeartbeat(n) ==
    /\ tk[n].pc = "idle"
    /\ role[n] = "Leader"
    /\ tk' = [tk EXCEPT ![n] =
                [pc |-> "ae_send", peers |-> Others(n), votes |-> 0, resp |-> NoReq,
                 req |-> AeReq(n, currentTerm[n], log[n], nextIndex[n],
                               commitIndex[n], Head(Others(n)))]]
    /\ UNCHANGED <<role, currentTerm, votedFor, log, disk, commitIndex, lastApplied,
                   applyTo, nextIndex, matchIndex, proposals, restarts, elected,
                   appliedSet>>

\* TickerLoop waking before any deadline.
TickerIdle(n) ==
    /\ tk[n].pc = "idle"
    /\ UNCHANGED vars

\* SendAppendEntries with mu_ released.
AeSend(n) ==
    LET p == Head(tk[n].peers)
        req == tk[n].req
    IN  /\ tk[n].pc = "ae_send"
        /\ \/ /\ HandleAppendEntries(p, req)
              /\ tk' = [tk EXCEPT ![n].pc = "ae_resp",
                                  ![n].resp = AeOutcome(p, req).resp]
           \/ /\ HandleAppendEntries(p, req)
              /\ tk' = [tk EXCEPT ![n].pc = "ae_resp", ![n].resp = AeFailed(req)]
           \/ /\ UNCHANGED <<role, currentTerm, votedFor, log, disk, commitIndex>>
              /\ tk' = [tk EXCEPT ![n].pc = "ae_resp", ![n].resp = AeFailed(req)]
        /\ UNCHANGED <<lastApplied, applyTo, nextIndex, matchIndex, proposals,
                       restarts, elected, appliedSet>>

\* Mutant: next_index stepped back by one on a failure, without the
\* conflict hint and without the clamp at 1.
NextOnReplyDecrement(old, resp) ==
    IF resp.success THEN resp.match + 1 ELSE old - 1

\* ReplicateTo's new next_index for the peer: past the match on success,
\* else the conflict hint, at least 1.
NextOnReply(old, resp) ==
    CASE resp.success  -> resp.match + 1
      [] resp.cTerm > 0 -> resp.cIdx
      [] OTHER          -> Max({1, resp.cIdx})

\* AdvanceCommitIndex: the highest index past commit_index_ of the current
\* term that the leader and match_index place on a majority.
AdvanceCommitIndex(n, term, mi) ==
    LET ok == {i \in commitIndex[n] + 1 .. LastIndex(log[n]) :
                 /\ TermAt(log[n], i) = term
                 /\ 1 + Cardinality({p \in Nodes \ {n} : mi[p] >= i}) >= kMajority}
    IN  IF ok = {} THEN commitIndex[n] ELSE Max(ok)

\* The rest of ReplicateTo once mu_ is taken again, and SendHeartbeats'
\* loop going on to the next peer, or ending with AdvanceCommitIndex.  The
\* loop does not look at whether ReplicateTo returned early.
AeRecv(n) ==
    LET req   == tk[n].req
        resp  == tk[n].resp
        p     == Head(tk[n].peers)
        rest  == Tail(tk[n].peers)
        valid == role[n] = "Leader" /\ currentTerm[n] = req.term
        down  == valid /\ resp.term > currentTerm[n]
        upd   == valid /\ ~down
        term1 == IF down THEN resp.term ELSE currentTerm[n]
        ni1   == IF ~upd THEN nextIndex[n]
                 ELSE [nextIndex[n] EXCEPT ![p] = NextOnReply(@, resp)]
        mi1   == IF upd /\ resp.success
                 THEN [matchIndex[n] EXCEPT ![p] = resp.match] ELSE matchIndex[n]
    IN  /\ tk[n].pc = "ae_resp"
        /\ IF down THEN StepDown(n, resp.term)
                   ELSE UNCHANGED <<role, currentTerm, votedFor>>
        /\ nextIndex' = [nextIndex EXCEPT ![n] = ni1]
        /\ matchIndex' = [matchIndex EXCEPT ![n] = mi1]
        /\ IF rest # <<>>
           THEN /\ tk' = [tk EXCEPT ![n] = [@ EXCEPT !.pc = "ae_send", !.peers = rest,
                      !.req = AeReq(n, term1, log[n], ni1, commitIndex[n], Head(rest))]]
                /\ UNCHANGED commitIndex
           ELSE /\ tk' = [tk EXCEPT ![n] = Idle]
                /\ commitIndex' = [commitIndex EXCEPT ![n] = AdvanceCommitIndex(n, term1, mi1)]
        /\ UNCHANGED <<log, disk, lastApplied, applyTo, proposals, restarts,
                       elected, appliedSet>>

\* ApplierLoop reading last_applied_ and commit_index_.
ApplierWake(n) ==
    /\ applyTo[n] <= lastApplied[n]
    /\ commitIndex[n] > lastApplied[n]
    /\ applyTo' = [applyTo EXCEPT ![n] = commitIndex[n]]
    /\ UNCHANGED <<role, currentTerm, votedFor, log, disk, commitIndex, lastApplied,
                   nextIndex, matchIndex, tk, proposals, restarts, elected,
                   appliedSet>>

\* One pass of the inner loop: apply_cb_ on the entry if log_.Entry finds it.
ApplyNext(n) ==
    LET i == lastApplied[n] + 1 IN
    /\ lastApplied[n] < applyTo[n]
    /\ appliedSet' = IF i <= LastIndex(log[n])
                     THEN appliedSet \cup {<<i, log[n][i]>>} ELSE appliedSet
    /\ lastApplied' = [lastApplied EXCEPT ![n] = i]
    /\ UNCHANGED <<role, currentTerm, votedFor, log, disk, commitIndex, applyTo,
                   nextIndex, matchIndex, tk, proposals, restarts, elected>>

\* Propose on a client thread: a leader appends the command.
Propose(n, c) ==
    LET e == [term |-> currentTerm[n], type |-> "normal", cmd |-> c] IN
    /\ role[n] = "Leader"
    /\ proposals < MaxProposals
    /\ log' = [log EXCEPT ![n] = Append(@, e)]
    /\ disk' = [disk EXCEPT ![n] = Append(@, e)]
    /\ proposals' = proposals + 1
    /\ UNCHANGED <<role, currentTerm, votedFor, commitIndex, lastApplied, applyTo,
                   nextIndex, matchIndex, tk, restarts, elected, appliedSet>>

\* Mutant: the constructor reloads current_term_ but not voted_for_.
RestartForgetVote(n) ==
    /\ restarts < MaxRestarts
    /\ role' = [role EXCEPT ![n] = "Follower"]
    /\ votedFor' = [votedFor EXCEPT ![n] = NoNode]
    /\ log' = [log EXCEPT ![n] = disk[n]]
    /\ commitIndex' = [commitIndex EXCEPT ![n] = 0]
    /\ lastApplied' = [lastApplied EXCEPT ![n] = 0]
    /\ applyTo' = [applyTo EXCEPT ![n] = 0]
    /\ nextIndex' = [nextIndex EXCEPT ![n] = Zeros]
    /\ matchIndex' = [matchIndex EXCEPT ![n] = Zeros]
    /\ tk' = [tk EXCEPT ![n] = Idle]
    /\ restarts' = restarts + 1
    /\ UNCHANGED <<currentTerm, disk, proposals, elected, appliedSet>>

\* The process restarts: RaftNode's constructor loads raft_state (the term
\* and vote, persisted on every change) and replays every record of
\* raft_log into the deque; all else starts afresh.
Restart(n) ==
    /\ restarts < MaxRestarts
    /\ role' = [role EXCEPT ![n] = "Follower"]
    /\ log' = [log EXCEPT ![n] = disk[n]]
    /\ commitIndex' = [commitIndex EXCEPT ![n] = 0]
    /\ lastApplied' = [lastApplied EXCEPT ![n] = 0]
    /\ applyTo' = [applyTo EXCEPT ![n] = 0]
    /\ nextIndex' = [nextIndex EXCEPT ![n] = Zeros]
    /\ matchIndex' = [matchIndex EXCEPT ![n] = Zeros]
    /\ tk' = [tk EXCEPT ![n] = Idle]
    /\ restarts' = restarts + 1
    /\ UNCHANGED <<currentTerm, votedFor, disk, proposals, elected, appliedSet>>

Next ==
    \/ \E n \in Nodes :
          \/ TickElection(n) \/ RvSend(n) \/ RvRecv(n)
          \/ TickHeartbeat(n) \/ TickerIdle(n) \/ AeSend(n) \/ AeRecv(n)
          \/ ApplierWake(n) \/ ApplyNext(n) \/ Restart(n)
          \/ \E c \in Cmds : Propose(n, c)

Spec == Init /\ [][Next]_vars

(***************************************************************************)
(* Properties                                                              *)
(***************************************************************************)
TypeOK ==
    /\ role \in [Nodes -> {"Follower", "Candidate", "Leader"}]
    /\ currentTerm \in [Nodes -> 0..MaxTerm]
    /\ votedFor \in [Nodes -> Nodes \cup {NoNode}]
    /\ commitIndex \in [Nodes -> Nat]
    \* next_index is a uint64 and prev_idx = next_idx - 1: a leader's
    \* next_index of a peer stays at least 1.
    /\ \A n \in Nodes : role[n] = "Leader" =>
          \A p \in Nodes \ {n} : nextIndex[n][p] \in Nat \ {0}
    /\ \A n \in Nodes :
          /\ log[n] \in Seq(Entry)
          /\ disk[n] \in Seq(Entry)
          /\ tk[n].pc \in {"idle", "rv_send", "rv_resp", "ae_send", "ae_resp"}
          /\ tk[n].votes \in 0..Cardinality(Nodes)

\* BecomeLeader: no two nodes win an election for the same term.
ElectionSafety ==
    \A x, y \in elected : x[1] = y[1] => x[2] = y[2]

\* A vote binds for its term: once a node has voted in a term, for itself
\* in StartElection or for a candidate in HandleRequestVote, its vote does
\* not change while its term stays the same -- across a restart too, as
\* the constructor reloads voted_for_ from raft_state, which
\* PersistTermAndVote writes in the critical section that casts the vote.
VoteBinds ==
    [][\A n \in Nodes :
         votedFor[n] # NoNode /\ currentTerm'[n] = currentTerm[n]
             => votedFor'[n] = votedFor[n]]_vars

\* Logs that agree on the term at an index agree on everything before it
\* (the check of prev_log_index/prev_log_term in HandleAppendEntries
\* relies on it).
LogMatching ==
    \A n, m \in Nodes : \A i \in 1..Min({Len(log[n]), Len(log[m])}) :
        log[n][i].term = log[m][i].term =>
            SubSeq(log[n], 1, i) = SubSeq(log[m], 1, i)

\* The applier of every node, before and after restarts, hands apply_cb_
\* the same entry at each index.
StateMachineSafety ==
    \A x, y \in appliedSet : x[1] = y[1] => x[2] = y[2]

\* The raft_log file holds the log: a restart's replay of it gives back
\* the deque (spec: "truncation on conflict rewrites the file").
\* TruncateFrom shortens only the deque.
LogFileHoldsLog ==
    \A n \in Nodes : disk[n] = log[n]

====
