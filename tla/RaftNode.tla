------------------------------ MODULE RaftNode ------------------------------
(***************************************************************************)
(* The Raft nodes of unnamed/part_005 (class RaftNode) joined by           *)
(* LocalRaftTransport, with the log of include/raft/raft_log.h.            *)
(*                                                                         *)
(* Each node has four threads: the ticker (TickerLoop, StartElection,      *)
(* SendHeartbeats), the HTTP thread of /api/election (TriggerElection,    *)
(* which runs StartElection too), the applier (ApplierLoop) and the client *)
(* calling Propose; each node's RPC handlers run on the thread of the node *)
(* that calls them, because LocalRaftTransport calls the peer's handler    *)
(* directly.  A handler runs under the peer's mu_ and is one atomic step.  *)
(* A round prepares its arguments under mu_, releases it and then, per     *)
(* peer, calls the peer (one step) and takes mu_ again to read the reply  *)
(* (another step), so anything may happen to the node between the two.    *)
(*                                                                         *)
(* One path does not release mu_: StartElection calls BecomeLeader while   *)
(* holding mu_, and BecomeLeader calls SendHeartbeats, which locks mu_     *)
(* again.  compat::Mutex is a recursive CRITICAL_SECTION on Windows, so    *)
(* the whole first heartbeat round of a new leader runs with its mu_ held  *)
(* (held[th]), and no handler of that node can run meanwhile.  This models*)
(* the Windows build; on POSIX compat::Mutex is std::mutex and the second  *)
(* lock never returns.                                                     *)
(*                                                                         *)
(* The election timer is abstract: the ticker of a node that is not      *)
(* leader and is in Timeouts may find it expired whenever it is idle; it  *)
(* decides under mu_ and runs StartElection after releasing it, as two    *)
(* steps.  The transport never fails, so nothing is lost, duplicated or   *)
(* reordered.                                                              *)
(***************************************************************************)
EXTENDS Integers, Sequences, SequencesExt, FiniteSets

CONSTANTS N,         \* cluster_size_
          Cmds,      \* commands a client may propose
          Timeouts,  \* the nodes whose election timer may fire
          Triggers,  \* the nodes /api/election may call TriggerElection on
          MaxTerm,   \* bound: no election starts at term MaxTerm
          MaxLog,    \* bound: Propose appends only to logs shorter than this
          MayRestart \* whether the process hosting the cluster may restart

Nodes == 0..N-1
Kinds == {"ticker", "http"}
Threads == Nodes \X Kinds

L == INSTANCE RaftLog

VARIABLES currentTerm, votedFor, log,       \* RaftLog state_ and entries_
          role, votes, commitIndex, lastApplied,
          nextIndex, matchIndex,            \* next_index_, match_index_
          tpc,        \* where each thread is: idle, elect, beat, or in a round
          pending,    \* peers the thread has still to call, in loop order
          rvArgs,     \* StartElection's RequestVoteArgs
          hbs,        \* SendHeartbeats' AppendEntriesArgs per peer
          reply,      \* the reply of the peer just called
          held,       \* the thread keeps mu_ for the round (BecomeLeader path)
          leaders,    \* ghost: every <<term, node>> that became leader
          applied     \* ghost: every entry each node's applier has applied

vars == <<currentTerm, votedFor, log, role, votes, commitIndex, lastApplied,
          nextIndex, matchIndex, tpc, pending, rvArgs, hbs, reply, held,
          leaders, applied>>

Majority == (N \div 2) + 1

\* The loop "for peer in 0..cs-1, peer != id" of StartElection and
\* SendHeartbeats.
PeersOf(n) == SelectSeq([i \in 1..N |-> i - 1], LAMBDA p : p # n)

\* BecomeFollower(term): role, SetTerm (which also clears voted_for), votes.
BecomeFollower(x, t) ==
  /\ role' = [role EXCEPT ![x] = "Follower"]
  /\ currentTerm' = [currentTerm EXCEPT ![x] = t]
  /\ votedFor' = [votedFor EXCEPT ![x] = -1]
  /\ votes' = [votes EXCEPT ![x] = 0]

\* The AppendEntriesArgs SendHeartbeats prepares for a peer whose
\* next_index_ is next.
HeartbeatArgs(n, next) ==
  LET prev == IF next > 1 THEN next - 1 ELSE 0
  IN  [term |-> currentTerm[n], leader |-> n, commit |-> commitIndex[n],
       prevIdx |-> prev, prevTerm |-> L!TermAt(log[n], prev),
       entries |-> IF L!LastIndex(log[n]) >= next
                   THEN L!GetRange(log[n], next) ELSE <<>>]

\* The locked part of SendHeartbeats: one argument record per peer.
PrepareHeartbeats(th, next) ==
  LET n == th[1] IN
  /\ hbs' = [hbs EXCEPT ![th] = [p \in Nodes \ {n} |-> HeartbeatArgs(n, next[p])]]
  /\ pending' = [pending EXCEPT ![th] = PeersOf(n)]
  /\ tpc' = [tpc EXCEPT ![th] = "hb"]

-----------------------------------------------------------------------------
(* The RPC handlers, run by the calling thread th on peer p.              *)

\* HandleRequestVote: a newer term makes p a follower first; the vote goes
\* to a candidate whose log is at least as up to date, when p has not voted
\* in this term or voted for the same candidate.
HandleRequestVote(th, p, a) ==
  LET newer == a.term > currentTerm[p]
      vf    == IF newer THEN -1 ELSE votedFor[p]
      logOK == \/ a.lastTerm > L!LastTerm(log[p])
               \/ /\ a.lastTerm = L!LastTerm(log[p])
                  /\ a.lastIdx >= L!LastIndex(log[p])
      grant == a.term >= currentTerm[p] /\ vf \in {-1, a.cand} /\ logOK
  IN  /\ currentTerm' = [currentTerm EXCEPT ![p] = IF newer THEN a.term ELSE @]
      /\ role' = IF newer THEN [role EXCEPT ![p] = "Follower"] ELSE role
      /\ votes' = IF newer THEN [votes EXCEPT ![p] = 0] ELSE votes
      /\ votedFor' = [votedFor EXCEPT ![p] = IF grant THEN a.cand ELSE vf]
      /\ reply' = [reply EXCEPT ![th] = [term |-> currentTerm'[p],
                                        granted |-> grant]]

\* The conflict loop of HandleAppendEntries: truncate from the first sent
\* entry whose index the log holds with another term.
TruncateConflict(l, es) ==
  LET c == SelectInSeq(es, LAMBDA e : L!TermAt(l, e.index) \notin {0, e.term})
  IN  IF c = 0 THEN l ELSE L!TruncateFrom(l, es[c].index)

\* The append loop: an entry is appended when its index is past the
\* current last index.
AppendNew(l, es) ==
  FoldLeft(LAMBDA acc, e : IF e.index > L!LastIndex(acc) THEN Append(acc, e)
                                                         ELSE acc, l, es)

\* Mutant: the reply's match_index is one past the last index.
HandleAppendEntriesMatchPastEnd(th, p, a) ==
  \/ /\ a.term < currentTerm[p]
     /\ reply' = [reply EXCEPT ![th] = [term |-> currentTerm[p], success |-> FALSE,
                                       match |-> 0]]
     /\ UNCHANGED <<currentTerm, votedFor, role, votes, log, commitIndex>>
  \/ /\ a.term >= currentTerm[p]
     /\ BecomeFollower(p, a.term)
     /\ a.prevIdx = 0 \/ L!MatchesAt(log[p], a.prevIdx, a.prevTerm)
     /\ LET nl == AppendNew(TruncateConflict(log[p], a.entries), a.entries)
        IN  /\ log' = [log EXCEPT ![p] = nl]
            /\ UNCHANGED commitIndex
            /\ reply' = [reply EXCEPT ![th] = [term |-> a.term, success |-> TRUE,
                                              match |-> L!LastIndex(nl) + 1]]

\* HandleAppendEntries: a stale term is refused; otherwise p becomes a
\* follower of the term, equal or not, and then checks the previous entry.
HandleAppendEntries(th, p, a) ==
  \/ /\ a.term < currentTerm[p]
     /\ reply' = [reply EXCEPT ![th] = [term |-> currentTerm[p], success |-> FALSE,
                                       match |-> 0]]
     /\ UNCHANGED <<currentTerm, votedFor, role, votes, log, commitIndex>>
  \/ /\ a.term >= currentTerm[p]
     /\ BecomeFollower(p, a.term)
     /\ a.prevIdx > 0 /\ ~L!MatchesAt(log[p], a.prevIdx, a.prevTerm)
     /\ reply' = [reply EXCEPT ![th] = [term |-> currentTerm[p], success |-> FALSE,
                                       match |-> 0]]
     /\ UNCHANGED <<log, commitIndex>>
  \/ /\ a.term >= currentTerm[p]
     /\ BecomeFollower(p, a.term)
     /\ a.prevIdx = 0 \/ L!MatchesAt(log[p], a.prevIdx, a.prevTerm)
     /\ LET nl == AppendNew(TruncateConflict(log[p], a.entries), a.entries)
        IN  /\ log' = [log EXCEPT ![p] = nl]
            /\ commitIndex' =
                 [commitIndex EXCEPT ![p] = IF a.commit > @
                    THEN IF a.commit < L!LastIndex(nl) THEN a.commit
                                                       ELSE L!LastIndex(nl)
                    ELSE @]
            /\ reply' = [reply EXCEPT ![th] = [term |-> a.term, success |-> TRUE,
                                              match |-> L!LastIndex(nl)]]

-----------------------------------------------------------------------------
(* The threads that run RPC rounds: each node's ticker, and the HTTP       *)
(* thread of the dashboard's /api/election, which calls TriggerElection.   *)
(* mu_ is free for thread th when no other thread of its node holds it     *)
(* across a round.                                                         *)

MuFree(n) == \A k \in Kinds : ~held[<<n, k>>]
MuFreeFor(th) == \A k \in Kinds \ {th[2]} : ~held[<<th[1], k>>]

\* The locked part of StartElection: a new term, a vote for itself, the
\* RequestVoteArgs, then the loop over the peers.
StartElection(th) ==
  LET n == th[1] IN
  /\ MuFreeFor(th) /\ currentTerm[n] < MaxTerm
  /\ currentTerm' = [currentTerm EXCEPT ![n] = @ + 1]
  /\ votedFor' = [votedFor EXCEPT ![n] = n]
  /\ role' = [role EXCEPT ![n] = "Candidate"]
  /\ votes' = [votes EXCEPT ![n] = 1]
  /\ rvArgs' = [rvArgs EXCEPT ![th] = [term |-> currentTerm[n] + 1, cand |-> n,
                   lastIdx |-> L!LastIndex(log[n]), lastTerm |-> L!LastTerm(log[n])]]
  /\ pending' = [pending EXCEPT ![th] = PeersOf(n)]
  /\ tpc' = [tpc EXCEPT ![th] = "vote"]
  /\ UNCHANGED <<log, commitIndex, lastApplied, nextIndex, matchIndex, hbs,
                 reply, held, leaders, applied>>

\* TickerLoop's check under mu_: a leader is to send heartbeats, a node
\* whose election timer expired is to start an election.  The lock is
\* released before the action is taken.
TickerDecide(n) ==
  /\ tpc[<<n, "ticker">>] = "idle" /\ MuFreeFor(<<n, "ticker">>)
  /\ \/ role[n] = "Leader" /\ tpc' = [tpc EXCEPT ![<<n, "ticker">>] = "beat"]
     \/ /\ role[n] # "Leader" /\ n \in Timeouts
        /\ tpc' = [tpc EXCEPT ![<<n, "ticker">>] = "elect"]
  /\ UNCHANGED <<currentTerm, votedFor, log, role, votes, commitIndex,
                 lastApplied, nextIndex, matchIndex, pending, rvArgs, hbs,
                 reply, held, leaders, applied>>

\* StartElection on the ticker, whatever the role is by now.
Timeout(n) ==
  /\ tpc[<<n, "ticker">>] = "elect"
  /\ StartElection(<<n, "ticker">>)

\* TriggerElection: StartElection on the HTTP thread, whatever the role and
\* whatever the node's ticker is doing.
Trigger(n) ==
  /\ tpc[<<n, "http">>] = "idle" /\ n \in Triggers
  /\ StartElection(<<n, "http">>)

\* SendHeartbeats on the ticker: it returns at once when the node is no
\* longer leader, and otherwise prepares the round under mu_.
Heartbeat(n) ==
  /\ tpc[<<n, "ticker">>] = "beat" /\ MuFreeFor(<<n, "ticker">>)
  /\ \/ /\ role[n] # "Leader"
        /\ tpc' = [tpc EXCEPT ![<<n, "ticker">>] = "idle"]
        /\ UNCHANGED <<pending, hbs>>
     \/ /\ role[n] = "Leader"
        /\ PrepareHeartbeats(<<n, "ticker">>, nextIndex[n])
  /\ UNCHANGED <<currentTerm, votedFor, log, role, votes, commitIndex,
                 lastApplied, nextIndex, matchIndex, rvArgs, reply, held,
                 leaders, applied>>

\* transport_->SendRequestVote(peer, args): the peer's handler, which
\* waits for the peer's mu_.
CallRequestVote(th) ==
  /\ tpc[th] = "vote" /\ MuFree(Head(pending[th]))
  /\ HandleRequestVote(th, Head(pending[th]), rvArgs[th])
  /\ tpc' = [tpc EXCEPT ![th] = "voteReply"]
  /\ UNCHANGED <<log, commitIndex, lastApplied, nextIndex, matchIndex,
                 pending, rvArgs, hbs, held, leaders, applied>>

\* The end of a loop body: the next peer, or the end of the loop when none
\* is left.
NextPeer(th, busy) ==
  /\ pending' = [pending EXCEPT ![th] = Tail(@)]
  /\ tpc' = [tpc EXCEPT ![th] = IF Tail(pending[th]) = <<>> THEN "idle" ELSE busy]

\* BecomeLeader, and the SendHeartbeats it calls while StartElection still
\* holds mu_: the round is prepared and runs with held[th].
BecomeLeader(th) ==
  LET n == th[1] IN
  /\ role' = [role EXCEPT ![n] = "Leader"]
  /\ nextIndex' = [nextIndex EXCEPT ![n] = [p \in Nodes |-> L!LastIndex(log[n]) + 1]]
  /\ matchIndex' = [matchIndex EXCEPT ![n] = [p \in Nodes |-> 0]]
  /\ leaders' = leaders \cup {<<currentTerm[n], n>>}
  /\ held' = [held EXCEPT ![th] = TRUE]
  /\ PrepareHeartbeats(th, nextIndex'[n])

\* The rest of StartElection's loop body, under mu_ again.
OnVoteReply(th) ==
  LET n == th[1] IN
  /\ tpc[th] = "voteReply" /\ MuFreeFor(th)
  /\ \/ /\ role[n] # "Candidate"
        /\ tpc' = [tpc EXCEPT ![th] = "idle"]
        /\ UNCHANGED <<currentTerm, votedFor, role, votes, nextIndex, matchIndex,
                       pending, hbs, held, leaders>>
     \/ /\ role[n] = "Candidate" /\ reply[th].term > currentTerm[n]
        /\ BecomeFollower(n, reply[th].term)
        /\ tpc' = [tpc EXCEPT ![th] = "idle"]
        /\ UNCHANGED <<nextIndex, matchIndex, pending, hbs, held, leaders>>
     \/ /\ role[n] = "Candidate" /\ reply[th].term <= currentTerm[n]
        /\ reply[th].granted /\ votes[n] + 1 >= Majority
        /\ votes' = [votes EXCEPT ![n] = @ + 1]
        /\ BecomeLeader(th)
        /\ UNCHANGED <<currentTerm, votedFor>>
     \/ /\ role[n] = "Candidate" /\ reply[th].term <= currentTerm[n]
        /\ ~(reply[th].granted /\ votes[n] + 1 >= Majority)
        /\ votes' = [votes EXCEPT ![n] = IF reply[th].granted THEN @ + 1 ELSE @]
        /\ NextPeer(th, "vote")
        /\ UNCHANGED <<currentTerm, votedFor, role, nextIndex, matchIndex, hbs,
                       held, leaders>>
  /\ UNCHANGED <<log, commitIndex, lastApplied, rvArgs, reply, applied>>

\* transport_->SendAppendEntries(peer, args).
CallAppendEntries(th) ==
  /\ tpc[th] = "hb" /\ MuFree(Head(pending[th]))
  /\ HandleAppendEntries(th, Head(pending[th]), hbs[th][Head(pending[th])])
  /\ tpc' = [tpc EXCEPT ![th] = "hbReply"]
  /\ UNCHANGED <<lastApplied, nextIndex, matchIndex, pending, rvArgs, hbs,
                 held, leaders, applied>>

\* TryAdvanceCommit: the highest N past commit_index_ of the current term
\* that this node and a majority of match_index_ reach.
AdvanceCommit(n, match) ==
  LET ok == {i \in commitIndex[n] + 1 .. L!LastIndex(log[n]) :
               /\ L!TermAt(log[n], i) = currentTerm[n]
               /\ 1 + Cardinality({q \in Nodes \ {n} : match[q] >= i}) > N \div 2}
  IN  IF ok = {} THEN commitIndex[n] ELSE Max(ok)

\* The rest of SendHeartbeats' loop body; mu_ is released when the round
\* ends, or at a return.
OnAppendReply(th) ==
  LET n == th[1]
      p == Head(pending[th])
  IN
  /\ tpc[th] = "hbReply" /\ MuFreeFor(th)
  /\ \/ /\ role[n] # "Leader"
        /\ tpc' = [tpc EXCEPT ![th] = "idle"]
        /\ held' = [held EXCEPT ![th] = FALSE]
        /\ UNCHANGED <<currentTerm, votedFor, role, votes, commitIndex,
                       nextIndex, matchIndex, pending>>
     \/ /\ role[n] = "Leader" /\ reply[th].term > currentTerm[n]
        /\ BecomeFollower(n, reply[th].term)
        /\ tpc' = [tpc EXCEPT ![th] = "idle"]
        /\ held' = [held EXCEPT ![th] = FALSE]
        /\ UNCHANGED <<commitIndex, nextIndex, matchIndex, pending>>
     \/ /\ role[n] = "Leader" /\ reply[th].term <= currentTerm[n]
        /\ reply[th].success
        /\ matchIndex' = [matchIndex EXCEPT ![n][p] = reply[th].match]
        /\ nextIndex' = [nextIndex EXCEPT ![n][p] = reply[th].match + 1]
        /\ commitIndex' = [commitIndex EXCEPT ![n] =
                             AdvanceCommit(n, matchIndex'[n])]
        /\ NextPeer(th, "hb")
        /\ held' = [held EXCEPT ![th] = @ /\ Tail(pending[th]) # <<>>]
        /\ UNCHANGED <<currentTerm, votedFor, role, votes>>
     \/ /\ role[n] = "Leader" /\ reply[th].term <= currentTerm[n]
        /\ ~reply[th].success
        /\ nextIndex' = [nextIndex EXCEPT ![n][p] = IF @ > 1 THEN @ - 1 ELSE @]
        /\ NextPeer(th, "hb")
        /\ held' = [held EXCEPT ![th] = @ /\ Tail(pending[th]) # <<>>]
        /\ UNCHANGED <<currentTerm, votedFor, role, votes, commitIndex, matchIndex>>
  /\ UNCHANGED <<log, lastApplied, rvArgs, hbs, reply, leaders, applied>>

-----------------------------------------------------------------------------
(* The client and the applier.                                             *)

\* Propose: a leader appends the command at LastIndex + 1 in its term.
Propose(n, c) ==
  /\ MuFree(n) /\ role[n] = "Leader" /\ Len(log[n]) < MaxLog
  /\ log' = [log EXCEPT ![n] = Append(@, [term |-> currentTerm[n],
                                          index |-> L!LastIndex(@) + 1, cmd |-> c])]
  /\ UNCHANGED <<currentTerm, votedFor, role, votes, commitIndex, lastApplied,
                 nextIndex, matchIndex, tpc, pending, rvArgs, hbs, reply, held,
                 leaders, applied>>

\* ApplierLoop: every index up to commit_index_ is applied, the ones the
\* log holds an entry for.
Apply(n) ==
  /\ MuFree(n) /\ lastApplied[n] < commitIndex[n]
  /\ LET todo == SelectSeq([i \in 1..commitIndex[n] - lastApplied[n] |->
                              lastApplied[n] + i],
                           LAMBDA i : L!HasEntry(log[n], i))
     IN  applied' = [applied EXCEPT ![n] =
                       @ \cup {L!EntryAt(log[n], todo[j]) : j \in 1..Len(todo)}]
  /\ lastApplied' = [lastApplied EXCEPT ![n] = commitIndex[n]]
  /\ UNCHANGED <<currentTerm, votedFor, log, role, votes, commitIndex,
                 nextIndex, matchIndex, tpc, pending, rvArgs, hbs, reply, held,
                 leaders>>

\* An iteration of TickerLoop that finds nothing to do: the node is not
\* leader and its election timer has not expired.
TickerIdle(n) ==
  /\ tpc[<<n, "ticker">>] = "idle" /\ role[n] # "Leader" /\ MuFree(n)
  /\ UNCHANGED vars

\* An iteration of ApplierLoop with nothing to apply; it takes mu_.
ApplierIdle(n) ==
  /\ MuFree(n) /\ lastApplied[n] >= commitIndex[n]
  /\ UNCHANGED vars

-----------------------------------------------------------------------------
(* A fresh cluster: RaftLog finds no raft_state.dat and no raft_log.dat,    *)
(* and the constructor sizes next_index_ to 1 and match_index_ to 0.      *)
Init ==
  /\ currentTerm = [n \in Nodes |-> 0]
  /\ votedFor = [n \in Nodes |-> -1]
  /\ log = [n \in Nodes |-> <<>>]
  /\ role = [n \in Nodes |-> "Follower"]
  /\ votes = [n \in Nodes |-> 0]
  /\ commitIndex = [n \in Nodes |-> 0]
  /\ lastApplied = [n \in Nodes |-> 0]
  /\ nextIndex = [n \in Nodes |-> [p \in Nodes |-> 1]]
  /\ matchIndex = [n \in Nodes |-> [p \in Nodes |-> 0]]
  /\ tpc = [th \in Threads |-> "idle"]
  /\ pending = [th \in Threads |-> <<>>]
  /\ rvArgs = [th \in Threads |->
                 [term |-> 0, cand |-> th[1], lastIdx |-> 0, lastTerm |-> 0]]
  /\ hbs = [th \in Threads |-> [p \in Nodes \ {th[1]} |-> HeartbeatArgs(th[1], 1)]]
  /\ reply = [th \in Threads |-> [term |-> 0, granted |-> FALSE]]
  /\ held = [th \in Threads |-> FALSE]
  /\ leaders = {}
  /\ applied = [n \in Nodes |-> {}]

\* raft_state.dat and raft_log.dat between two steps.  SetTerm and
\* SetVotedFor call SaveState, Append calls AppendEntryToFile and
\* TruncateFrom calls RewriteLog, each inside the critical section that
\* changes state_ or entries_, so the files hold their encoding.
StateFile(n) == L!SaveState(currentTerm[n], votedFor[n])
LogFile(n) == L!RewriteLog(log[n])

\* The process hosting the in-process cluster dies and is started again:
\* every RaftNode is constructed from its data directory (RaftLog's
\* LoadState and LoadEntries; Follower, commit_index_ and last_applied_ 0,
\* next_index_ 1, match_index_ 0) and started with its threads idle.  The
\* process dies between steps: no thread is inside a file write.
Restart ==
  /\ MayRestart
  /\ currentTerm' = [n \in Nodes |-> L!LoadState(StateFile(n)).term]
  /\ votedFor' = [n \in Nodes |-> L!LoadState(StateFile(n)).votedFor]
  /\ log' = [n \in Nodes |-> L!LoadEntries(LogFile(n))]
  /\ role' = [n \in Nodes |-> "Follower"]
  /\ votes' = [n \in Nodes |-> 0]
  /\ commitIndex' = [n \in Nodes |-> 0]
  /\ lastApplied' = [n \in Nodes |-> 0]
  /\ nextIndex' = [n \in Nodes |-> [p \in Nodes |-> 1]]
  /\ matchIndex' = [n \in Nodes |-> [p \in Nodes |-> 0]]
  /\ tpc' = [th \in Threads |-> "idle"]
  /\ pending' = [th \in Threads |-> <<>>]
  /\ held' = [th \in Threads |-> FALSE]
  /\ UNCHANGED <<rvArgs, hbs, reply, leaders, applied>>

\* Where a thread is while it runs an RPC round.
RoundStates == {"vote", "voteReply", "hb", "hbReply"}

\* The steps of an RPC round.
Round(th) ==
  CallRequestVote(th) \/ OnVoteReply(th) \/ CallAppendEntries(th) \/ OnAppendReply(th)

Next ==
  \/ \E th \in Threads : Round(th)
  \/ \E n \in Nodes :
       \/ TickerDecide(n)
       \/ Timeout(n)
       \/ Trigger(n)
       \/ Heartbeat(n)
       \/ TickerIdle(n)
       \/ \E c \in Cmds : Propose(n, c)
       \/ Apply(n)
       \/ ApplierIdle(n)
  \/ Restart

Spec == Init /\ [][Next]_vars

\* A round calls the peers back to back with no sleep, so a round that can
\* go on does.  The timer (Timeout), the dashboard (Trigger), the leader's
\* 50 ms tick (Heartbeat), clients and the applier get no fairness.
FairSpec == Spec /\ \A th \in Threads : WF_vars(Round(th))

-----------------------------------------------------------------------------
(* Properties.                                                             *)

Entry == [term : 0..MaxTerm, index : 1..MaxLog, cmd : Cmds]

TypeOK ==
  /\ currentTerm \in [Nodes -> 0..MaxTerm]
  /\ votedFor \in [Nodes -> Nodes \cup {-1}]
  /\ \A n \in Nodes : log[n] \in Seq(Entry) /\ Len(log[n]) <= MaxLog
  /\ role \in [Nodes -> {"Follower", "Candidate", "Leader"}]
  /\ votes \in [Nodes -> 0..N]
  /\ commitIndex \in [Nodes -> 0..MaxLog] /\ lastApplied \in [Nodes -> 0..MaxLog]
  /\ nextIndex \in [Nodes -> [Nodes -> 1..MaxLog + 1]]
  /\ matchIndex \in [Nodes -> [Nodes -> 0..MaxLog]]
  /\ tpc \in [Threads -> {"idle", "elect", "beat"} \cup RoundStates]
  /\ held \in [Threads -> BOOLEAN]
  /\ leaders \subseteq (1..MaxTerm) \X Nodes

\* Election safety: at most one node becomes leader in a term.  It rests on
\* HandleRequestVote granting one vote per term, and on every path that
\* clears voted_for (SetTerm, through BecomeFollower) also raising the term.
ElectionSafety ==
  \A x, y \in leaders : x[1] = y[1] => x[2] = y[2]

\* State machine safety: no two appliers (ApplierLoop, through apply_cb_)
\* ever apply different entries at the same index, and no applier does so
\* before and after a restart, which replays the log from index 1.  It
\* needs commit by a majority (TryAdvanceCommit), the consistency check of
\* HandleAppendEntries, the voting rule and the files RaftLog reloads to
\* work together.
StateMachineSafety ==
  \A e, f \in UNION {applied[n] : n \in Nodes} : e.index = f.index => e = f

\* Every RPC round a ticker or the HTTP thread starts (StartElection,
\* SendHeartbeats) ends: the calls of LocalRaftTransport never wait
\* forever on a peer's mu_.
RoundsComplete == \A th \in Threads : tpc[th] \in RoundStates ~> tpc[th] = "idle"

=============================================================================
