------------------------------- MODULE RaftLog -------------------------------
(***************************************************************************)
(* The Raft log of include/raft/raft_log.h (its first definition of class *)
(* RaftLog, lines 1-232) as pure operators over a sequence of entries      *)
(* [term, index, cmd].  The vector is searched by the entries' index       *)
(* field, while TruncateFrom cuts it by position; the two agree only while *)
(* the entries sit at the position equal to their index, which the log    *)
(* does not enforce.  The two files behind it are sequences of fields:    *)
(* raft_state.dat is the PersistentState struct, raft_log.dat the records *)
(* AppendEntryToFile and RewriteLog write (term, index, cmd_len, then the  *)
(* command, one symbol long); the constructor reads them back.             *)
(***************************************************************************)
EXTENDS Integers, Sequences, SequencesExt

\* RaftLog::LastIndex and LastTerm: the back entry's fields, 0 when empty.
LastIndex(l) == IF l = <<>> THEN 0 ELSE Last(l).index
LastTerm(l)  == IF l = <<>> THEN 0 ELSE Last(l).term

\* Position of the first entry whose index field is i, 0 when none
\* (the linear search of GetEntry and TermAt).
PosOf(l, i) == SelectInSeq(l, LAMBDA e : e.index = i)

\* RaftLog::GetEntry: found when some entry carries index i.
HasEntry(l, i) == PosOf(l, i) # 0
EntryAt(l, i)  == l[PosOf(l, i)]

\* RaftLog::TermAt: 0 for index 0 and for an index no entry carries.
TermAt(l, i) == IF i = 0 \/ ~HasEntry(l, i) THEN 0 ELSE EntryAt(l, i).term

\* RaftLog::MatchesAt: an index no entry carries counts as a match
\* ("entry was compacted, assume match").
MatchesAt(l, i, t) ==
  \/ i = 0
  \/ TermAt(l, i) = 0
  \/ TermAt(l, i) = t

\* RaftLog::TruncateFrom: resize(index - 1), by position; nothing happens
\* for 0 or for an index past the vector's size.
TruncateFrom(l, i) == IF i = 0 \/ i > Len(l) THEN l ELSE SubSeq(l, 1, i - 1)

\* RaftLog::GetRange: the entries whose index is at least s, in vector
\* order (the cap of 500 is never reached by the bounded logs checked).
GetRange(l, s) == SelectSeq(l, LAMBDA e : e.index >= s)

\* SaveState: the PersistentState struct written over raft_state.dat.
SaveState(term, votedFor) == <<term, votedFor>>

\* LoadState: with no file, or a file too short to fill the struct, state_
\* keeps its defaults (term 0, voted_for -1).
LoadState(sf) ==
  IF Len(sf) < 2 THEN [term |-> 0, votedFor |-> -1]
                 ELSE [term |-> sf[1], votedFor |-> sf[2]]

\* AppendEntryToFile: one record, term, index, cmd_len, command.
AppendEntryToFile(e) == <<e.term, e.index, 1, e.cmd>>

\* RewriteLog: raft_log.dat truncated and every entry written again.
RewriteLog(l) == FoldLeft(LAMBDA f, e : f \o AppendEntryToFile(e), <<>>, l)

\* LoadEntries: records are read while a whole one is left; a short read
\* ends the loop and drops the partial record.
RECURSIVE LoadEntries(_)
LoadEntries(f) ==
  IF Len(f) < 3 \/ Len(f) < 3 + f[3] THEN <<>>
  ELSE <<[term |-> f[1], index |-> f[2], cmd |-> f[4]]>>
         \o LoadEntries(SubSeq(f, 4 + f[3], Len(f)))

=============================================================================
