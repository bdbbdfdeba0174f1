\* Two nodes, both election timers live, and the dashboard's
\* /api/election able to call TriggerElection on either node; up to term
\* 2 and one log entry, with process restarts.  The cluster can stop for
\* good (two leaders holding mu_ call each other, see raft_deadlock), so
\* deadlock is not an error here.
CONSTANTS
  N = 2
  Cmds = {c1}
  Timeouts = {0, 1}
  Triggers = {0, 1}
  MaxTerm = 2
  MaxLog = 1
  MayRestart = TRUE
SPECIFICATION Spec
INVARIANTS TypeOK
CHECK_DEADLOCK FALSE
