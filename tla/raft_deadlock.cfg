\* Two nodes, both election timers live and the dashboard trigger on node
\* 0; rounds under weak fairness.  Deadlock is left to RoundsComplete to report.
CONSTANTS
  N = 2
  Cmds = {c1}
  Timeouts = {0, 1}
  Triggers = {0}
  MaxTerm = 3
  MaxLog = 1
  MayRestart = FALSE
SPECIFICATION FairSpec
PROPERTY RoundsComplete
CHECK_DEADLOCK FALSE
