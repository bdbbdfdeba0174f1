\* Three nodes whose election timers may all fire, one term, no trigger.
CONSTANTS
  N = 3
  Cmds = {c1}
  Timeouts = {0, 1, 2}
  Triggers = {}
  MaxTerm = 1
  MaxLog = 1
  MayRestart = FALSE
SPECIFICATION Spec
INVARIANT ElectionSafety
