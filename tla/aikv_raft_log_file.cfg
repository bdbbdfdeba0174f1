\* Three nodes: a follower's uncommitted entry of an old term is
\* overwritten by the next leader's entries.
CONSTANTS
    c1 = c1  c2 = c2
    Nodes = {0, 1, 2}
    Cmds = {c1}
    MaxTerm = 2
    MaxProposals = 0
    MaxRestarts = 0
SPECIFICATION Spec
INVARIANT LogFileHoldsLog
