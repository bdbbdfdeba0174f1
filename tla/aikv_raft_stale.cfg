\* Three nodes: a leader that steps down in SendHeartbeats keeps sending
\* AppendEntries to the remaining peers in the newer term.
CONSTANTS
    c1 = c1  c2 = c2
    Nodes = {0, 1, 2}
    Cmds = {c1}
    MaxTerm = 2
    MaxProposals = 0
    MaxRestarts = 0
SPECIFICATION Spec
INVARIANT StateMachineSafety
