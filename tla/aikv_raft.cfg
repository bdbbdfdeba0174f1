\* Two nodes of the ai_kv_store Raft group: two terms, one client
\* command, one restart; every RPC may fail as the transport stub does.
CONSTANTS
    c1 = c1  c2 = c2
    Nodes = {0, 1}
    Cmds = {c1}
    MaxTerm = 2
    MaxProposals = 1
    MaxRestarts = 1
SPECIFICATION Spec
INVARIANT TypeOK
INVARIANT ElectionSafety
PROPERTY VoteBinds
