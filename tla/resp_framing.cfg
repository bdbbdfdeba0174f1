\* redis-cli style RESP arrays, pipelined, cut into recv() chunks of any size.
CONSTANTS
    Commands <- MCArrayCommands
    Quit <- MCQuit
    Framing = "array"
    MaxCmds = 2
SPECIFICATION Spec
\* A connection closed by QUIT or by the client ends its thread.
CHECK_DEADLOCK FALSE
INVARIANTS
    TypeOK
    FramingSafe
    NoCommandAfterShutdown
PROPERTIES
    AllAnswered
