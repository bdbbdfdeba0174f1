\* Telnet-style inline lines cut into recv() chunks of any size.
CONSTANTS
    Commands <- MCInlineCommands
    Quit <- MCQuit
    Framing = "inline"
    MaxCmds = 2
SPECIFICATION Spec
CHECK_DEADLOCK FALSE
INVARIANTS
    FramingSafe
