\* SIGINT while a client is connected: does the server process reach the
\* end of main()?
CONSTANTS
    Commands <- MCArrayCommands
    Quit <- MCQuit
    Framing = "array"
    MaxCmds = 1
SPECIFICATION Spec
CHECK_DEADLOCK FALSE
PROPERTIES
    ServerExits
