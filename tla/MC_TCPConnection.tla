-------------------------- MODULE MC_TCPConnection --------------------------
(* Small command sets for TCPConnection.  Tokens are one or two bytes; "Q"  *)
(* stands for QUIT.                                                        *)
EXTENDS TCPConnection

MCQuit == <<<<"Q">>>>

\* GET-like and SET-like commands with one- and two-byte tokens, and QUIT.
MCArrayCommands == {<<<<"g">>, <<"k">>>>, <<<<"s">>, <<"k">>, <<"v", "v">>>>, MCQuit}

\* Telnet lines: one command, and an empty line (Enter pressed alone).
MCInlineCommands == {<<<<"g">>, <<"k">>>>, <<>>}

=============================================================================
