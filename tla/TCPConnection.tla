---------------------------- MODULE TCPConnection ----------------------------
(***************************************************************************)
(* One client connection of TCPServer::handle_client                       *)
(* (src/include/network/tcp_server.h) and the client at its other end.     *)
(*                                                                         *)
(* The client sends commands, framed either as RESP arrays (what           *)
(* redis-cli and client libraries send) or as inline lines (telnet), and   *)
(* may pipeline them.  TCP delivers the bytes in order but cuts them into  *)
(* recv() chunks of any size.  The handler appends each chunk to its       *)
(* buffer and runs every complete command in it.  ClientHandler::execute   *)
(* is abstracted to "the command ran", except QUIT, which closes the       *)
(* connection.                                                             *)
(*                                                                         *)
(* Around the connection runs the server's lifecycle as the cache server's *)
(* main() drives it (src/src/tests/test_resp_parser.cpp): the main thread  *)
(* in TCPServer::start and accept_loop, which spawns the handler thread,   *)
(* the SIGINT handler, which calls stop() on the main thread (POSIX        *)
(* signal delivery), then CacheManager::shutdown and ~TCPServer's second  *)
(* stop().  The manager's shutdown is the flag mgrDown.                    *)
(***************************************************************************)
EXTENDS RespParser

CONSTANTS
    Commands,   \* the commands the client may send: sequences of tokens
    Framing,    \* "array" or "inline"
    MaxCmds,    \* bound on the commands the client sends
    Quit        \* the QUIT command

ASSUME Framing \in {"array", "inline"}

VARIABLES
    sent,       \* the commands the client has sent, in order
    wire,       \* bytes sent but not yet returned by recv()
    buffer,     \* handle_client's std::string buffer
    executed,   \* token lists handed to handler.execute(), in order
    hpc,        \* the handler thread: "none", "check", "recv", "loop", "parsed", "closed", "crashed"
    clientOpen, \* FALSE once the client has closed its end
    parsed,     \* the tokens and consumed count parse() last returned
    running,    \* running_
    srv,        \* the main thread: "init", "top", "accept", "spawn", "locked",
                \* "down", "dtor", "dtor_join", "exit"
    sig,        \* signal_handler's stop(): "none", "lock", "join", "done"
    accepted,   \* accept() has returned the client's connection
    inVec,      \* the handler's thread is in client_threads_
    mgrDown,    \* manager.shutdown() has run
    downExec    \* commands executed when it ran

vars == <<sent, wire, buffer, executed, hpc, clientOpen, parsed,
          running, srv, sig, accepted, inVec, mgrDown, downExec>>
srvVars == <<running, srv, sig, accepted, inVec, mgrDown, downExec>>
connVars == <<sent, wire, buffer, executed, hpc, clientOpen, parsed>>

\* The handler thread has returned, or was never started.
HandlerDone == hpc \in {"none", "closed", "crashed"}

\* What the client writes for one command: RESPParser::encode_array, or
\* the tokens joined by spaces and ended by CRLF.
Frame(c) ==
    IF Framing = "array"
    THEN EncodeArray(c)
    ELSE FoldLeft(LAMBDA out, t : IF out = <<>> THEN t ELSE out \o <<SP>> \o t,
                  <<>>, c) \o CRLF

\* An empty inline line is no command; every other frame is one.
Requests == SelectSeq(sent, LAMBDA c : c # <<>>)

\* buffer.erase(0, n): n past the end erases everything.
Erase(buf, n) == SubSeq(buf, Min({n, Len(buf)}) + 1, Len(buf))

Init ==
    /\ sent = <<>>
    /\ wire = <<>>
    /\ buffer = <<>>
    /\ executed = <<>>
    /\ hpc = "none"
    /\ clientOpen = TRUE
    /\ parsed = Incomplete
    /\ running = FALSE
    /\ srv = "init"
    /\ sig = "none"
    /\ accepted = FALSE
    /\ inVec = FALSE
    /\ mgrDown = FALSE
    /\ downExec = 0

\* Mutant: the client's bound on commands dropped.
SendUnbounded(c) ==
    /\ clientOpen
    /\ ~\E i \in 1..Len(sent) : sent[i] = Quit
    /\ sent' = Append(sent, c)
    /\ wire' = wire \o Frame(c)
    /\ UNCHANGED <<buffer, executed, hpc, clientOpen, parsed>>
    /\ UNCHANGED srvVars

\* The client writes one more command; it sends nothing after QUIT.
Send(c) ==
    /\ clientOpen
    /\ Len(sent) < MaxCmds
    /\ ~\E i \in 1..Len(sent) : sent[i] = Quit
    /\ sent' = Append(sent, c)
    /\ wire' = wire \o Frame(c)
    /\ UNCHANGED <<buffer, executed, hpc, clientOpen, parsed>>
    /\ UNCHANGED srvVars

\* The client closes once every request it sent has been answered.
ClientClose ==
    /\ clientOpen
    /\ Len(executed) = Len(Requests)
    /\ clientOpen' = FALSE
    /\ UNCHANGED <<sent, wire, buffer, executed, hpc, parsed>>
    /\ UNCHANGED srvVars

\* recv() returns n > 0 bytes, a prefix of what is on the wire, and the
\* handler appends them to its buffer (lines 180-188).
Recv(n) ==
    /\ hpc = "recv"
    /\ buffer' = buffer \o SubSeq(wire, 1, n)
    /\ wire' = SubSeq(wire, n + 1, Len(wire))
    /\ hpc' = "loop"
    /\ UNCHANGED <<sent, executed, clientOpen, parsed>>
    /\ UNCHANGED srvVars

\* recv() returns 0: the client closed and everything sent was read.
RecvEof ==
    /\ hpc = "recv"
    /\ wire = <<>>
    /\ ~clientOpen
    /\ hpc' = "closed"
    /\ UNCHANGED <<sent, wire, buffer, executed, clientOpen, parsed>>
    /\ UNCHANGED srvVars

\* parse(buffer, consumed) at the head of the inner loop (lines 191-193);
\* an empty buffer ends the loop as an incomplete parse does.
Parse ==
    /\ hpc = "loop"
    /\ parsed' = parse[buffer]
    /\ hpc' = "parsed"
    /\ UNCHANGED <<sent, wire, buffer, executed, clientOpen>>
    /\ UNCHANGED srvVars

\* The inner loop leaves for recv() when the buffer is empty or parse()
\* returns no tokens or consumes nothing (line 195); a throw from
\* std::stoi is not caught and ends the process.
NeedMore ==
    /\ hpc = "parsed"
    /\ parsed.tokens = <<>> \/ parsed.consumed = 0
    /\ hpc' = IF parsed.thrown THEN "crashed" ELSE "check"
    /\ UNCHANGED <<sent, wire, buffer, executed, clientOpen, parsed>>
    /\ UNCHANGED srvVars

\* Mutant: after one command the handler goes back to recv() ("break"
\* for "continue"), leaving pipelined commands in the buffer.
ExecuteThenRecv ==
    /\ hpc = "parsed"
    /\ parsed.tokens # <<>>
    /\ parsed.consumed # 0
    /\ executed' = Append(executed, parsed.tokens)
    /\ buffer' = Erase(buffer, parsed.consumed)
    /\ hpc' = IF parsed.tokens = Quit THEN "closed" ELSE "check"
    /\ UNCHANGED <<sent, wire, clientOpen, parsed>>
    /\ UNCHANGED srvVars

\* One complete command: execute, send the reply, erase the consumed
\* bytes, and close on QUIT (lines 197-209).
Execute ==
    /\ hpc = "parsed"
    /\ parsed.tokens # <<>>
    /\ parsed.consumed # 0
    /\ executed' = Append(executed, parsed.tokens)
    /\ buffer' = Erase(buffer, parsed.consumed)
    /\ hpc' = IF parsed.tokens = Quit THEN "closed" ELSE "loop"
    /\ UNCHANGED <<sent, wire, clientOpen, parsed>>
    /\ UNCHANGED srvVars

\* The head of handle_client's outer loop: while (running_).
Check ==
    /\ hpc = "check"
    /\ hpc' = IF running THEN "recv" ELSE "closed"
    /\ UNCHANGED <<sent, wire, buffer, executed, clientOpen, parsed>>
    /\ UNCHANGED srvVars

-----------------------------------------------------------------------------
(* The main thread.  signal_handler runs on it, so none of its steps is    *)
(* taken while stop() is under way there; an uncaught exception in the    *)
(* handler thread ends the process.                                        *)

MainRuns == sig \notin {"lock", "join"} /\ hpc # "crashed"

\* start(): init_socket, then running_ = true.
Start ==
    /\ srv = "init" /\ MainRuns
    /\ running' = TRUE
    /\ srv' = "top"
    /\ UNCHANGED <<sig, accepted, inVec, mgrDown, downExec>> /\ UNCHANGED connVars

\* while (running_) of accept_loop; when it ends, start() returns.
Top ==
    /\ srv = "top" /\ MainRuns
    /\ srv' = IF running THEN "accept" ELSE "down"
    /\ UNCHANGED <<running, sig, accepted, inVec, mgrDown, downExec>> /\ UNCHANGED connVars

\* accept() returns the client's connection.
Accept ==
    /\ srv = "accept" /\ MainRuns
    /\ ~accepted
    /\ accepted' = TRUE
    /\ srv' = "spawn"
    /\ UNCHANGED <<running, sig, inVec, mgrDown, downExec>> /\ UNCHANGED connVars

\* LockGuard on threads_mu_.
LockThreads ==
    /\ srv = "spawn" /\ MainRuns
    /\ srv' = "locked"
    /\ UNCHANGED <<running, sig, accepted, inVec, mgrDown, downExec>> /\ UNCHANGED connVars

\* client_threads_.push_back(Thread(handle_client)), then the unlock.
Spawn ==
    /\ srv = "locked" /\ MainRuns
    /\ hpc' = "check"
    /\ inVec' = TRUE
    /\ srv' = "top"
    /\ UNCHANGED <<running, sig, accepted, mgrDown, downExec>>
    /\ UNCHANGED <<sent, wire, buffer, executed, clientOpen, parsed>>

\* main(): manager.shutdown() once server.start() has returned.
ManagerShutdown ==
    /\ srv = "down" /\ MainRuns
    /\ mgrDown' = TRUE
    /\ downExec' = Len(executed)
    /\ srv' = "dtor"
    /\ UNCHANGED <<running, sig, accepted, inVec>> /\ UNCHANGED connVars

\* ~TCPServer calls stop(): running_ = false, then LockGuard on threads_mu_.
DtorStop ==
    /\ srv = "dtor" /\ MainRuns
    /\ running' = FALSE
    /\ srv' = "dtor_join"
    /\ UNCHANGED <<sig, accepted, inVec, mgrDown, downExec>> /\ UNCHANGED connVars

\* stop() joins every thread in client_threads_ and clears it.
DtorJoin ==
    /\ srv = "dtor_join" /\ MainRuns
    /\ inVec => HandlerDone
    /\ inVec' = FALSE
    /\ srv' = "exit"
    /\ UNCHANGED <<running, sig, accepted, mgrDown, downExec>> /\ UNCHANGED connVars

\* SIGINT: signal_handler interrupts the main thread wherever it is and
\* calls stop(): running_ = false and the listening socket closed.
Signal ==
    /\ sig = "none" /\ srv # "exit" /\ hpc # "crashed"
    /\ running' = FALSE
    /\ sig' = "lock"
    /\ UNCHANGED <<srv, accepted, inVec, mgrDown, downExec>> /\ UNCHANGED connVars

\* stop()'s LockGuard on threads_mu_: if the interrupted main thread holds
\* it, the lock never returns (std::mutex, locked twice by one thread).
SigLock ==
    /\ sig = "lock" /\ hpc # "crashed"
    /\ srv \notin {"locked", "dtor_join"}
    /\ sig' = "join"
    /\ UNCHANGED <<running, srv, accepted, inVec, mgrDown, downExec>> /\ UNCHANGED connVars

\* Mutant: stop() returns without joining the client threads.
SigJoinNoWait ==
    /\ sig = "join" /\ hpc # "crashed"
    /\ inVec' = FALSE
    /\ sig' = "done"
    /\ srv' = IF srv = "accept" THEN "top" ELSE srv
    /\ UNCHANGED <<running, accepted, mgrDown, downExec>> /\ UNCHANGED connVars

\* stop() joins and clears client_threads_ and the handler returns; an
\* interrupted accept(), restarted on the listening socket stop() closed,
\* fails, and accept_loop continues to its loop test.
SigJoin ==
    /\ sig = "join" /\ hpc # "crashed"
    /\ inVec => HandlerDone
    /\ inVec' = FALSE
    /\ sig' = "done"
    /\ srv' = IF srv = "accept" THEN "top" ELSE srv
    /\ UNCHANGED <<running, accepted, mgrDown, downExec>> /\ UNCHANGED connVars

MainStep == Start \/ Top \/ Accept \/ LockThreads \/ Spawn \/ ManagerShutdown \/ DtorStop \/ DtorJoin

SignalStep == Signal \/ SigLock \/ SigJoin

Next ==
    \/ MainStep
    \/ SignalStep
    \/ Check
    \/ \E c \in Commands : Send(c)
    \/ ClientClose
    \/ \E n \in 1..Len(wire) : Recv(n)
    \/ RecvEof
    \/ Parse
    \/ NeedMore
    \/ Execute

\* recv() returns once bytes are there or the client has closed, and the
\* handler thread runs its loop; the main thread runs, and accept()
\* returns once the client's connection is pending.  Once stop() has begun
\* in the signal handler it runs on.  The client and the signal need no
\* fairness.
Fairness ==
    /\ WF_vars(MainStep)
    /\ WF_vars(SigLock \/ SigJoin)
    /\ WF_vars(Check)
    /\ WF_vars(\E n \in 1..Len(wire) : Recv(n))
    /\ WF_vars(RecvEof)
    /\ WF_vars(Parse)
    /\ WF_vars(NeedMore)
    /\ WF_vars(Execute)

Spec == Init /\ [][Next]_vars /\ Fairness

-----------------------------------------------------------------------------

TypeOK ==
    /\ sent \in Seq(Commands)
    /\ Len(sent) <= MaxCmds
    /\ executed \in Seq(Seq(Seq(STRING)))
    /\ hpc \in {"none", "check", "recv", "loop", "parsed", "closed", "crashed"}
    /\ srv \in {"init", "top", "accept", "spawn", "locked", "down", "dtor", "dtor_join", "exit"}
    /\ sig \in {"none", "lock", "join", "done"}
    /\ {running, accepted, inVec, mgrDown} \subseteq BOOLEAN
    /\ clientOpen \in BOOLEAN
    /\ parsed \in [thrown : BOOLEAN, tokens : Seq(Seq(STRING)), consumed : Nat]

\* Framing (spec 4.10, 6.1): the handler executes exactly the commands the
\* client sent, in order, whatever chunks recv() cuts the stream into: a
\* command is never run before all of it arrived, split in two, merged
\* with the next one, or run twice.
FramingSafe == IsPrefix(executed, Requests)

\* Every request the client sends is eventually executed and answered,
\* unless the server is being stopped: the handler never waits for bytes
\* that are already in its buffer, and accept_loop hands the connection
\* to a handler thread.
AllAnswered ==
    \A i \in 1..MaxCmds : Len(Requests) >= i ~> (Len(executed) >= i \/ ~running)

\* No command reaches the CacheManager once main() has shut it down:
\* stop(), run by the signal handler, joins every handler thread before
\* accept_loop returns, and a thread accept_loop spawns after that sees
\* running_ false before its first recv().
NoCommandAfterShutdown == mgrDown => Len(executed) = downExec

\* Once SIGINT has arrived, the server process reaches the end of main().
ServerExits == sig # "none" ~> srv = "exit"


=============================================================================
