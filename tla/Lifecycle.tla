----------------------------- MODULE Lifecycle -----------------------------
(***************************************************************************)
(* A proxy from start to end.  The main thread starts the blocks, waits    *)
(* until a signal handler has set stop, and stops the blocks one after the *)
(* other.  All threads log, under one spinlock.  The handler interrupts    *)
(* any of them, wherever it is; the handler of proxy_server logs too, that *)
(* of proxy_client writes to std::cout without the logger.                 *)
(*                                                                         *)
(* Of a block only what it shares with the rest of the program is kept:    *)
(* its stop_condition and its calls of the logger.  A place in the program *)
(* is that of a context, the code of a thread or the handler running on    *)
(* top of it; while the handler runs the code below it does not.           *)
(*                                                                         *)
(* Not every block ends when it is told to.  A thread of TcpServer may     *)
(* sleep for ever after a lost notification (see TcpServer), and run of    *)
(* TcpServer and of TcpClient may wait in send for a peer that does not    *)
(* read.  ScreamClientSingle, in proxy_client, ends with the process (see  *)
(* ScreamClient).                                                          *)
(***************************************************************************)
EXTENDS Naturals

CONSTANTS
  N,             \* the number of blocks
  TcpBlocks,     \* those that are a TcpServer or a TcpClient
  ScreamClients, \* those that are a ScreamClientSingle, if this is proxy_client
  MaxSignals     \* bound on the signals delivered

ASSUME NAssumption == N \in Nat \ {0} /\ MaxSignals \in Nat

ASSUME BlocksAssumption == TcpBlocks \subseteq 1..N /\ ScreamClients \subseteq 1..N

VARIABLES
  proxy,           \* the program: "server" or "client"
  pc,              \* where each context is
  lock_,           \* the logger's spinlock
  stop,            \* the flag the handler sets
  stop_condition,  \* SimpleBlock::stop_condition of each block
  started,         \* blocks 1 to started have a thread
  signals          \* signals delivered so far

vars == <<proxy, pc, lock_, stop, stop_condition, started, signals>>

Blocks  == 1..N
Main    == 0
Threads == 0..N

Code(t)    == <<t, "code">>
Handler(t) == <<t, "handler">>
Contexts   == Threads \X {"code", "handler"}

\* The process has not been terminated.
Alive == pc[Code(Main)] # "aborted"

\* The code of a thread does not go on while a handler runs on top of it.
Running(c) == Alive /\ (c[2] = "handler" \/ pc[Handler(c[1])] = "none")

Goto(c, from, to) == Running(c) /\ pc[c] = from /\ pc' = [pc EXCEPT ![c] = to]

-----------------------------------------------------------------------------
\* logger::log, with the loop of spinlock::lock

\* lock_.exchange(true) returns false.
LogAcquire(c) ==
  /\ Goto(c, "exchange", "write")
  /\ ~lock_
  /\ lock_' = TRUE
  /\ UNCHANGED <<proxy, stop, stop_condition, started, signals>>

\* It returns true.
LogMiss(c) ==
  /\ Goto(c, "exchange", "spin")
  /\ lock_
  /\ UNCHANGED <<proxy, lock_, stop, stop_condition, started, signals>>

\* Mutant: the load that finds the lock free is not followed by an exchange.
LogSpinEnters(c) ==
  /\ Goto(c, "spin", "write")
  /\ ~lock_
  /\ UNCHANGED <<proxy, lock_, stop, stop_condition, started, signals>>

\* The load finds the lock free (otherwise it is repeated).
LogSpin(c) ==
  /\ Goto(c, "spin", "exchange")
  /\ ~lock_
  /\ UNCHANGED <<proxy, lock_, stop, stop_condition, started, signals>>

\* Where the call returns to: of a block its loop, of main its last line.
AfterLog(c) ==
  IF c[2] = "handler" THEN "set" ELSE IF c[1] = Main THEN "done" ELSE "loop"

\* The text is out; unlock.
LogUnlock(c) ==
  /\ Goto(c, "write", AfterLog(c))
  /\ lock_' = FALSE
  /\ UNCHANGED <<proxy, stop, stop_condition, started, signals>>

Log(c) == LogAcquire(c) \/ LogMiss(c) \/ LogSpin(c) \/ LogUnlock(c)

-----------------------------------------------------------------------------
\* The blocks

\* The end of block b terminates the process.
Fatal(b) == proxy = "client" /\ b \in ScreamClients

\* The loop of a block's threads ends.
BlockEnd(b) ==
  /\ ~Fatal(b)
  /\ Goto(Code(b), "loop", "done")
  /\ stop_condition[b]
  /\ UNCHANGED <<proxy, lock_, stop, stop_condition, started, signals>>

\* run returns without a join or detach of the thread it has started: terminate.
BlockAborts(b) ==
  /\ Fatal(b)
  /\ Running(Code(b))
  /\ pc[Code(b)] = "loop"
  /\ stop_condition[b]
  /\ pc' = [pc EXCEPT ![Code(Main)] = "aborted"]
  /\ UNCHANGED <<proxy, lock_, stop, stop_condition, started, signals>>

\* A thread of the block waits for something that does not come any more.
BlockSticks(b) ==
  /\ b \in TcpBlocks
  /\ Goto(Code(b), "loop", "stuck")
  /\ UNCHANGED <<proxy, lock_, stop, stop_condition, started, signals>>

\* In its loop a block meets something to log.
BlockLogs(b) ==
  /\ Goto(Code(b), "loop", "exchange")
  /\ ~stop_condition[b]
  /\ UNCHANGED <<proxy, lock_, stop, stop_condition, started, signals>>

-----------------------------------------------------------------------------
\* The main thread

\* Mutant: one block too many.
MainStartOneMore ==
  /\ Goto(Code(Main), "starting", "starting")
  /\ started <= N
  /\ started' = started + 1
  /\ UNCHANGED <<proxy, lock_, stop, stop_condition, signals>>

\* start() of the next block; the threads of some begin with a log message.
MainStart ==
  /\ Running(Code(Main))
  /\ pc[Code(Main)] = "starting"
  /\ started < N
  /\ started' = started + 1
  /\ stop_condition' = [stop_condition EXCEPT ![started'] = FALSE]
  /\ \E first \in {"exchange", "loop"} : pc' = [pc EXCEPT ![Code(started')] = first]
  /\ UNCHANGED <<proxy, lock_, stop, signals>>

MainStarted ==
  /\ Goto(Code(Main), "starting", "waiting")
  /\ started = N
  /\ UNCHANGED <<proxy, lock_, stop, stop_condition, started, signals>>

\* while (!stop) ends.
MainWait ==
  /\ Goto(Code(Main), "waiting", "stopping")
  /\ stop
  /\ UNCHANGED <<proxy, lock_, stop, stop_condition, started, signals>>

\* stop() of the last block that runs: the flag, then the join.  (The order of
\* main is roughly this one; the blocks are alike here, so any is.)
MainStop ==
  /\ Goto(Code(Main), "stopping", "joining")
  /\ started > 0
  /\ stop_condition' = [stop_condition EXCEPT ![started] = TRUE]
  /\ UNCHANGED <<proxy, lock_, stop, started, signals>>

\* Mutant: the thread is not waited for.
MainJoinDetaches ==
  /\ Goto(Code(Main), "joining", "stopping")
  /\ started' = started - 1
  /\ UNCHANGED <<proxy, lock_, stop, stop_condition, signals>>

MainJoin ==
  /\ Goto(Code(Main), "joining", "stopping")
  /\ pc[Code(started)] = "done"
  /\ started' = started - 1
  /\ UNCHANGED <<proxy, lock_, stop, stop_condition, signals>>

\* All blocks are stopped; the server logs "all done".
MainStopped ==
  /\ Goto(Code(Main), "stopping", IF proxy = "server" THEN "exchange" ELSE "done")
  /\ started = 0
  /\ UNCHANGED <<proxy, lock_, stop, stop_condition, started, signals>>

MainThread == MainStart \/ MainStarted \/ MainWait \/ MainStop \/ MainJoin \/ MainStopped

-----------------------------------------------------------------------------
\* Signals

\* A signal is delivered to a thread that exists and runs no handler.  (The
\* handler of the other signal on top of a handler is left out.)
Signal(t) ==
  /\ Alive
  /\ signals < MaxSignals
  /\ pc[Code(t)] \notin {"off", "done"}
  /\ pc[Handler(t)] = "none"
  /\ pc' = [pc EXCEPT ![Handler(t)] = IF proxy = "server" THEN "exchange" ELSE "set"]
  /\ signals' = signals + 1
  /\ UNCHANGED <<proxy, lock_, stop, stop_condition, started>>

\* Mutant: the handler only logs.
HandlerSetForgets(t) ==
  /\ Goto(Handler(t), "set", "none")
  /\ UNCHANGED <<proxy, lock_, stop, stop_condition, started, signals>>

HandlerSet(t) ==
  /\ Goto(Handler(t), "set", "none")
  /\ stop' = TRUE
  /\ UNCHANGED <<proxy, lock_, stop_condition, started, signals>>

-----------------------------------------------------------------------------
Init ==
  /\ proxy \in {"server", "client"}
  /\ pc = [c \in Contexts |->
             IF c[2] = "handler" THEN "none"
             ELSE IF c[1] = Main THEN "starting" ELSE "off"]
  /\ lock_ = FALSE
  /\ stop = FALSE
  /\ stop_condition = [b \in Blocks |-> TRUE]
  /\ started = 0
  /\ signals = 0

Next ==
  \/ MainThread
  \/ \E b \in Blocks : BlockEnd(b) \/ BlockAborts(b) \/ BlockSticks(b) \/ BlockLogs(b)
  \/ \E t \in Threads : Signal(t) \/ HandlerSet(t)
  \/ \E c \in Contexts : Log(c)

Spec == Init /\ [][Next]_vars

\* Every context is scheduled while it is not suspended, and a block that is not
\* stuck sees that it is told to stop.  The spinlock is not
\* fair by itself: that a context which finds it free again and again gets it
\* in the end is the processor's doing.
Fairness ==
  /\ WF_vars(MainThread)
  /\ \A b \in Blocks : WF_vars(BlockEnd(b) \/ BlockAborts(b))
  /\ \A t \in Threads : WF_vars(HandlerSet(t))
  /\ \A c \in Contexts : WF_vars(Log(c)) /\ SF_vars(LogSpin(c)) /\ SF_vars(LogAcquire(c))

LiveSpec == Spec /\ Fairness

-----------------------------------------------------------------------------
\* Properties

LogPlaces     == {"exchange", "spin", "write"}
HandlerPlaces == {"none", "set"} \cup LogPlaces
BlockPlaces   == {"off", "loop", "stuck", "done"} \cup LogPlaces
MainPlaces    == {"starting", "waiting", "stopping", "joining", "done", "aborted"}
                    \cup LogPlaces

\* Every variable keeps its type and every context its own code.
TypeOK ==
  /\ proxy \in {"server", "client"}
  /\ pc \in [Contexts -> HandlerPlaces \cup BlockPlaces \cup MainPlaces]
  /\ \A t \in Threads : pc[Handler(t)] \in HandlerPlaces
  /\ \A b \in Blocks : pc[Code(b)] \in BlockPlaces
  /\ pc[Code(Main)] \in MainPlaces
  /\ lock_ \in BOOLEAN
  /\ stop \in BOOLEAN
  /\ stop_condition \in [Blocks -> BOOLEAN]
  /\ started \in 0..N
  /\ signals \in 0..MaxSignals

\* No two contexts are inside the logger at once, handlers included: their
\* lines are not mixed.
LogExclusive ==
  \A c, d \in Contexts : pc[c] = "write" /\ pc[d] = "write" => c = d

\* When main returns, every thread of every block has ended and no handler
\* holds the logger: nothing outlives the blocks that main is about to destroy.
NoThreadLeft ==
  pc[Code(Main)] = "done" =>
    \A b \in Blocks : pc[Code(b)] = "done" /\ pc[Handler(b)] = "none"

\* The handler of some thread waits for the lock its own code holds.
HandlerBlocks ==
  \E t \in Threads : pc[Code(t)] = "write" /\ pc[Handler(t)] \in {"exchange", "spin"}

\* main waits in stop() for a block that is stuck.
JoinWaits == pc[Code(Main)] = "joining" /\ pc[Code(started)] = "stuck"

\* A signal ends the proxy, in proxy_client with terminate, unless it finds its
\* thread inside the logger or main comes to the join of a TCP block that is stuck.
\* In particular a block that is stuck keeps no other from being stopped first.
EndsUnlessWaiting ==
  signals > 0 ~> (pc[Code(Main)] \in {"done", "aborted"} \/ HandlerBlocks \/ JoinWaits)

\* main_server.cpp, line 201: after the wait for stop, "stop all blocks".  A
\* signal ends the proxy.
SignalEnds == signals > 0 ~> pc[Code(Main)] = "done"
=============================================================================
