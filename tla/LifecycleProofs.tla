-------------------------- MODULE LifecycleProofs --------------------------
(***************************************************************************)
(* Proofs about Lifecycle, for every number of blocks and of signals.      *)
(***************************************************************************)
EXTENDS Lifecycle, TLAPS

-----------------------------------------------------------------------------
\* The inductive invariant.

\* The spinlock is held exactly when some context writes.
LockInv == lock_ <=> \E c \in Contexts : pc[c] = "write"

\* While the process lives: as main starts the blocks those beyond started have no
\* thread yet; after that they have one that has ended.  No handler runs on such a
\* thread.
LifeInv == Alive =>
  /\ \A b \in Blocks : b > started =>
       /\ pc[Handler(b)] = "none"
       /\ pc[Code(b)] = IF pc[Code(Main)] = "starting" THEN "off" ELSE "done"
  /\ \A b \in Blocks : pc[Code(b)] = "done" => pc[Handler(b)] = "none"
  /\ pc[Code(Main)] \in LogPlaces \cup {"done"} => started = 0
  /\ pc[Code(Main)] = "joining" => started > 0

IInv == TypeOK /\ LockInv /\ LogExclusive /\ LifeInv

-----------------------------------------------------------------------------
\* Contexts.

\* A context is the code of one thread or the handler on top of one.
LEMMA ContextCases ==
  /\ \A t \in Threads : Code(t) \in Contexts /\ Handler(t) \in Contexts
  /\ \A c \in Contexts : \E t \in Threads : c = Code(t) \/ c = Handler(t)
  BY DEF Contexts, Code, Handler

\* The contexts of different threads differ, and so do code and handler.
LEMMA ContextsDiffer ==
  \A t, u : /\ Code(t) # Handler(u)
            /\ Code(t) = Code(u) => t = u
            /\ Handler(t) = Handler(u) => t = u
  BY DEF Code, Handler

\* Main is a thread, and so is every block; there is at least one block.
LEMMA ThreadSets ==
  /\ Main \in Threads
  /\ Blocks \subseteq Threads
  /\ \A t \in Threads : t = Main \/ t \in Blocks
  /\ Main \notin Blocks
  BY NAssumption DEF Main, Threads, Blocks

-----------------------------------------------------------------------------
\* A move changes the place of one context, within its own code.
LEMMA Move ==
  ASSUME TypeOK, NEW c \in Contexts, NEW from, NEW to, Goto(c, from, to)
  PROVE  /\ Running(c) /\ pc[c] = from /\ pc'[c] = to
         /\ \A d \in Contexts : d # c => pc'[d] = pc[d]
  BY DEF Goto, TypeOK

-----------------------------------------------------------------------------
\* Before anything is started all is in order.
LEMMA InitInv == Init => IInv
  <1> SUFFICES ASSUME Init PROVE IInv
    OBVIOUS
  <1>1. /\ \A t \in Threads : pc[Handler(t)] = "none"
        /\ \A b \in Blocks : pc[Code(b)] = "off"
        /\ pc[Code(Main)] = "starting"
    BY ContextCases, ThreadSets DEF Init, Code, Handler
  <1>2. TypeOK
    <2>1. pc \in [Contexts -> HandlerPlaces \cup BlockPlaces \cup MainPlaces]
      BY DEF Init, HandlerPlaces, BlockPlaces, MainPlaces
    <2>2. started \in 0..N /\ signals \in 0..MaxSignals
      BY NAssumption DEF Init
    <2>3. QED
      BY <1>1, <2>1, <2>2
         DEF Init, TypeOK, HandlerPlaces, BlockPlaces, MainPlaces
  <1>3. \A c \in Contexts : pc[c] # "write"
    BY <1>1, ContextCases, ThreadSets
  <1>4. LifeInv
    BY <1>1, ThreadSets DEF LifeInv, Alive, Init, LogPlaces
  <1>5. QED
    BY <1>2, <1>3, <1>4 DEF IInv, LockInv, LogExclusive, Init

\* Logging keeps every context in its code, the lock with the one that writes,
\* and does not bring a thread that has ended back.
LEMMA LogStep == ASSUME IInv, NEW c \in Contexts, Log(c) PROVE IInv'
  <1> DEFINE To == LogPlaces \cup {AfterLog(c)}
  <1>1. /\ pc[c] \in LogPlaces
        /\ \E to \in To : /\ pc' = [pc EXCEPT ![c] = to]
                          /\ pc'[c] = to
        /\ \A d \in Contexts : d # c => pc'[d] = pc[d]
        /\ Alive
        /\ UNCHANGED <<proxy, stop, stop_condition, started, signals>>
    BY DEF IInv, TypeOK, Log, LogAcquire, LogMiss, LogSpin, LogUnlock, Goto, Running,
       LogPlaces
  <1>2. /\ c \in {Handler(t) : t \in Threads} => AfterLog(c) = "set"
        /\ c \in {Code(b) : b \in Blocks} => AfterLog(c) = "loop"
        /\ c = Code(Main) => AfterLog(c) = "done"
    BY ThreadSets DEF AfterLog, Code, Handler
  <1>3. TypeOK'
    <2>1. pc' \in [Contexts -> HandlerPlaces \cup BlockPlaces \cup MainPlaces]
      BY <1>1 DEF IInv, TypeOK, AfterLog, HandlerPlaces, BlockPlaces, MainPlaces
    <2>2. \A t \in Threads : pc'[Handler(t)] \in HandlerPlaces
      BY <1>1, <1>2, ContextCases DEF IInv, TypeOK, HandlerPlaces
    <2>3. \A b \in Blocks : pc'[Code(b)] \in BlockPlaces
      BY <1>1, <1>2, ContextCases, ThreadSets DEF IInv, TypeOK, BlockPlaces
    <2>4. pc'[Code(Main)] \in MainPlaces
      BY <1>1, <1>2, ContextCases, ThreadSets DEF IInv, TypeOK, MainPlaces
    <2>5. lock_' \in BOOLEAN
      BY DEF IInv, TypeOK, Log, LogAcquire, LogMiss, LogSpin, LogUnlock
    <2>6. QED
      BY <1>1, <2>1, <2>2, <2>3, <2>4, <2>5 DEF IInv, TypeOK
  <1>4. LockInv' /\ LogExclusive'
    <2>1. CASE LogAcquire(c)
      BY <1>1, <2>1, Move DEF LogAcquire, IInv, LockInv, LogExclusive
    <2>2. CASE LogMiss(c) \/ LogSpin(c)
      BY <1>1, <2>2, Move DEF LogMiss, LogSpin, IInv, LockInv, LogExclusive
    <2>3. CASE LogUnlock(c)
      BY <1>1, <2>3, Move DEF LogUnlock, IInv, LockInv, LogExclusive, AfterLog
    <2>4. QED
      BY <2>1, <2>2, <2>3 DEF Log
  <1>5. LifeInv'
    <2>1. pc'[Code(Main)] = "starting" <=> pc[Code(Main)] = "starting"
      BY <1>1, <1>2, ContextCases, ThreadSets DEF LogPlaces
    <2>2. \A b \in Blocks : b > started =>
            pc'[Handler(b)] = "none" /\ pc'[Code(b)] = pc[Code(b)]
      BY <1>1, ContextCases, ThreadSets DEF IInv, LifeInv, Alive, LogPlaces
    <2>3. \A b \in Blocks : pc'[Code(b)] = "done" => pc'[Handler(b)] = "none"
      BY <1>1, <1>2, ContextCases, ThreadSets DEF IInv, LifeInv, Alive, LogPlaces
    <2>4. /\ pc'[Code(Main)] \in LogPlaces \cup {"done"} => started = 0
          /\ pc'[Code(Main)] = "joining" => started > 0
      BY <1>1, <1>2, ContextCases, ThreadSets DEF IInv, LifeInv, Alive, LogPlaces
    <2>5. QED
      BY <1>1, <2>1, <2>2, <2>3, <2>4 DEF IInv, LifeInv, Alive
  <1>6. QED
    BY <1>3, <1>4, <1>5 DEF IInv

\* Code runs only while no handler is on top of it.
LEMMA RunningCode ==
  \A t \in Threads : Running(Code(t)) => Alive /\ pc[Handler(t)] = "none"
  BY DEF Running, Code, Handler

\* A step in a block's loop keeps the invariant: a thread ends only when no
\* handler is on top of it.
LEMMA BlockStep ==
  ASSUME IInv, NEW b \in Blocks, BlockEnd(b) \/ BlockSticks(b) \/ BlockLogs(b)
  PROVE  IInv'
  <1>1. /\ pc[Code(b)] = "loop"
        /\ pc'[Code(b)] \in {"done", "stuck", "exchange"}
        /\ pc' = [pc EXCEPT ![Code(b)] = pc'[Code(b)]]
        /\ \A d \in Contexts : d # Code(b) => pc'[d] = pc[d]
        /\ pc[Handler(b)] = "none"
        /\ Alive
        /\ UNCHANGED <<proxy, lock_, stop, stop_condition, started, signals>>
    <2>1. /\ Goto(Code(b), "loop", "done") \/ Goto(Code(b), "loop", "stuck")
               \/ Goto(Code(b), "loop", "exchange")
          /\ UNCHANGED <<proxy, lock_, stop, stop_condition, started, signals>>
      BY DEF BlockEnd, BlockSticks, BlockLogs
    <2>2. Code(b) \in Contexts /\ pc[Handler(b)] = "none" /\ Alive
      BY <2>1, ContextCases, ThreadSets, RunningCode DEF Goto, Running
    <2>3. QED
      BY <2>1, <2>2 DEF IInv, TypeOK, Goto
  <1>2. /\ \A t \in Threads : pc'[Handler(t)] = pc[Handler(t)]
        /\ \A e \in Blocks : e # b => pc'[Code(e)] = pc[Code(e)]
        /\ pc'[Code(Main)] = pc[Code(Main)]
    BY <1>1, ContextCases, ContextsDiffer, ThreadSets
  <1>3. TypeOK'
    <2>1. pc' \in [Contexts -> HandlerPlaces \cup BlockPlaces \cup MainPlaces]
      BY <1>1 DEF IInv, TypeOK, BlockPlaces, LogPlaces
    <2>2. QED
      BY <1>1, <1>2, <2>1, ThreadSets DEF IInv, TypeOK, BlockPlaces, LogPlaces
  <1>4. LockInv' /\ LogExclusive'
    BY <1>1 DEF IInv, LockInv, LogExclusive
  <1>5. LifeInv'
    BY <1>1, <1>2, ThreadSets DEF IInv, LifeInv, Alive
  <1>6. QED
    BY <1>3, <1>4, <1>5 DEF IInv

\* The process that ends by terminate keeps the invariant.
LEMMA AbortStep ==
  ASSUME IInv, NEW b \in Blocks, BlockAborts(b)
  PROVE  IInv'
  <1> DEFINE main == Code(Main)
  <1>1. /\ main \in Contexts
        /\ pc' = [pc EXCEPT ![main] = "aborted"]
        /\ UNCHANGED <<proxy, lock_, stop, stop_condition, started, signals>>
        /\ \A e \in Blocks : Code(e) # main
        /\ \A t \in Threads : Handler(t) # main
    BY ContextCases, ContextsDiffer, ThreadSets DEF BlockAborts
  <1>2. /\ pc'[main] = "aborted"
        /\ \A d \in Contexts : d # main => pc'[d] = pc[d]
    BY <1>1 DEF IInv, TypeOK
  <1>3. TypeOK'
    BY <1>1, <1>2, ContextCases, ThreadSets
       DEF IInv, TypeOK, MainPlaces
  <1>4. pc[main] # "write"
    <2>1. Alive /\ pc[Code(b)] = "loop"
      BY DEF BlockAborts, Running
    <2>2. ASSUME pc[main] = "write" PROVE FALSE
      <3>1. started = 0 /\ b > started
        BY <2>1, <2>2 DEF IInv, LifeInv, Alive, LogPlaces, Blocks
      <3>2. QED
        BY <2>1, <2>2, <3>1 DEF IInv, LifeInv, Alive
    <2>3. QED
      BY <2>2
  <1>5. QED
    BY <1>1, <1>2, <1>3, <1>4 DEF IInv, LockInv, LogExclusive, LifeInv, Alive

\* A signal, and the end of its handler, keep the invariant: no handler begins
\* on a thread that has ended.
LEMMA SignalStep ==
  ASSUME IInv, NEW t \in Threads, Signal(t) \/ HandlerSet(t) PROVE IInv'
  <1>1. /\ pc[Handler(t)] \in {"none", "set"}
        /\ pc'[Handler(t)] \in {"none", "set", "exchange"}
        /\ pc' = [pc EXCEPT ![Handler(t)] = pc'[Handler(t)]]
        /\ \A d \in Contexts : d # Handler(t) => pc'[d] = pc[d]
        /\ pc'[Handler(t)] = "none" \/ pc[Code(t)] \notin {"off", "done"}
        /\ signals' \in 0..MaxSignals
        /\ stop' \in BOOLEAN
        /\ UNCHANGED <<proxy, lock_, stop_condition, started>>
    <2>1. signals' \in 0..MaxSignals
      <3>1. signals \in 0..MaxSignals /\ MaxSignals \in Nat
        BY NAssumption DEF IInv, TypeOK
      <3>2. signals' = signals \/ (signals < MaxSignals /\ signals' = signals + 1)
        BY DEF Signal, HandlerSet
      <3>3. QED
        BY <3>1, <3>2
    <2>2. CASE Signal(t)
      BY <2>1, <2>2, ContextCases DEF IInv, TypeOK, Signal
    <2>3. CASE HandlerSet(t)
      BY <2>1, <2>3, ContextCases DEF IInv, TypeOK, HandlerSet, Goto
    <2>4. QED
      BY <2>2, <2>3
  <1>2. /\ \A u \in Threads : pc'[Code(u)] = pc[Code(u)]
        /\ \A u \in Threads : u # t => pc'[Handler(u)] = pc[Handler(u)]
    BY <1>1, ContextCases, ContextsDiffer
  <1>3. TypeOK'
    <2>1. pc' \in [Contexts -> HandlerPlaces \cup BlockPlaces \cup MainPlaces]
      BY <1>1 DEF IInv, TypeOK, HandlerPlaces, LogPlaces
    <2>2. QED
      BY <1>1, <1>2, <2>1, ThreadSets DEF IInv, TypeOK, HandlerPlaces, LogPlaces
  <1>4. LockInv' /\ LogExclusive'
    BY <1>1 DEF IInv, LockInv, LogExclusive
  <1>5. LifeInv'
    BY <1>1, <1>2, ThreadSets DEF IInv, LifeInv, Alive
  <1>6. QED
    BY <1>3, <1>4, <1>5 DEF IInv

\* Main keeps the invariant: each start adds the next thread, each join takes
\* away one that has ended.
LEMMA MainStep == ASSUME IInv, MainThread PROVE IInv'
  <1> DEFINE main == Code(Main)
  <1>1. main \in Contexts /\ \A b \in Blocks : Code(b) # main
    BY ContextCases, ContextsDiffer, ThreadSets
  <1>2. CASE MainStart
    <2>1. started \in 0..N /\ started < N /\ started' = started + 1 /\ N \in Nat
      BY <1>2, NAssumption DEF MainStart, IInv, TypeOK
    <2>2. started' \in Blocks /\ started' \in 0..N /\ started' > started
      BY <2>1 DEF Blocks
    <2>3. PICK first \in {"exchange", "loop"} :
            pc' = [pc EXCEPT ![Code(started')] = first]
      BY <1>2 DEF MainStart
    <2>4. /\ pc'[Code(started')] = first
          /\ \A d \in Contexts : d # Code(started') => pc'[d] = pc[d]
          /\ pc[main] = "starting" /\ pc'[main] = "starting"
          /\ pc[Code(started')] = "off" /\ pc[Handler(started')] = "none"
      BY <1>1, <1>2, <2>2, <2>3, ContextCases, ThreadSets
         DEF IInv, TypeOK, LifeInv, Alive, MainStart
    <2>5. /\ \A t \in Threads : pc'[Handler(t)] = pc[Handler(t)]
          /\ \A b \in Blocks : b # started' => pc'[Code(b)] = pc[Code(b)]
      BY <2>2, <2>4, ContextCases, ContextsDiffer, ThreadSets
    <2>6. /\ stop_condition' \in [Blocks -> BOOLEAN]
          /\ UNCHANGED <<proxy, lock_, stop, signals>>
      BY <1>2, <2>2 DEF MainStart, IInv, TypeOK
    <2>7. TypeOK'
      <3>1. pc' \in [Contexts -> HandlerPlaces \cup BlockPlaces \cup MainPlaces]
        BY <2>3 DEF IInv, TypeOK, BlockPlaces, LogPlaces
      <3>2. QED
        BY <2>2, <2>4, <2>5, <2>6, <3>1, ThreadSets
           DEF IInv, TypeOK, BlockPlaces, LogPlaces
    <2>8. LockInv' /\ LogExclusive'
      BY <2>4, <2>6 DEF IInv, LockInv, LogExclusive
    <2>9. LifeInv'
      <3>1. \A b \in Blocks : b > started' => b > started /\ b # started'
        BY <2>1 DEF Blocks
      <3>2. QED
        BY <2>1, <2>4, <2>5, <3>1, ThreadSets DEF IInv, LifeInv, Alive, LogPlaces
    <2>10. QED
      BY <2>7, <2>8, <2>9 DEF IInv
  <1>3. ASSUME MainStarted \/ MainWait \/ MainStop \/ MainJoin \/ MainStopped
        PROVE  IInv'
    <2>1. /\ pc[main] \in {"starting", "waiting", "stopping", "joining"}
          /\ pc'[main] \in {"waiting", "stopping", "joining", "exchange", "done"}
          /\ pc' = [pc EXCEPT ![main] = pc'[main]]
          /\ \A d \in Contexts : d # main => pc'[d] = pc[d]
          /\ UNCHANGED <<proxy, lock_, stop, signals>>
      BY <1>1, <1>3 DEF IInv, TypeOK, MainStarted, MainWait, MainStop, MainJoin,
                        MainStopped, Goto
    <2>2. /\ \A t \in Threads : pc'[Handler(t)] = pc[Handler(t)]
          /\ \A b \in Blocks : pc'[Code(b)] = pc[Code(b)]
      BY <1>1, <2>1, ContextCases, ContextsDiffer, ThreadSets
    <2>3. /\ stop_condition' \in [Blocks -> BOOLEAN]
          /\ started' = IF MainJoin THEN started - 1 ELSE started
          /\ MainJoin => started > 0 /\ pc[Code(started)] = "done"
      BY <1>3 DEF IInv, TypeOK, LifeInv, Alive, MainStarted, MainWait, MainStop,
                  MainJoin, MainStopped, Goto
    <2>4. started' \in 0..N
      <3>1. started \in 0..N /\ N \in Nat
        BY NAssumption DEF IInv, TypeOK
      <3>2. started' = started \/ (started > 0 /\ started' = started - 1)
        BY <2>3
      <3>3. QED
        BY <3>1, <3>2
    <2>5. TypeOK'
      <3>1. pc' \in [Contexts -> HandlerPlaces \cup BlockPlaces \cup MainPlaces]
        BY <2>1 DEF IInv, TypeOK, MainPlaces, LogPlaces
      <3>2. QED
        BY <2>1, <2>2, <2>3, <2>4, <3>1, ThreadSets
           DEF IInv, TypeOK, MainPlaces, LogPlaces
    <2>6. LockInv' /\ LogExclusive'
      BY <1>1, <2>1 DEF IInv, LockInv, LogExclusive
    <2>7. LifeInv'
      <3>1. \A b \in Blocks : b > started' =>
              pc[Handler(b)] = "none" /\ pc[Code(b)] = "done"
        <4>1. CASE MainStarted
          BY <2>3, <4>1 DEF MainStarted, MainJoin, Goto, Blocks, IInv, TypeOK
        <4>2. CASE MainJoin
          BY <2>3, <4>2 DEF MainJoin, Goto, Blocks, IInv, TypeOK, LifeInv, Alive
        <4>3. CASE MainWait \/ MainStop \/ MainStopped
          BY <2>3, <4>3
             DEF MainWait, MainStop, MainStopped, MainJoin, Goto, IInv, LifeInv, Alive
        <4>4. QED
          BY <1>3, <4>1, <4>2, <4>3
      <3>2. /\ pc'[main] \in LogPlaces \cup {"done"} => started' = 0
            /\ pc'[main] = "joining" => started' > 0
        BY <1>1, <1>3, <2>3
           DEF MainStarted, MainWait, MainStop, MainJoin, MainStopped, Goto, IInv,
               TypeOK, LogPlaces
      <3>3. QED
        BY <2>1, <2>2, <3>1, <3>2, ThreadSets DEF IInv, LifeInv, Alive
    <2>8. QED
      BY <2>5, <2>6, <2>7 DEF IInv
  <1>4. QED
    BY <1>2, <1>3 DEF MainThread

-----------------------------------------------------------------------------
\* Main, the blocks, the handlers and the logger keep the invariant between
\* them: it holds whenever a signal arrives and whomever it interrupts.
THEOREM Invariance == Spec => []IInv
  <1>1. ASSUME IInv, [Next]_vars PROVE IInv'
    <2>1. CASE UNCHANGED vars
      BY <1>1, <2>1 DEF vars, IInv, TypeOK, LockInv, LogExclusive, LifeInv, Alive
    <2>2. QED
      BY <1>1, <2>1, MainStep, BlockStep, AbortStep, SignalStep, LogStep DEF Next
  <1>2. QED
    BY <1>1, InitInv, PTL DEF Spec

\* Every variable keeps its type, and every context stays in its own code, for
\* any number of blocks and signals.
THEOREM TypeCorrect == Spec => []TypeOK
  <1>1. IInv => TypeOK
    BY DEF IInv
  <1>2. QED
    BY <1>1, Invariance, PTL

\* No two contexts write into the log at the same time, although a handler may
\* interrupt the loop of spinlock::lock anywhere and enter the same loop.
THEOREM LogIsExclusive == Spec => []LogExclusive
  <1>1. IInv => LogExclusive
    BY DEF IInv
  <1>2. QED
    BY <1>1, Invariance, PTL

\* When main returns, the joins of SimpleBlock::stop have taken every thread of
\* every block away, however many blocks there are.
THEOREM NothingLeft == Spec => []NoThreadLeft
  <1>1. IInv => NoThreadLeft
    <2> SUFFICES ASSUME IInv, pc[Code(Main)] = "done", NEW b \in Blocks
                 PROVE  pc[Code(b)] = "done" /\ pc[Handler(b)] = "none"
      BY DEF NoThreadLeft
    <2>1. started = 0
      BY DEF IInv, LifeInv, Alive
    <2>2. b > started
      BY <2>1 DEF Blocks
    <2>3. QED
      BY <2>2 DEF IInv, LifeInv, Alive
  <1>2. QED
    BY <1>1, Invariance, PTL
=============================================================================
