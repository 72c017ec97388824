---------------------------- MODULE ScreamServer ----------------------------
(***************************************************************************)
(* ScreamV2ServerSingle, the congestion-controlled sender of the server    *)
(* proxy.  Three threads share the SCReAM controller and its RTP queue     *)
(* behind one spinlock:                                                    *)
(*   run     takes packets from own_queue, copies each into a new buffer   *)
(*           and pushes the buffer on the RTP queue;                       *)
(*   lookup  asks the controller whether it may transmit, pops buffers,    *)
(*           sends and frees them, giving the lock back between the        *)
(*           question and each pop;                                        *)
(*   read    hands the client's feedback to the controller and forwards    *)
(*           the answer as a request to the encoder (see Proxy).           *)
(* The main thread starts and stops the block (SimpleBlock) and may do so  *)
(* again.  A packet is the number of its arrival in own_queue; the buffer  *)
(* that holds its copy has the same name.                                  *)
(*                                                                         *)
(* The SCReAM library is not part of the repository.  The controller is    *)
(* given the RTP queue with a delay limit of 0.2 s (registerNewStream) and *)
(* packet_free to free what it discards, so it may discard the oldest      *)
(* buffers when run hands it a frame and when read hands it feedback.  (A  *)
(* discard inside isOkToTransmit or addTransmitted is left out: lookup     *)
(* reads the queue's size after it, in the same critical section.)  Then   *)
(* lookup may pop an empty queue, and sends and frees the buffer it had    *)
(* before.  What this sends is not a packet and not on the wire here; what *)
(* the second free does is undefined, and its outcomes are alternatives.   *)
(* push is assumed to succeed: its result is not used.                     *)
(***************************************************************************)
EXTENDS Naturals, SequencesExt

CONSTANTS
  MaxPackets,   \* bound on the packets the converter hands to the block
  MaxWindow,    \* largest congestion window, in packets
  MaxDiscards   \* bound on the times the controller discards something

ASSUME BoundsAssumption ==
  MaxPackets \in Nat /\ MaxWindow \in Nat \ {0} /\ MaxDiscards \in Nat

VARIABLES
  main,            \* the main thread: "stopped", "running" or "joining", or
                   \* "aborted" with the process
  stop_condition,  \* SimpleBlock::stop_condition
  pc,              \* where each of the block's threads is
  lock,            \* the thread that holds the spinlock, or "free"
  offered,         \* packets enqueued on own_queue so far
  own_queue,       \* Sink::own_queue
  hand,            \* the packet run has copied and not yet pushed, if any
  rtp_queue,       \* the buffers in the RtpQueue
  discarded,       \* history: the packets the controller has discarded
  discards,        \* history: how often it has discarded something
  can_transmit,    \* lookup's local: the controller's last answer was 0
  rtp_queue_size,  \* lookup's local: the queue's size when it last looked
  data,            \* lookup's local: the buffer popped last (0: none)
  live,            \* the buffers allocated and not freed
  wire,            \* the packets popped and handed to send(), in order
  stale,           \* history: the pops that found the queue empty
  in_flight,       \* controller: packets sent and not acknowledged
  window,          \* controller: the congestion window
  overshoot        \* history: sends into a closed window since feedback

mainVars   == <<main, stop_condition>>
inputVars  == <<offered, own_queue, hand>>
queueVars  == <<rtp_queue, discarded, discards>>
lookupVars == <<can_transmit, rtp_queue_size, data>>
wireVars   == <<wire, stale>>
controller == <<in_flight, window, overshoot>>
dataVars   == <<inputVars, queueVars, lookupVars, live, wireVars, controller>>
vars       == <<mainVars, pc, lock, dataVars>>

Threads == {"run", "lookup", "read"}

Packets == 1..MaxPackets

\* t goes from one place to another, unless the process has died.
Goto(t, from, to) ==
  main # "aborted" /\ pc[t] = from /\ pc' = [pc EXCEPT ![t] = to]

\* A step of t that changes nothing but its place.
Move(t, from, to) == Goto(t, from, to) /\ UNCHANGED <<mainVars, lock, dataVars>>

\* spinlock::lock, as its callers see it: wait until it is free and take it.
Acquire(t, from, to) ==
  /\ lock = "free"
  /\ lock' = t
  /\ Goto(t, from, to)
  /\ UNCHANGED <<mainVars, dataVars>>

\* spinlock::unlock at the end of a critical section.
Release(t) == lock = t /\ lock' = "free" /\ UNCHANGED mainVars

\* The controller discards the k oldest buffers of q, which is left in the
\* RTP queue, and frees them by packet_free.
Discard(q, k) ==
  /\ k > 0 => discards < MaxDiscards
  /\ rtp_queue' = SubSeq(q, k + 1, Len(q))
  /\ discarded' = discarded \cup ToSet(SubSeq(q, 1, k))
  /\ discards' = IF k > 0 THEN discards + 1 ELSE discards
  /\ live' = live \ ToSet(SubSeq(q, 1, k))

\* What the controller decides by: it admits a packet while this holds.
WindowOpen(k, w) == k < w

-----------------------------------------------------------------------------
\* The main thread: SimpleBlock::start and SimpleBlock::stop.

Start ==
  /\ main = "stopped"
  /\ main' = "running"
  /\ stop_condition' = FALSE
  /\ Goto("run", "off", "spawn")
  /\ UNCHANGED <<lock, dataVars>>

Stop ==
  /\ main = "running"
  /\ main' = "joining"
  /\ stop_condition' = TRUE
  /\ UNCHANGED <<pc, lock, dataVars>>

\* thread.join() in stop() returns.
Join ==
  /\ main = "joining"
  /\ pc["run"] = "done"
  /\ main' = "stopped"
  /\ pc' = [t \in Threads |-> "off"]
  /\ UNCHANGED <<stop_condition, lock, dataVars>>

\* The converter's thread enqueues a packet, whether the block runs or not.
Offer ==
  /\ main # "aborted"
  /\ offered < MaxPackets
  /\ offered' = offered + 1
  /\ own_queue' = Append(own_queue, offered + 1)
  /\ UNCHANGED <<mainVars, pc, lock, hand, queueVars, lookupVars, live, wireVars,
                 controller>>

-----------------------------------------------------------------------------
\* ScreamV2ServerSingle::run

\* run starts the lookup and the read thread; data is uninitialised there.
RunSpawn ==
  /\ pc["run"] = "spawn"
  /\ pc' = [t \in Threads |-> "top"]
  /\ data' = 0
  /\ UNCHANGED <<mainVars, lock, inputVars, queueVars, can_transmit,
                 rtp_queue_size, live, wireVars, controller>>

RunTop == Move("run", "top", IF stop_condition THEN "join" ELSE "dequeue")

\* wait_dequeue_timed finds nothing within WAIT_TIMEOUT_DELAY.
RunTimeout == own_queue = <<>> /\ Move("run", "dequeue", "top")

\* Mutant: the RTP queue's lock is tried, not awaited, and the packet lost.
RunDequeueDropsIfBusy ==
  /\ Goto("run", "dequeue", IF lock = "free" THEN "lock" ELSE "top")
  /\ own_queue # <<>>
  /\ own_queue' = Tail(own_queue)
  /\ hand' = IF lock = "free" THEN <<Head(own_queue)>> ELSE <<>>
  /\ live' = live \cup ToSet(hand')
  /\ UNCHANGED <<mainVars, lock, offered, queueVars, lookupVars, wireVars,
                 controller>>

\* Take a packet and copy it into a buffer of its own.
RunDequeue ==
  /\ Goto("run", "dequeue", "lock")
  /\ own_queue # <<>>
  /\ own_queue' = Tail(own_queue)
  /\ hand' = <<Head(own_queue)>>
  /\ live' = live \cup {Head(own_queue)}
  /\ UNCHANGED <<mainVars, lock, offered, queueVars, lookupVars, wireVars,
                 controller>>

RunLock == Acquire("run", "lock", "push")

\* Mutant: the buffer is pushed at the wrong end.
RunPushInFront(k) ==
  /\ Goto("run", "push", "top")
  /\ Release("run")
  /\ Discard(hand \o rtp_queue, k)
  /\ hand' = <<>>
  /\ UNCHANGED <<offered, own_queue, lookupVars, wireVars, controller>>

\* push, then newMediaFrame, in which the controller may discard k buffers.
RunPush(k) ==
  /\ Goto("run", "push", "top")
  /\ Release("run")
  /\ Discard(rtp_queue \o hand, k)
  /\ hand' = <<>>
  /\ UNCHANGED <<offered, own_queue, lookupVars, wireVars, controller>>

\* run joins the two threads it started.
RunJoin ==
  /\ pc["lookup"] = "done"
  /\ pc["read"] = "done"
  /\ Move("run", "join", "done")

Run ==
  \/ RunSpawn \/ RunTop \/ RunTimeout \/ RunDequeue \/ RunLock \/ RunJoin
  \/ \E k \in 0..Len(rtp_queue \o hand) : RunPush(k)

-----------------------------------------------------------------------------
\* ScreamV2ServerSingle::lookup

\* Mutant: the thread never looks at stop_condition.
LookupTopNeverEnds == Move("lookup", "top", "lockCheck")

LookupTop == Move("lookup", "top", IF stop_condition THEN "done" ELSE "lockCheck")

LookupLockCheck == Acquire("lookup", "lockCheck", "check")

\* Mutant: the size leaves out the packet about to be sent.
LookupCheckSizeMinusOne(ok) ==
  /\ Goto("lookup", "check", "while")
  /\ Release("lookup")
  /\ ok => WindowOpen(in_flight, window)
  /\ can_transmit' = ok
  /\ rtp_queue_size' = Len(rtp_queue) - 1
  /\ UNCHANGED <<inputVars, queueVars, data, live, wireVars, controller>>

\* isOkToTransmit and sizeOfQueue under the lock, then unlock.  The
\* controller may also ask to wait (pacing) while its window is open.
LookupCheck(ok) ==
  /\ Goto("lookup", "check", "while")
  /\ Release("lookup")
  /\ ok => WindowOpen(in_flight, window)
  /\ can_transmit' = ok
  /\ rtp_queue_size' = Len(rtp_queue)
  /\ UNCHANGED <<inputVars, queueVars, data, live, wireVars, controller>>

\* The inner loop's condition: what lookup remembers, not the queue itself.
LookupWhile ==
  /\ can_transmit /\ rtp_queue_size > 0
  /\ Move("lookup", "while", "lockPop")

\* Otherwise it sleeps and starts over; the two locals end here.
LookupSleep ==
  /\ ~ (can_transmit /\ rtp_queue_size > 0)
  /\ Goto("lookup", "while", "top")
  /\ can_transmit' = FALSE
  /\ rtp_queue_size' = 0
  /\ UNCHANGED <<mainVars, lock, inputVars, queueVars, data, live, wireVars,
                 controller>>

LookupLockPop == Acquire("lookup", "lockPop", "transmit")

\* pop and send.  pop's result is ignored: when the queue is empty, data has
\* its old value or is null, and that is sent.
Pop ==
  IF rtp_queue # <<>>
  THEN /\ data' = Head(rtp_queue)
       /\ rtp_queue' = Tail(rtp_queue)
       /\ wire' = Append(wire, data')
       /\ stale' = stale
  ELSE /\ data' \in {data, 0}
       /\ stale' = stale + 1
       /\ UNCHANGED <<rtp_queue, wire>>

\* Mutant: the size is not read again after the pop.
LookupTransmitStaleSize(ok) ==
  /\ Goto("lookup", "transmit", "free")
  /\ Release("lookup")
  /\ Pop
  /\ in_flight' = in_flight + 1
  /\ overshoot' = IF WindowOpen(in_flight, window) THEN overshoot ELSE overshoot + 1
  /\ ok => WindowOpen(in_flight', window)
  /\ can_transmit' = ok
  /\ rtp_queue_size' = rtp_queue_size
  /\ UNCHANGED <<inputVars, discarded, discards, live, window>>

\* Mutant: the controller's answer to addTransmitted is not kept.
LookupTransmitStaleAnswer(ok) ==
  /\ Goto("lookup", "transmit", "free")
  /\ Release("lookup")
  /\ Pop
  /\ in_flight' = in_flight + 1
  /\ overshoot' = IF WindowOpen(in_flight, window) THEN overshoot ELSE overshoot + 1
  /\ can_transmit' = can_transmit
  /\ rtp_queue_size' = Len(rtp_queue')
  /\ UNCHANGED <<inputVars, discarded, discards, live, window>>

\* pop, send, addTransmitted and sizeOfQueue under the lock, then unlock.
LookupTransmit(ok) ==
  /\ Goto("lookup", "transmit", "free")
  /\ Release("lookup")
  /\ Pop
  /\ in_flight' = in_flight + 1
  /\ overshoot' = IF WindowOpen(in_flight, window) THEN overshoot ELSE overshoot + 1
  /\ ok => WindowOpen(in_flight', window)
  /\ can_transmit' = ok
  /\ rtp_queue_size' = Len(rtp_queue')
  /\ UNCHANGED <<inputVars, discarded, discards, live, window>>

\* Mutant: the buffer is not freed, as in ScreamServerSingle.
LookupFreeForgotten == Move("lookup", "free", "while")

\* free(data), outside the lock.
LookupFree ==
  /\ Goto("lookup", "free", "while")
  /\ data \in live
  /\ live' = live \ {data}
  /\ UNCHANGED <<mainVars, lock, inputVars, queueVars, lookupVars, wireVars,
                 controller>>

\* free(data) of a buffer that is gone: nothing happens, or another buffer
\* has got its memory since and is freed ...
LookupFreeStale ==
  /\ Goto("lookup", "free", "while")
  /\ data \notin live
  /\ live' = live \/ \E b \in live : live' = live \ {b}
  /\ UNCHANGED <<mainVars, lock, inputVars, queueVars, lookupVars, wireVars,
                 controller>>

\* ... or the heap notices and aborts the process.
LookupFreeAborts ==
  /\ main # "aborted"
  /\ pc["lookup"] = "free"
  /\ data \notin live
  /\ main' = "aborted"
  /\ UNCHANGED <<stop_condition, pc, lock, dataVars>>

Lookup ==
  \/ LookupTop \/ LookupLockCheck \/ LookupWhile \/ LookupSleep
  \/ LookupLockPop \/ LookupFree \/ LookupFreeStale \/ LookupFreeAborts
  \/ \E ok \in BOOLEAN : LookupCheck(ok) \/ LookupTransmit(ok)

-----------------------------------------------------------------------------
\* ScreamV2ServerSingle::read

ReadTop == Move("read", "top", IF stop_condition THEN "done" ELSE "recv")

\* recv times out (SO_RCVTIMEO), fails, or returns fewer than 8 bytes.
ReadNothing == Move("read", "recv", "top")

ReadReport == Move("read", "recv", "lock")

ReadLock == Acquire("read", "lock", "feedback")

\* incomingStandardizedFeedback leaves window w and k packets in flight; it or
\* getTargetBitrate may discard the d oldest buffers.  The rate is forwarded after
\* the lock is given back, to a queue outside of this block.
ReadFeedback(w, k, d) ==
  /\ Goto("read", "feedback", "top")
  /\ Release("read")
  /\ window' = w
  /\ in_flight' = k
  /\ overshoot' = 0
  /\ Discard(rtp_queue, d)
  /\ UNCHANGED <<inputVars, lookupVars, wireVars>>

Read ==
  \/ ReadTop \/ ReadNothing \/ ReadReport \/ ReadLock
  \/ \E w \in 1..MaxWindow, k \in 0..in_flight, d \in 0..Len(rtp_queue) :
       ReadFeedback(w, k, d)

-----------------------------------------------------------------------------
Init ==
  /\ main = "stopped" /\ stop_condition = TRUE
  /\ pc = [t \in Threads |-> "off"]
  /\ lock = "free"
  /\ offered = 0 /\ own_queue = <<>> /\ hand = <<>>
  /\ rtp_queue = <<>> /\ discarded = {} /\ discards = 0
  /\ can_transmit = FALSE /\ rtp_queue_size = 0 /\ data = 0
  /\ live = {}
  /\ wire = <<>> /\ stale = 0
  /\ in_flight = 0 /\ window \in 1..MaxWindow /\ overshoot = 0

Next == Start \/ Stop \/ Join \/ Offer \/ Run \/ Lookup \/ Read

Spec == Init /\ [][Next]_vars

\* Every thread is scheduled, and one that spins on the lock gets it in the
\* end, since no thread holds it for long; the client keeps reporting, admits
\* packets again and again, and the controller does not pace for ever.
Fairness ==
  /\ SF_vars(Run) /\ SF_vars(Lookup) /\ SF_vars(Read) /\ WF_vars(Join)
  /\ SF_vars(ReadReport)
  /\ SF_vars(\E w \in 1..MaxWindow, d \in 0..Len(rtp_queue) :
                ReadFeedback(w, 0, d))
  /\ SF_vars(LookupCheck(TRUE))

LiveSpec == Spec /\ Fairness

-----------------------------------------------------------------------------
\* Properties

RunLabels    == {"off", "spawn", "top", "dequeue", "lock", "push", "join", "done"}
LookupLabels == {"off", "top", "lockCheck", "check", "while", "lockPop",
                 "transmit", "free", "done"}
ReadLabels   == {"off", "top", "recv", "lock", "feedback", "done"}

ControlTypeOK ==
  /\ main \in {"stopped", "running", "joining", "aborted"}
  /\ stop_condition \in BOOLEAN
  /\ pc \in [Threads -> RunLabels \cup LookupLabels \cup ReadLabels]
  /\ pc["run"] \in RunLabels
  /\ pc["lookup"] \in LookupLabels
  /\ pc["read"] \in ReadLabels
  /\ lock \in Threads \cup {"free"}

DataTypeOK ==
  /\ offered \in Nat
  /\ own_queue \in Seq(Nat)
  /\ hand \in Seq(Nat)
  /\ rtp_queue \in Seq(Nat)
  /\ discarded \in SUBSET Nat
  /\ discards \in Nat
  /\ can_transmit \in BOOLEAN
  /\ rtp_queue_size \in Nat
  /\ data \in Nat
  /\ live \in SUBSET Nat
  /\ wire \in Seq(Nat)
  /\ stale \in Nat
  /\ in_flight \in Nat
  /\ window \in 1..MaxWindow
  /\ overshoot \in Nat

\* The type invariant; counters never go below zero.
TypeOK == ControlTypeOK /\ DataTypeOK

\* The buffers that some part of the block still has to send or free.
Owned ==
  ToSet(rtp_queue) \cup ToSet(hand)
    \cup (IF pc["lookup"] = "free" THEN {data} ELSE {})

\* As long as no pop has found the queue empty, no buffer is leaked, used
\* after it was freed or freed twice, whether lookup sends it or the controller
\* discards it: the buffers of the heap are exactly those that are queued, held
\* by run before its push, or held by lookup between its pop and its free.
BufferOwnership == stale = 0 => live = Owned

\* lookup pops an empty queue no more often than the controller has discarded
\* something: the size it remembers from before it gave the lock back is good
\* unless that happened, and what is wrong then is put right by the next size.
StaleOncePerDiscard == stale <= discards

\* lookup acts on an answer the controller gave before the lock was given
\* back.  When feedback closes the window in between, one packet still goes
\* out, and never a second one before the next feedback.
OvershootAtMostOne == overshoot <= 1

\* The block carries packets from own_queue through run's hand and the RTP queue
\* to the wire, across stops and restarts: each one goes out at most once and in
\* its turn, and never after the controller has discarded it.  (What goes out
\* again after a pop that found nothing is counted by stale, and is not here.)
Carrying == INSTANCE Carrier WITH
  Senders <- {Packets},
  kept    <- {Packets},
  sent    <- 1..offered,
  arrived <- wire,
  gone    <- discarded
CarrierSpec == Carrying!Spec

\* stop() returns: the three threads end and are joined, unless the process
\* has died of a buffer freed twice.
StopReturns == main = "joining" ~> main \in {"stopped", "aborted"}

\* The packets accepted on own_queue that have neither gone out nor been discarded.
Unsent == 1..offered \ (ToSet(wire) \cup discarded)

\* Whatever has been accepted goes out or is discarded by the controller, unless
\* the block stops or the process dies.
EveryPacketSent ==
  Unsent # {} ~> (Unsent = {} \/ stop_condition \/ main = "aborted")
=============================================================================
