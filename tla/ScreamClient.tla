---------------------------- MODULE ScreamClient ----------------------------
(***************************************************************************)
(* ScreamClientSingle, the receiver of the video flow in the client proxy. *)
(* Two threads share the SCReAM receiver behind one spinlock:              *)
(*   run           takes packets from the socket, forwards each, hands it  *)
(*                 to the receiver and sends feedback when enough packets  *)
(*                 wait for it or the packet ends a frame;                 *)
(*   periodicRtcp  reads the clock, asks the receiver WITHOUT the lock     *)
(*                 whether feedback is due, and if so takes the lock and   *)
(*                 sends feedback for the time it has read.                *)
(* run does not join the thread it starts: the destructor of a joinable    *)
(* std::thread calls std::terminate, so the process ends with run.         *)
(*                                                                         *)
(* Times are 32-bit and wrap.  Here a time is kept as its distance from    *)
(* now: ntp_time is held ticks old, lastFeedbackT is since ticks old,      *)
(* modulo ClockSize, and ntp_time - lastFeedbackT is since - held.  That a *)
(* round of periodicRtcp (nominally 500 us) takes at most MaxRound ticks   *)
(* is the only assumption on scheduling.                                   *)
(*                                                                         *)
(* The SCReAM library is not part of the repository.  Assumed here: a      *)
(* packet waits for feedback from receive() to the next feedback, which    *)
(* reports all that wait; isFeedback tells whether any waits and           *)
(* checkIfFlushAck whether AckDiff do; a feedback is created if any waits  *)
(* and may be created if none does.                                        *)
(***************************************************************************)
EXTENDS Integers, FiniteSets, Sequences

CONSTANTS
  MaxPackets,   \* bound on the packets
  AckDiff,      \* packets that make checkIfFlushAck true
  ClockSize,    \* the clock wraps after so many ticks (2^32 in the code)
  Interval,     \* ScreamRx::getRtcpFbInterval
  MaxRound      \* bound on the ticks between two readings of the clock

ASSUME ClientAssumption ==
  /\ MaxPackets \in Nat /\ AckDiff \in Nat \ {0}
  /\ ClockSize \in Nat /\ Interval \in Nat /\ MaxRound \in Nat \ {0}
  /\ Interval + MaxRound < ClockSize

VARIABLES
  main,            \* the main thread: "ready", "running", "joining", "aborted"
  stop_condition,  \* SimpleBlock::stop_condition
  pc,              \* where each of the block's threads is
  lock,            \* the thread that holds the spinlock, or "free"
  inbound,         \* packets on their way to, or in, the socket
  hand,            \* run's buffer: the packet to hand to the receiver (0: none)
  out,             \* the queue registered for RTP_PACKET
  unreported,      \* receiver: the packets that wait for feedback
  since,           \* receiver: age of lastFeedbackT, modulo ClockSize
  held,            \* periodicRtcp's local: age of ntp_time
  waiting,         \* history: for how long the oldest packet has waited
  overtaken        \* history: run sent feedback since ntp_time was read

mainVars == <<main, stop_condition>>
packetVars == <<inbound, hand, out>>
receiver   == <<unreported, since, waiting>>
clientVars == <<mainVars, pc, lock, packetVars, receiver, held, overtaken>>

ClientThreads == {"run", "rtcp"}

Packets == 1..MaxPackets

\* The longest a packet may wait; the history stops counting after it.
MaxWait == Interval + 3 * MaxRound

\* A block of an aborted process does nothing any more.
Goto(t, from, to) ==
  main # "aborted" /\ pc[t] = from /\ pc' = [pc EXCEPT ![t] = to]

\* A step of t that changes nothing but its place.
Move(t, from, to) ==
  /\ Goto(t, from, to)
  /\ UNCHANGED <<mainVars, lock, packetVars, receiver, held, overtaken>>

\* spinlock::unlock.
Release(t) == lock = t /\ lock' = "free"

-----------------------------------------------------------------------------
\* The main thread: SimpleBlock::start and the first half of SimpleBlock::stop.
\* The second half, thread.join(), never returns.

Start ==
  /\ main = "ready"
  /\ main' = "running"
  /\ stop_condition' = FALSE
  /\ pc' = [pc EXCEPT !["run"] = "spawn"]
  /\ UNCHANGED <<lock, packetVars, receiver, held, overtaken>>

Stop ==
  /\ main = "running"
  /\ main' = "joining"
  /\ stop_condition' = TRUE
  /\ UNCHANGED <<pc, lock, packetVars, receiver, held, overtaken>>

-----------------------------------------------------------------------------
\* The SCReAM receiver

IsFeedback == unreported # {}

CheckIfFlushAck == Cardinality(unreported) >= AckDiff

\* createStandardizedFeedback for a time that is a ticks old.
CreateFeedback(a) ==
  /\ unreported' = {}
  /\ since' = a
  /\ waiting' = 0

-----------------------------------------------------------------------------
\* ScreamClientSingle::run

\* run starts the other thread, which begins at its loop.
RunSpawn ==
  /\ main # "aborted" /\ pc["run"] = "spawn"
  /\ pc' = [t \in ClientThreads |-> "top"]
  /\ UNCHANGED <<mainVars, lock, packetVars, receiver, held, overtaken>>

RunTop == Move("run", "top", IF stop_condition THEN "end" ELSE "recv")

\* recvmsg times out, fails, or returns fewer than 8 bytes.
RunNothing == Move("run", "recv", "top")

\* Mutant: a copy is forwarded only if the converter keeps up.
RunRecvDropsIfBusy(p) ==
  /\ Goto("run", "recv", "lock")
  /\ p \in inbound
  /\ inbound' = inbound \ {p}
  /\ hand' = p
  /\ out' = IF out = <<>> THEN <<p>> ELSE out
  /\ UNCHANGED <<mainVars, lock, receiver, held, overtaken>>

\* Receive a packet and forward a copy.
RunRecv(p) ==
  /\ Goto("run", "recv", "lock")
  /\ p \in inbound
  /\ inbound' = inbound \ {p}
  /\ hand' = p
  /\ out' = Append(out, p)
  /\ UNCHANGED <<mainVars, lock, receiver, held, overtaken>>

\* Lock, and ScreamRx::receive.  periodicRtcp may look at the receiver after it.
RunReceive ==
  /\ Goto("run", "lock", "feedback")
  /\ lock = "free" /\ lock' = "run"
  /\ unreported' = unreported \cup {hand}
  /\ hand' = 0
  /\ UNCHANGED <<mainVars, inbound, out, since, waiting, held, overtaken>>

\* Mutant: without feedback the lock is kept.
RunNoFeedbackKeepsLock ==
  /\ Goto("run", "feedback", "top")
  /\ lock = "run" /\ ~CheckIfFlushAck
  /\ UNCHANGED <<mainVars, lock, packetVars, receiver, held, overtaken>>

\* Neither are there enough packets nor does this one end a frame; unlock.
RunNoFeedback ==
  /\ Goto("run", "feedback", "top")
  /\ Release("run")
  /\ ~CheckIfFlushAck
  /\ UNCHANGED <<mainVars, packetVars, receiver, held, overtaken>>

\* Feedback for the present time, and unlock: enough packets wait, or the one
\* received is marked.  (Whether it is matters nowhere else.)
RunFeedback ==
  /\ Goto("run", "feedback", "top")
  /\ Release("run")
  /\ CreateFeedback(0)
  /\ overtaken' = TRUE
  /\ UNCHANGED <<mainVars, packetVars, held>>

\* Mutant: run ends as that of the other blocks, after a join.
RunEndJoins ==
  /\ pc["rtcp"] = "done"
  /\ Move("run", "end", "done")

\* lookup_thread is destroyed while joinable: std::terminate ends the process,
\* its threads and its memory.
RunEnd ==
  /\ pc["run"] = "end" /\ main # "aborted"
  /\ main' = "aborted"
  /\ pc' = [t \in ClientThreads |-> "done"]
  /\ lock' = "free"
  /\ unreported' = {} /\ since' = 0 /\ waiting' = 0
  /\ held' = 0 /\ overtaken' = FALSE
  /\ UNCHANGED <<stop_condition, packetVars>>

Run ==
  \/ RunSpawn \/ RunTop \/ RunNothing \/ RunReceive \/ RunFeedback
  \/ RunNoFeedback \/ RunEnd
  \/ \E p \in Packets : RunRecv(p)

-----------------------------------------------------------------------------
\* ScreamClientSingle::periodicRtcp

RtcpTop == stop_condition /\ Move("rtcp", "top", "done")

\* ntp_time = getTimeInNtp().
RtcpClock ==
  /\ ~stop_condition
  /\ Goto("rtcp", "top", "isFeedback")
  /\ held' = 0
  /\ overtaken' = FALSE
  /\ UNCHANGED <<mainVars, lock, packetVars, receiver>>

\* Mutant: the first operand of the condition is forgotten.
RtcpIsFeedbackAlways == Move("rtcp", "isFeedback", "flush")

\* The operands of the condition are read one after the other, unlocked; when
\* it is false the thread sleeps and starts over.
RtcpIsFeedback == Move("rtcp", "isFeedback", IF IsFeedback THEN "flush" ELSE "top")

\* Mutant: the second half of the condition is forgotten.
RtcpFlushOnly == Move("rtcp", "flush", IF CheckIfFlushAck THEN "lock" ELSE "top")

RtcpFlush == Move("rtcp", "flush", IF CheckIfFlushAck THEN "lock" ELSE "interval")

\* ntp_time - getLastFeedbackT() > getRtcpFbInterval(), unsigned.
RtcpInterval ==
  Move("rtcp", "interval",
       IF (since - held) % ClockSize > Interval THEN "lock" ELSE "top")

\* Lock, feedback for the time read at the top of the round, unlock, sleep.
RtcpFeedback ==
  /\ lock = "free"
  /\ Goto("rtcp", "lock", "top")
  /\ CreateFeedback(held)
  /\ UNCHANGED <<mainVars, lock, packetVars, held, overtaken>>

\* The same when nothing is left to report and the library creates no feedback.
RtcpNoFeedback ==
  /\ lock = "free"
  /\ ~IsFeedback
  /\ Move("rtcp", "lock", "top")

Rtcp ==
  \/ RtcpTop \/ RtcpClock \/ RtcpIsFeedback \/ RtcpFlush \/ RtcpInterval
  \/ RtcpFeedback \/ RtcpNoFeedback

-----------------------------------------------------------------------------
\* The environment

\* Time passes, but no more than MaxRound between two readings of the clock;
\* once the block is being stopped nothing depends on it.
Tick ==
  /\ main \in {"ready", "running"}
  /\ pc["rtcp"] = "off" \/ held < MaxRound
  /\ since' = (since + 1) % ClockSize
  /\ held' = IF held < MaxRound THEN held + 1 ELSE held
  /\ waiting' = IF IsFeedback /\ waiting <= MaxWait THEN waiting + 1 ELSE waiting
  /\ UNCHANGED <<mainVars, pc, lock, packetVars, unreported, overtaken>>

\* The network brings packets, in any order, some twice, and loses some.
Arrive(p) ==
  /\ inbound' = inbound \cup {p}
  /\ UNCHANGED <<mainVars, pc, lock, hand, out, receiver, held, overtaken>>

Lose(p) ==
  /\ inbound' = inbound \ {p}
  /\ UNCHANGED <<mainVars, pc, lock, hand, out, receiver, held, overtaken>>

\* The converter's thread takes a packet from its queue.
Take ==
  /\ out # <<>>
  /\ out' = Tail(out)
  /\ UNCHANGED <<mainVars, pc, lock, inbound, hand, receiver, held, overtaken>>

-----------------------------------------------------------------------------
\* lastFeedbackT is 0 at first, which may be any time ago modulo ClockSize: the
\* clock ticks before the block is started.
ClientInit ==
  /\ main = "ready" /\ stop_condition = TRUE
  /\ pc = [t \in ClientThreads |-> "off"]
  /\ lock = "free"
  /\ inbound = {} /\ hand = 0 /\ out = <<>>
  /\ unreported = {} /\ since = 0 /\ held = 0
  /\ waiting = 0 /\ overtaken = FALSE

ClientStep == Start \/ Stop \/ Run \/ Rtcp \/ Tick

ClientNext ==
  \/ ClientStep
  \/ Take
  \/ \E p \in Packets : Arrive(p) \/ Lose(p)

ClientSpec == ClientInit /\ [][ClientNext]_clientVars

-----------------------------------------------------------------------------
\* Properties

RunLabels  == {"off", "spawn", "top", "recv", "lock", "feedback", "end", "done"}
RtcpLabels == {"off", "top", "isFeedback", "flush", "interval", "lock", "done"}

\* Every variable keeps its type and every thread its own code.
ClientTypeOK ==
  /\ main \in {"ready", "running", "joining", "aborted"}
  /\ stop_condition \in BOOLEAN
  /\ pc \in [ClientThreads -> RunLabels \cup RtcpLabels]
  /\ pc["run"] \in RunLabels /\ pc["rtcp"] \in RtcpLabels
  /\ lock \in ClientThreads \cup {"free"}
  /\ inbound \subseteq Packets
  /\ hand \in Packets \cup {0}
  /\ out \in Seq(Packets)
  /\ unreported \subseteq Packets
  /\ since \in 0..ClockSize - 1 /\ held \in 0..MaxRound
  /\ waiting \in 0..MaxWait + 1
  /\ overtaken \in BOOLEAN

\* periodicRtcp decides without the lock.  When it has the lock there is still
\* something to report, unless run has sent feedback in between: only then may
\* it send a feedback that reports nothing.
NothingNewOnlyIfOvertaken ==
  pc["rtcp"] = "lock" /\ lock = "free" /\ ~IsFeedback => overtaken

\* While the block runs, no packet waits for its report longer than the
\* feedback interval and three rounds of periodicRtcp (two, and one more where
\* the clock wraps), though the receiver is read without the lock and feedback
\* times go back.
ReportedInTime == ~stop_condition => waiting <= MaxWait

\* stop() of this block never returns: the process is aborted.
StopAborts == main = "joining" ~> main = "aborted"
=============================================================================
