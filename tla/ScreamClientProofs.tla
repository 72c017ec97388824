------------------------ MODULE ScreamClientProofs ------------------------
(***************************************************************************)
(* Proofs about ScreamClient for every value of its constants: the types,  *)
(* that periodicRtcp is only ever late for what run has already reported,  *)
(* and the bound on how long a packet waits for its report.                *)
(*                                                                         *)
(* The bound rests on two quantities.  Lead is the difference periodicRtcp *)
(* compares with the interval, the time it has read minus the time of the  *)
(* last feedback; it does not change while time passes.  waiting - held is *)
(* how old the oldest packet was when the clock was read.  As long as      *)
(* periodicRtcp has found no reason to send feedback the Lead is at most   *)
(* Interval, so that the next one does not wrap, and a packet is at most   *)
(* one round older than the Lead.                                          *)
(***************************************************************************)
EXTENDS ScreamClient, TLAPS

Lead == (since - held) % ClockSize

\* Where periodicRtcp is past the test that something waits for feedback.
Decided == {"flush", "interval", "lock"}

\* What was to report is still there, or run has reported it.
OvertakenInv == pc["rtcp"] \in Decided /\ ~IsFeedback => overtaken

\* run holds a packet when it is about to hand it over; nothing waits if there
\* is nothing, nor before run starts periodicRtcp.
PacketInv ==
  /\ pc["run"] = "lock" => hand \in Packets
  /\ ~IsFeedback => waiting = 0
  /\ pc["rtcp"] = "off" <=> pc["run"] \in {"off", "spawn"}
  /\ pc["rtcp"] = "off" => ~IsFeedback

\* The block runs exactly while it is not to stop, and run ends only then.
MainInv ==
  /\ main = "ready" => pc["run"] = "off"
  /\ stop_condition <=> main # "running"
  /\ pc["run"] = "end" => stop_condition

\* How old the oldest packet can be when the clock is read, and after a round
\* that sent no feedback.
WaitInv ==
  main \in {"ready", "running"} =>
    /\ waiting - held <= MaxRound + Lead
    /\ waiting - held <= Interval + 2 * MaxRound
    /\ pc["rtcp"] = "top" => waiting <= held \/ Lead <= Interval

IInv == ClientTypeOK /\ OvertakenInv /\ PacketInv /\ MainInv /\ WaitInv

-----------------------------------------------------------------------------
\* The clock.

\* The Lead is a distance on the clock.
LEMMA LeadRange == ASSUME ClientTypeOK PROVE Lead \in 0..ClockSize - 1
  BY ClientAssumption DEF Lead, ClientTypeOK

\* A Lead within the interval has not wrapped: read now, the clock would be
\* ahead of the last feedback by what it was ahead then and the time since.
LEMMA LeadNow ==
  ASSUME ClientTypeOK, Lead <= Interval PROVE since = Lead + held
  <1>1. CASE held <= since
    <2>1. since - held \in 0..ClockSize - 1 /\ ClockSize \in Nat \ {0}
      BY <1>1, ClientAssumption DEF ClientTypeOK
    <2>2. QED
      BY <2>1, ClientAssumption DEF Lead, ClientTypeOK
  <1>2. CASE held > since
    <2>1. Lead = since - held + ClockSize
      BY <1>2, ClientAssumption DEF Lead, ClientTypeOK
    <2>2. QED
      BY <2>1, ClientAssumption DEF ClientTypeOK
  <1>3. QED
    BY <1>1, <1>2 DEF ClientTypeOK

\* The passing of time does not change a distance between two past times.
LEMMA LeadTick ==
  ASSUME ClientTypeOK, held < MaxRound,
         since' = (since + 1) % ClockSize, held' = held + 1
  PROVE  Lead' = Lead /\ since' \in 0..ClockSize - 1
  <1>1. /\ since \in 0..ClockSize - 1 /\ held \in 0..ClockSize - 2
        /\ ClockSize \in Nat \ {0}
    BY ClientAssumption DEF ClientTypeOK
  <1>2. CASE since = ClockSize - 1
    <2>1. since' = 0
      BY <1>1, <1>2
    <2>2. Lead' = (0 - (held + 1)) % ClockSize /\ Lead = since - held
      BY <1>1, <1>2, <2>1 DEF Lead
    <2>3. QED
      BY <1>1, <1>2, <2>1, <2>2
  <1>3. CASE since < ClockSize - 1
    <2>1. since' = since + 1
      BY <1>1, <1>3
    <2>2. since' - held' = since - held
      BY <1>1, <2>1
    <2>3. QED
      BY <1>1, <1>3, <2>1, <2>2 DEF Lead
  <1>4. QED
    BY <1>1, <1>2, <1>3

\* Where nothing waits, nothing waits for too long.
LEMMA NothingWaits ==
  ASSUME ClientTypeOK', waiting' = 0 PROVE WaitInv'
  <1>1. PICK h \in Nat : held' = h
    BY ClientAssumption DEF ClientTypeOK
  <1>2. PICK s \in Nat : since' = s
    BY ClientAssumption DEF ClientTypeOK
  <1>3. PICK l \in Nat : Lead' = l
    <2>1. (s - h) % ClockSize \in Nat
      BY ClientAssumption
    <2>2. QED
      BY <1>1, <1>2, <2>1 DEF Lead
  <1>4. /\ 0 - h <= MaxRound + l /\ 0 - h <= Interval + 2 * MaxRound /\ 0 <= h
    BY ClientAssumption
  <1>5. QED
    BY <1>1, <1>3, <1>4 DEF WaitInv

-----------------------------------------------------------------------------
\* Before the block is started nothing waits.
LEMMA InitInv == ClientInit => IInv
  <1> SUFFICES ASSUME ClientInit PROVE IInv
    OBVIOUS
  <1>1. ClientTypeOK
    <2>1. pc \in [ClientThreads -> RunLabels \cup RtcpLabels]
          /\ pc["run"] \in RunLabels /\ pc["rtcp"] \in RtcpLabels
      BY DEF ClientInit, ClientThreads, RunLabels, RtcpLabels
    <2>2. since \in 0..ClockSize - 1 /\ held \in 0..MaxRound /\ waiting \in 0..MaxWait + 1
      BY ClientAssumption DEF ClientInit, MaxWait
    <2>3. stop_condition \in BOOLEAN /\ overtaken \in BOOLEAN
      BY Zenon DEF ClientInit
    <2>4. out \in Seq(Packets)
      BY DEF ClientInit
    <2>5. QED
      BY <2>1, <2>2, <2>3, <2>4 DEF ClientInit, ClientTypeOK
  <1>2. OvertakenInv /\ PacketInv /\ MainInv
    BY DEF ClientInit, OvertakenInv, PacketInv, MainInv, IsFeedback, Decided,
           ClientThreads
  <1>3. WaitInv
    BY <1>1, LeadRange, ClientAssumption DEF WaitInv, ClientInit, ClientThreads
  <1>4. QED
    BY <1>1, <1>2, <1>3 DEF IInv

\* The main thread keeps the invariant.
LEMMA MainStep == ASSUME IInv, Start \/ Stop PROVE IInv'
  <1>1. /\ UNCHANGED <<lock, inbound, hand, out, unreported, since, waiting, held,
                       overtaken>>
        /\ pc'["rtcp"] = pc["rtcp"]
        /\ pc' = [pc EXCEPT !["run"] = pc'["run"]]
        /\ pc'["run"] \in {pc["run"], "spawn"}
    BY DEF Start, Stop, packetVars, receiver, IInv, ClientTypeOK, ClientThreads
  <1>2. ClientTypeOK'
    BY <1>1 DEF IInv, ClientTypeOK, Start, Stop, ClientThreads, RunLabels
  <1>3. OvertakenInv' /\ PacketInv'
    BY <1>1 DEF IInv, OvertakenInv, PacketInv, MainInv, IsFeedback, Decided, Start, Stop,
                ClientTypeOK, ClientThreads
  <1>4. MainInv'
    BY <1>1 DEF IInv, MainInv, Start, Stop, ClientTypeOK, ClientThreads
  <1>5. WaitInv'
    BY <1>1 DEF IInv, WaitInv, Lead, Start, Stop
  <1>6. QED
    BY <1>2, <1>3, <1>4, <1>5 DEF IInv

\* run keeps the invariant: it reports what it takes away from periodicRtcp.
LEMMA RunStep == ASSUME IInv, Run PROVE IInv'
  <1>1. ASSUME RunSpawn PROVE IInv'
    <2>1. /\ pc["run"] = "spawn" /\ pc["rtcp"] = "off"
          /\ pc' = [t \in ClientThreads |-> "top"]
          /\ UNCHANGED <<main, stop_condition, lock, inbound, hand, out, unreported,
                         since, waiting, held, overtaken>>
      BY <1>1 DEF RunSpawn, mainVars, packetVars, receiver, IInv, PacketInv
    <2>2. pc'["run"] = "top" /\ pc'["rtcp"] = "top"
      BY <2>1 DEF ClientThreads
    <2>3. ClientTypeOK'
      BY <2>1, <2>2 DEF IInv, ClientTypeOK, RunLabels, RtcpLabels
    <2>4. OvertakenInv' /\ PacketInv' /\ MainInv'
      BY <2>1, <2>2 DEF IInv, OvertakenInv, PacketInv, MainInv, IsFeedback, Decided
    <2>5. WaitInv'
      BY <2>1, <2>2 DEF IInv, WaitInv, PacketInv, Lead, ClientTypeOK
    <2>6. QED
      BY <2>3, <2>4, <2>5 DEF IInv
  <1>2. ASSUME RunTop \/ RunNothing \/ RunNoFeedback \/ \E p \in Packets : RunRecv(p)
        PROVE  IInv'
    <2>1. /\ pc["run"] \in {"top", "recv", "feedback"}
          /\ pc'["run"] \in {"top", "recv", "lock", "end"}
          /\ pc'["run"] = "end" => stop_condition
          /\ pc' = [pc EXCEPT !["run"] = pc'["run"]]
          /\ pc'["rtcp"] = pc["rtcp"]
          /\ UNCHANGED <<main, stop_condition, unreported, since, waiting, held,
                         overtaken>>
      BY <1>2 DEF RunTop, RunNothing, RunNoFeedback, RunRecv, Move, Goto, mainVars,
                  receiver, packetVars, IInv, ClientTypeOK, ClientThreads
    <2>2. /\ hand' \in Packets \cup {0} /\ inbound' \subseteq Packets
          /\ out' \in Seq(Packets) /\ lock' \in ClientThreads \cup {"free"}
          /\ pc'["run"] = "lock" => hand' \in Packets
      BY <1>2 DEF RunTop, RunNothing, RunNoFeedback, RunRecv, Move, Goto, Release,
                  packetVars, IInv, ClientTypeOK, ClientThreads
    <2>3. ClientTypeOK'
      BY <2>1, <2>2 DEF IInv, ClientTypeOK, RunLabels, ClientThreads
    <2>4. OvertakenInv' /\ PacketInv' /\ MainInv'
      BY <2>1, <2>2 DEF IInv, OvertakenInv, PacketInv, MainInv, IsFeedback, Decided
    <2>5. WaitInv'
      BY <2>1 DEF IInv, WaitInv, Lead
    <2>6. QED
      BY <2>3, <2>4, <2>5 DEF IInv
  <1>3. ASSUME RunReceive PROVE IInv'
    <2>1. /\ pc["run"] = "lock" /\ pc'["run"] = "feedback"
          /\ pc' = [pc EXCEPT !["run"] = "feedback"]
          /\ pc'["rtcp"] = pc["rtcp"]
          /\ hand \in Packets /\ hand' = 0 /\ lock' = "run"
          /\ unreported' = unreported \cup {hand}
          /\ UNCHANGED <<main, stop_condition, inbound, out, since, waiting, held,
                         overtaken>>
      BY <1>3 DEF RunReceive, Goto, mainVars, IInv, PacketInv, ClientTypeOK,
                  ClientThreads
    <2>2. ClientTypeOK'
      BY <2>1 DEF IInv, ClientTypeOK, RunLabels, ClientThreads
    <2>3. OvertakenInv' /\ PacketInv' /\ MainInv'
      BY <2>1 DEF IInv, OvertakenInv, PacketInv, MainInv, IsFeedback, Decided
    <2>4. WaitInv'
      BY <2>1 DEF IInv, WaitInv, Lead
    <2>5. QED
      BY <2>2, <2>3, <2>4 DEF IInv
  <1>4. ASSUME RunFeedback PROVE IInv'
    <2>1. /\ pc["run"] = "feedback" /\ pc'["run"] = "top"
          /\ pc' = [pc EXCEPT !["run"] = "top"]
          /\ pc'["rtcp"] = pc["rtcp"]
          /\ unreported' = {} /\ since' = 0 /\ waiting' = 0 /\ overtaken' = TRUE
          /\ lock' = "free"
          /\ UNCHANGED <<main, stop_condition, inbound, hand, out, held>>
      BY <1>4 DEF RunFeedback, Goto, Release, CreateFeedback, mainVars, packetVars,
                  IInv, ClientTypeOK, ClientThreads
    <2>2. ClientTypeOK'
      BY <2>1, ClientAssumption DEF IInv, ClientTypeOK, RunLabels, ClientThreads, MaxWait
    <2>3. OvertakenInv' /\ PacketInv' /\ MainInv'
      BY <2>1 DEF IInv, OvertakenInv, PacketInv, MainInv, IsFeedback, Decided
    <2>4. WaitInv'
      BY <2>1, <2>2, NothingWaits
    <2>5. QED
      BY <2>2, <2>3, <2>4 DEF IInv
  <1>5. ASSUME RunEnd PROVE IInv'
    <2>1. /\ pc["run"] = "end" /\ pc' = [t \in ClientThreads |-> "done"]
          /\ pc'["run"] = "done" /\ pc'["rtcp"] = "done"
          /\ main' = "aborted" /\ lock' = "free" /\ unreported' = {}
          /\ since' = 0 /\ waiting' = 0 /\ held' = 0 /\ overtaken' = FALSE
          /\ UNCHANGED <<stop_condition, inbound, hand, out>>
      BY <1>5 DEF RunEnd, packetVars, ClientThreads
    <2>2. ClientTypeOK'
      <3>1. pc' \in [ClientThreads -> RunLabels \cup RtcpLabels]
        BY <2>1 DEF RunLabels
      <3>2. /\ since' \in 0..ClockSize - 1 /\ held' \in 0..MaxRound
            /\ waiting' \in 0..MaxWait + 1
        BY <2>1, ClientAssumption DEF MaxWait
      <3>3. QED
        BY <2>1, <3>1, <3>2 DEF IInv, ClientTypeOK, RunLabels, RtcpLabels
    <2>3. OvertakenInv' /\ PacketInv' /\ MainInv' /\ WaitInv'
      BY <2>1 DEF IInv, OvertakenInv, PacketInv, MainInv, WaitInv, IsFeedback, Decided
    <2>4. QED
      BY <2>2, <2>3 DEF IInv
  <1>6. QED
    BY <1>1, <1>2, <1>3, <1>4, <1>5 DEF Run

\* What a step of periodicRtcp leaves alone keeps its part of the invariant.
LEMMA RtcpFrame ==
  ASSUME IInv, NEW to, pc["rtcp"] # "off", to \in RtcpLabels \ {"off"},
         main # "aborted", pc' = [pc EXCEPT !["rtcp"] = to],
         UNCHANGED <<main, stop_condition, lock, inbound, hand, out>>
  PROVE  /\ pc'["run"] = pc["run"] /\ pc'["rtcp"] = to
         /\ pc' \in [ClientThreads -> RunLabels \cup RtcpLabels]
         /\ MainInv'
         /\ pc'["run"] = "lock" => hand' \in Packets
         /\ pc'["run"] \notin {"off", "spawn"}
  <1>1. pc'["run"] = pc["run"] /\ pc'["rtcp"] = to
    BY DEF IInv, ClientTypeOK, ClientThreads
  <1>2. pc' \in [ClientThreads -> RunLabels \cup RtcpLabels]
    BY DEF IInv, ClientTypeOK
  <1>3. QED
    BY <1>1, <1>2 DEF IInv, PacketInv, MainInv

\* periodicRtcp keeps the invariant: it starts over only when nothing waits or
\* the Lead is within the interval.
LEMMA RtcpStep == ASSUME IInv, Rtcp PROVE IInv'
  <1>1. main # "aborted"
    BY DEF Rtcp, RtcpTop, RtcpClock, RtcpIsFeedback, RtcpFlush, RtcpInterval,
           RtcpFeedback, RtcpNoFeedback, Move, Goto
  <1>2. ASSUME RtcpTop \/ RtcpIsFeedback \/ RtcpFlush \/ RtcpInterval \/ RtcpNoFeedback
        PROVE  IInv'
    <2>1. PICK to \in {"top", "flush", "interval", "lock", "done"} :
            /\ pc["rtcp"] \in {"top", "isFeedback", "flush", "interval", "lock"}
            /\ pc' = [pc EXCEPT !["rtcp"] = to]
            /\ to \in Decided => pc["rtcp"] \in Decided \/ IsFeedback
            /\ to = "top" => ~IsFeedback \/ Lead <= Interval
            /\ UNCHANGED <<main, stop_condition, lock, inbound, hand, out, unreported,
                           since, waiting, held, overtaken>>
      <3>1. CASE RtcpTop
        BY <3>1 DEF RtcpTop, Move, Goto, mainVars, packetVars, receiver, Decided
      <3>2. CASE RtcpIsFeedback
        <4>1. CASE IsFeedback
          BY <3>2, <4>1 DEF RtcpIsFeedback, Move, Goto, mainVars, packetVars, receiver
        <4>2. CASE ~IsFeedback
          BY <3>2, <4>2
             DEF RtcpIsFeedback, Move, Goto, mainVars, packetVars, receiver, Decided
        <4>3. QED
          BY <4>1, <4>2
      <3>3. CASE RtcpFlush
        BY <3>3 DEF RtcpFlush, Move, Goto, mainVars, packetVars, receiver, Decided
      <3>4. CASE RtcpInterval
        <4>1. Lead \in Nat /\ Interval \in Nat
          BY LeadRange, ClientAssumption DEF IInv
        <4>2. CASE Lead > Interval
          BY <3>4, <4>2
             DEF RtcpInterval, Move, Goto, mainVars, packetVars, receiver, Decided, Lead
        <4>3. CASE ~(Lead > Interval)
          <5>1. Lead <= Interval
            BY <4>1, <4>3
          <5>2. pc["rtcp"] = "interval" /\ pc' = [pc EXCEPT !["rtcp"] = "top"]
            BY <3>4, <4>3 DEF RtcpInterval, Move, Goto, Lead
          <5>3. QED
            BY <3>4, <5>1, <5>2
               DEF RtcpInterval, Move, mainVars, packetVars, receiver, Decided
        <4>4. QED
          BY <4>2, <4>3
      <3>5. CASE RtcpNoFeedback
        BY <3>5 DEF RtcpNoFeedback, Move, Goto, mainVars, packetVars, receiver, Decided
      <3>6. QED
        BY <1>2, <3>1, <3>2, <3>3, <3>4, <3>5
    <2>2. /\ pc'["run"] = pc["run"] /\ pc'["rtcp"] = to
          /\ pc' \in [ClientThreads -> RunLabels \cup RtcpLabels]
          /\ MainInv'
          /\ pc'["run"] = "lock" => hand' \in Packets
          /\ pc'["run"] \notin {"off", "spawn"}
      BY <1>1, <2>1, RtcpFrame DEF RtcpLabels
    <2>3. ClientTypeOK'
      BY <2>1, <2>2 DEF IInv, ClientTypeOK, RtcpLabels
    <2>4. OvertakenInv' /\ PacketInv'
      BY <2>1, <2>2 DEF IInv, OvertakenInv, PacketInv, IsFeedback, Decided
    <2>5. WaitInv'
      BY <2>1, <2>2 DEF IInv, WaitInv, PacketInv, Lead, ClientTypeOK
    <2>6. QED
      BY <2>2, <2>3, <2>4, <2>5 DEF IInv
  <1>3. ASSUME RtcpClock PROVE IInv'
    <2>1. /\ pc["rtcp"] = "top" /\ pc' = [pc EXCEPT !["rtcp"] = "isFeedback"]
          /\ held' = 0 /\ overtaken' = FALSE
          /\ UNCHANGED <<main, stop_condition, lock, inbound, hand, out, unreported,
                         since, waiting>>
      BY <1>3 DEF RtcpClock, Goto, mainVars, packetVars, receiver
    <2>2. /\ pc'["run"] = pc["run"] /\ pc'["rtcp"] = "isFeedback"
          /\ pc' \in [ClientThreads -> RunLabels \cup RtcpLabels]
          /\ MainInv'
          /\ pc'["run"] = "lock" => hand' \in Packets
          /\ pc'["run"] \notin {"off", "spawn"}
      BY <1>1, <2>1, RtcpFrame DEF RtcpLabels
    <2>3. held' \in 0..MaxRound /\ overtaken' \in BOOLEAN
      <3>1. held' \in 0..MaxRound
        BY <2>1, ClientAssumption
      <3>2. QED
        BY <2>1, <3>1, Zenon
    <2>4. ClientTypeOK' /\ OvertakenInv' /\ PacketInv'
      BY <2>1, <2>2, <2>3
         DEF IInv, ClientTypeOK, RtcpLabels, OvertakenInv, PacketInv, IsFeedback, Decided
    <2>5. WaitInv'
      <3>1. Lead' = since
        BY <2>1, ClientAssumption DEF IInv, ClientTypeOK, Lead
      <3>2. SUFFICES ASSUME main \in {"ready", "running"}
                     PROVE  waiting <= MaxRound + since /\ waiting <= Interval + 2 * MaxRound
        BY <2>1, <2>2, <3>1 DEF WaitInv, IInv, ClientTypeOK
      <3>3. /\ since \in Nat /\ held \in 0..MaxRound /\ waiting \in Nat
            /\ Interval \in Nat /\ MaxRound \in Nat
        BY ClientAssumption DEF IInv, ClientTypeOK, MaxWait
      <3>4. CASE waiting <= held
        BY <3>3, <3>4
      <3>5. CASE Lead <= Interval
        <4>1. since = Lead + held /\ Lead \in Nat
          BY <3>5, LeadNow, LeadRange, ClientAssumption DEF IInv
        <4>2. waiting - held <= MaxRound + Lead
          BY <3>2 DEF IInv, WaitInv
        <4>3. QED
          BY <3>3, <3>5, <4>1, <4>2
      <3>6. QED
        BY <2>1, <3>2, <3>4, <3>5 DEF IInv, WaitInv
    <2>6. QED
      BY <2>2, <2>4, <2>5 DEF IInv
  <1>4. ASSUME RtcpFeedback PROVE IInv'
    <2>1. /\ pc["rtcp"] = "lock" /\ pc' = [pc EXCEPT !["rtcp"] = "top"]
          /\ unreported' = {} /\ since' = held /\ waiting' = 0
          /\ UNCHANGED <<main, stop_condition, lock, inbound, hand, out, held, overtaken>>
      BY <1>4 DEF RtcpFeedback, Goto, CreateFeedback, mainVars, packetVars
    <2>2. /\ pc'["run"] = pc["run"] /\ pc'["rtcp"] = "top"
          /\ pc' \in [ClientThreads -> RunLabels \cup RtcpLabels]
          /\ MainInv'
          /\ pc'["run"] = "lock" => hand' \in Packets
          /\ pc'["run"] \notin {"off", "spawn"}
      BY <1>1, <2>1, RtcpFrame DEF RtcpLabels
    <2>3. ClientTypeOK'
      BY <2>1, <2>2, ClientAssumption DEF IInv, ClientTypeOK, RtcpLabels, MaxWait
    <2>4. OvertakenInv' /\ PacketInv'
      BY <2>1, <2>2 DEF IInv, OvertakenInv, PacketInv, IsFeedback, Decided
    <2>5. WaitInv'
      BY <2>1, <2>3, NothingWaits
    <2>6. QED
      BY <2>2, <2>3, <2>4, <2>5 DEF IInv
  <1>5. QED
    BY <1>2, <1>3, <1>4 DEF Rtcp

\* The passing of time keeps the invariant.
LEMMA TickStep == ASSUME IInv, Tick PROVE IInv'
  <1>1. UNCHANGED <<main, stop_condition, pc, lock, inbound, hand, out, unreported,
                    overtaken>>
    BY DEF Tick, mainVars, packetVars
  <1>2. /\ since' = (since + 1) % ClockSize
        /\ held' = IF held < MaxRound THEN held + 1 ELSE held
        /\ waiting' = IF IsFeedback /\ waiting <= MaxWait THEN waiting + 1 ELSE waiting
        /\ pc["rtcp"] = "off" \/ held < MaxRound
    BY DEF Tick
  <1>3. /\ since' \in 0..ClockSize - 1 /\ held' \in 0..MaxRound
        /\ waiting' \in 0..MaxWait + 1
    BY <1>2, ClientAssumption DEF IInv, ClientTypeOK, MaxWait
  <1>4. ClientTypeOK'
    BY <1>1, <1>3 DEF IInv, ClientTypeOK
  <1>5. OvertakenInv' /\ PacketInv' /\ MainInv'
    BY <1>1, <1>2 DEF IInv, OvertakenInv, PacketInv, MainInv, IsFeedback, Decided
  <1>6. WaitInv'
    <2>1. CASE pc["rtcp"] = "off"
      <3>1. waiting' = 0
        BY <1>2, <2>1 DEF IInv, PacketInv
      <3>2. QED
        BY <1>4, <3>1, NothingWaits
    <2>2. CASE held < MaxRound
      <3>1. held' = held + 1 /\ waiting' \in {waiting, waiting + 1}
        BY <1>2, <2>2
      <3>2. Lead' = Lead /\ Lead \in Nat
        BY <1>2, <2>2, <3>1, LeadTick, LeadRange, ClientAssumption DEF IInv
      <3>3. /\ held \in Nat /\ waiting \in Nat /\ Interval \in Nat /\ MaxRound \in Nat
        BY ClientAssumption DEF IInv, ClientTypeOK, MaxWait
      <3>4. SUFFICES ASSUME main \in {"ready", "running"}
                     PROVE  /\ waiting' - held' <= MaxRound + Lead
                            /\ waiting' - held' <= Interval + 2 * MaxRound
                            /\ pc["rtcp"] = "top" => waiting' <= held' \/ Lead <= Interval
        BY <1>1, <3>2 DEF WaitInv
      <3>5. CASE waiting' = waiting
        BY <3>1, <3>2, <3>3, <3>4, <3>5 DEF IInv, WaitInv
      <3>6. CASE waiting' = waiting + 1
        BY <3>1, <3>2, <3>3, <3>4, <3>6 DEF IInv, WaitInv
      <3>7. QED
        BY <3>1, <3>5, <3>6
    <2>3. QED
      BY <1>2, <2>1, <2>2
  <1>7. QED
    BY <1>4, <1>5, <1>6 DEF IInv

\* What happens around the block keeps the invariant.
LEMMA OutsideStep ==
  ASSUME IInv, Take \/ \E p \in Packets : Arrive(p) \/ Lose(p) PROVE IInv'
  <1>1. /\ UNCHANGED <<main, stop_condition, pc, lock, hand, unreported, since, waiting,
                       held, overtaken>>
        /\ inbound' \subseteq Packets /\ out' \in Seq(Packets)
    BY DEF Take, Arrive, Lose, mainVars, receiver, IInv, ClientTypeOK
  <1>2. QED
    BY <1>1 DEF IInv, ClientTypeOK, OvertakenInv, PacketInv, MainInv, WaitInv, Lead,
                IsFeedback, Decided

\* Every step keeps the invariant.
LEMMA ClientInductive == ASSUME IInv, [ClientNext]_clientVars PROVE IInv'
  <1>1. CASE UNCHANGED clientVars
    BY <1>1 DEF clientVars, mainVars, packetVars, receiver, IInv, ClientTypeOK,
                OvertakenInv, PacketInv, MainInv, WaitInv, Lead, IsFeedback, Decided
  <1>2. QED
    BY <1>1, MainStep, RunStep, RtcpStep, TickStep, OutsideStep
       DEF ClientNext, ClientStep

LEMMA Invariance == ClientSpec => []IInv
  BY InitInv, ClientInductive, PTL DEF ClientSpec

\* Every variable keeps its type, however many packets and whatever the clock.
THEOREM ClientTypeCorrect == ClientSpec => []ClientTypeOK
  <1>1. IInv => ClientTypeOK
    BY DEF IInv
  <1>2. QED
    BY <1>1, Invariance, PTL

\* periodicRtcp, which decides without the lock, finds nothing to report under
\* the lock only when run has sent feedback in between.
THEOREM NothingNew == ClientSpec => []NothingNewOnlyIfOvertaken
  <1>1. IInv => NothingNewOnlyIfOvertaken
    BY DEF IInv, OvertakenInv, Decided, NothingNewOnlyIfOvertaken
  <1>2. QED
    BY <1>1, Invariance, PTL

\* While the block runs no packet waits longer than the interval and three
\* rounds, for every interval, round and clock that are compatible.
THEOREM InTime == ClientSpec => []ReportedInTime
  <1>1. IInv => ReportedInTime
    <2> SUFFICES ASSUME IInv, ~stop_condition PROVE waiting <= MaxWait
      BY DEF ReportedInTime
    <2>1. waiting - held <= Interval + 2 * MaxRound
      BY DEF IInv, MainInv, WaitInv
    <2>2. held \in 0..MaxRound /\ waiting \in Nat /\ Interval \in Nat /\ MaxRound \in Nat
      BY ClientAssumption DEF IInv, ClientTypeOK, MaxWait
    <2>3. QED
      BY <2>1, <2>2 DEF MaxWait
  <1>2. QED
    BY <1>1, Invariance, PTL
=============================================================================
