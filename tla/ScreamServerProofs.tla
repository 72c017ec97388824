------------------------- MODULE ScreamServerProofs -------------------------
(***************************************************************************)
(* Proofs about ScreamServer, for every number of packets and every window.*)
(***************************************************************************)
EXTENDS ScreamServer, SequenceTheorems, TLAPS

-----------------------------------------------------------------------------
\* The inductive invariant.

\* The spinlock is held exactly by the thread inside its critical section.
LockInv ==
  /\ lock = "run"    <=> pc["run"] = "push"
  /\ lock = "lookup" <=> pc["lookup"] \in {"check", "transmit"}
  /\ lock = "read"   <=> pc["read"] = "feedback"

\* lookup and read exist between run's spawn and its join.
LifeInv ==
  /\ pc["run"] \in {"off", "spawn"} => pc["lookup"] = "off" /\ pc["read"] = "off"
  /\ pc["run"] = "done" => pc["lookup"] = "done" /\ pc["read"] = "done"

\* run holds one packet from its dequeue to its push, and no packet else.
HandInv ==
  Len(hand) = IF pc["run"] \in {"lock", "push"} THEN 1 ELSE 0

\* A sequence whose elements grow; a set that lies below another.
Rising(s)   == \A i, j \in 1..Len(s) : i < j => s[i] < s[j]
Below(S, T) == \A x \in S, y \in T : x < y

\* The sets of the sent, queued, held and waiting packets among the first n
\* follow each other, and none of them is gone.
Parted(W, Q, H, O, gone, n) ==
  /\ W \subseteq 1..n /\ Q \subseteq 1..n /\ H \subseteq 1..n /\ O \subseteq 1..n
  /\ gone \subseteq 1..n
  /\ Below(W, Q) /\ Below(W, H) /\ Below(W, O)
  /\ Below(Q, H) /\ Below(Q, O) /\ Below(H, O)
  /\ (W \cup Q \cup H \cup O) \cap gone = {}

\* The packets lie along the path in the order of their arrival, and what the
\* controller has discarded is nowhere on it.
OrderInv ==
  /\ Rising(wire) /\ Rising(rtp_queue) /\ Rising(own_queue)
  /\ Parted(ToSet(wire), ToSet(rtp_queue), ToSet(hand), ToSet(own_queue),
            discarded, offered)

\* lookup pops only after it has found the queue nonempty and the window open.
LoopInv ==
  pc["lookup"] \in {"lockPop", "transmit"} => can_transmit /\ rtp_queue_size > 0

\* What lookup remembers of the size is good unless the controller has discarded
\* something for which no pop has found the queue empty yet.
StaleInv ==
  stale + (IF rtp_queue_size > Len(rtp_queue) THEN 1 ELSE 0) <= discards

\* The buffer that is about to be freed is the one sent last.
DataInv ==
  pc["lookup"] = "free" /\ stale = 0 => wire # <<>> /\ data = wire[Len(wire)]

\* After a packet went into a closed window nothing may be transmitted.
WindowInv ==
  /\ overshoot <= 1
  /\ overshoot > 0 => ~WindowOpen(in_flight, window)
  /\ can_transmit => overshoot = 0

IInv ==
  TypeOK /\ LockInv /\ LifeInv /\ HandInv /\ OrderInv /\ LoopInv /\ StaleInv
    /\ DataInv /\ WindowInv /\ BufferOwnership

-----------------------------------------------------------------------------
\* The main thread, the program counters and the lock.

ControlInv == ControlTypeOK /\ LockInv /\ LifeInv

\* A block that has not been started is in order: no thread, a free lock.
LEMMA ControlInit == Init => ControlInv
  BY DEF Init, ControlInv, ControlTypeOK, LockInv, LifeInv, Threads, RunLabels,
     LookupLabels, ReadLabels

\* No step takes a thread out of its own code, lets two threads into their
\* critical sections or lets lookup and read outlive run's join.
LEMMA ControlStep == ControlInv /\ [Next]_vars => ControlInv'
  <1> USE DEF ControlInv, ControlTypeOK, LockInv, LifeInv, Threads, RunLabels,
      LookupLabels, ReadLabels, Goto, Move, Acquire, Release, mainVars
  <1> SUFFICES ASSUME ControlInv, [Next]_vars PROVE ControlInv'
    OBVIOUS
  <1>1. CASE Start
    BY <1>1 DEF Start
  <1>2. CASE Stop
    BY <1>2 DEF Stop
  <1>3. CASE Join
    BY <1>3 DEF Join
  <1>4. CASE Offer
    BY <1>4 DEF Offer
  <1>5. CASE RunSpawn
    BY <1>5 DEF RunSpawn
  <1>6. CASE RunTop \/ RunTimeout \/ RunJoin
    BY <1>6 DEF RunTop, RunTimeout, RunJoin
  <1>7. CASE RunDequeue \/ RunLock \/ (\E k \in 0..Len(rtp_queue \o hand) : RunPush(k))
    BY <1>7 DEF RunDequeue, RunLock, RunPush
  <1>8. CASE LookupTop \/ LookupWhile \/ LookupSleep \/ LookupFree \/ LookupFreeStale
               \/ LookupFreeAborts
    BY <1>8 DEF LookupTop, LookupWhile, LookupSleep, LookupFree, LookupFreeStale,
       LookupFreeAborts
  <1>9. CASE LookupLockCheck \/ LookupLockPop
    BY <1>9 DEF LookupLockCheck, LookupLockPop
  <1>10. ASSUME NEW ok \in BOOLEAN, LookupCheck(ok) \/ LookupTransmit(ok)
         PROVE  ControlInv'
    BY <1>10 DEF LookupCheck, LookupTransmit
  <1>11. CASE ReadTop \/ ReadNothing \/ ReadReport \/ ReadLock
    BY <1>11 DEF ReadTop, ReadNothing, ReadReport, ReadLock
  <1>12. ASSUME NEW w \in 1..MaxWindow, NEW k \in 0..in_flight,
                NEW d \in 0..Len(rtp_queue),
                ReadFeedback(w, k, d)
         PROVE  ControlInv'
    BY <1>12 DEF ReadFeedback
  <1>13. CASE UNCHANGED vars
    BY <1>13 DEF vars
  <1>14. QED
    BY <1>1, <1>2, <1>3, <1>4, <1>5, <1>6, <1>7, <1>8, <1>9, <1>10, <1>11,
       <1>12, <1>13 DEF Next, Run, Lookup, Read

-----------------------------------------------------------------------------
\* Rising sequences and their sets.

\* An element appended joins the set; the sequence still rises if the element
\* is greater than all before it.
LEMMA Appended ==
  ASSUME NEW s \in Seq(Nat), NEW e \in Nat
  PROVE  /\ Append(s, e) \in Seq(Nat)
         /\ Append(s, e) # <<>>
         /\ Append(s, e)[Len(Append(s, e))] = e
         /\ ToSet(Append(s, e)) = ToSet(s) \cup {e}
         /\ Rising(s) /\ Below(ToSet(s), {e}) => Rising(Append(s, e))
  <1> DEFINE t == Append(s, e)
  <1>1. /\ t \in Seq(Nat) /\ t # <<>>
        /\ Len(s) \in Nat /\ DOMAIN s = 1..Len(s)
        /\ Len(t) = Len(s) + 1 /\ DOMAIN t = 1..Len(t)
        /\ \A i \in 1..Len(s) : t[i] = s[i]
        /\ t[Len(s) + 1] = e
    BY AppendProperties, LenProperties
  <1> HIDE DEF t
  <1>2. ToSet(t) = ToSet(s) \cup {e}
    <2>1. ToSet(t) \subseteq ToSet(s) \cup {e}
      BY <1>1 DEF ToSet
    <2>2. ToSet(s) \subseteq ToSet(t)
      BY <1>1 DEF ToSet
    <2>3. e \in ToSet(t)
      BY <1>1 DEF ToSet
    <2>4. QED
      BY <2>1, <2>2, <2>3
  <1>3. ASSUME Rising(s), Below(ToSet(s), {e}) PROVE Rising(t)
    <2>1. \A i \in 1..Len(s) : s[i] < e
      BY <1>1, <1>3 DEF Below, ToSet
    <2>2. SUFFICES ASSUME NEW i \in 1..Len(t), NEW j \in 1..Len(t), i < j
                   PROVE  t[i] < t[j]
      BY DEF Rising
    <2>3. i \in 1..Len(s) /\ t[i] = s[i]
      <3>1. Len(s) \in Nat /\ Len(t) = Len(s) + 1
        BY <1>1
      <3>2. i \in 1..Len(s)
        BY ONLY <2>2, <3>1, i \in 1..Len(t), j \in 1..Len(t)
      <3>3. QED
        BY <1>1, <3>2
    <2>4. CASE j = Len(s) + 1
      BY <1>1, <2>1, <2>3, <2>4
    <2>5. CASE j \in 1..Len(s)
      BY <1>1, <1>3, <2>2, <2>3, <2>5 DEF Rising
    <2>6. QED
      BY <1>1, <2>4, <2>5
  <1>4. QED
    BY <1>1, <1>2, <1>3 DEF t

\* A sequence's first k elements and the others: a rising sequence has the first
\* ones below the others.
LEMMA Cut ==
  ASSUME NEW s \in Seq(Nat), NEW k \in 0..Len(s)
  PROVE  /\ SubSeq(s, k + 1, Len(s)) \in Seq(Nat)
         /\ Len(SubSeq(s, k + 1, Len(s))) = Len(s) - k
         /\ ToSet(SubSeq(s, 1, k)) \subseteq Nat
         /\ ToSet(s) = ToSet(SubSeq(s, 1, k)) \cup ToSet(SubSeq(s, k + 1, Len(s)))
         /\ Rising(s) => /\ Rising(SubSeq(s, k + 1, Len(s)))
                         /\ Below(ToSet(SubSeq(s, 1, k)),
                                  ToSet(SubSeq(s, k + 1, Len(s))))
  <1> DEFINE rest == SubSeq(s, k + 1, Len(s))
             cut  == SubSeq(s, 1, k)
  <1>1. Len(s) \in Nat /\ k \in Nat /\ k <= Len(s) /\ DOMAIN s = 1..Len(s)
        /\ \A i \in 1..Len(s) : s[i] \in Nat
    BY LenProperties, ElementOfSeq
  <1>2. /\ rest \in Seq(Nat)
        /\ Len(rest) = Len(s) - k
        /\ \A i \in 1..Len(s) - k : rest[i] = s[i + k]
    <2>1. \A i \in (k + 1)..Len(s) : s[i] \in Nat
      BY <1>1
    <2>2. /\ rest \in Seq(Nat)
          /\ Len(rest) = IF k + 1 <= Len(s) THEN Len(s) - (k + 1) + 1 ELSE 0
      BY <1>1, <2>1, SubSeqProperties
    <2>3. \A i \in 1..Len(s) - (k + 1) + 1 : rest[i] = s[k + 1 + i - 1]
      BY <1>1, <2>1, SubSeqProperties
    <2> HIDE DEF rest
    <2>4. Len(s) - (k + 1) + 1 = Len(s) - k /\ \A i \in Nat : k + 1 + i - 1 = i + k
      BY <1>1
    <2>5. Len(rest) = Len(s) - k
      <3>0. Len(rest) = IF k + 1 <= Len(s) THEN Len(s) - (k + 1) + 1 ELSE 0
        BY ONLY <2>2
      <3>1. /\ Len(s) \in Nat /\ k \in Nat /\ k <= Len(s)
            /\ Len(rest) = IF k + 1 <= Len(s) THEN Len(s) - (k + 1) + 1 ELSE 0
        BY ONLY <1>1, <3>0, Zenon

      <3>2. CASE k + 1 <= Len(s)
        <4>1. Len(rest) = Len(s) - (k + 1) + 1
          BY ONLY <3>1, <3>2
        <4>2. QED
          BY ONLY <2>4, <4>1
      <3>3. CASE ~(k + 1 <= Len(s))
        <4>1. Len(rest) = 0
          BY ONLY <3>1, <3>3
        <4>2. k = Len(s)
          BY ONLY <3>1, <3>3
        <4>3. QED
          BY ONLY <3>1, <4>1, <4>2
      <3>4. QED
        BY <3>2, <3>3
    <2>6. \A i \in 1..Len(s) - k : rest[i] = s[i + k]
      <3> SUFFICES ASSUME NEW i \in 1..Len(s) - k PROVE rest[i] = s[i + k]
        OBVIOUS
      <3>1. i \in 1..Len(s) - (k + 1) + 1 /\ k + 1 + i - 1 = i + k
        BY <1>1, <2>4
      <3>2. rest[i] = s[k + 1 + i - 1]
        BY ONLY <2>3, <3>1
      <3>3. QED
        BY <3>1, <3>2
    <2>7. QED
      BY <2>2, <2>5, <2>6
  <1>3. cut \in Seq(Nat) /\ Len(cut) = k /\ \A i \in 1..k : cut[i] = s[i]
    <2>1. Len(cut) = IF 1 <= k THEN k - 1 + 1 ELSE 0
      BY <1>1, SubSeqProperties, ElementOfSeq
    <2>2. \A i \in 1..k - 1 + 1 : cut[i] = s[1 + i - 1]
      BY <1>1, SubSeqProperties, ElementOfSeq
    <2>3. cut \in Seq(Nat)
      BY <1>1, SubSeqProperties, ElementOfSeq
    <2> HIDE DEF cut
    <2>4. QED
      BY <1>1, <2>1, <2>2, <2>3
  <1>4. DOMAIN cut = 1..k /\ DOMAIN rest = 1..Len(s) - k
    BY <1>2, <1>3, LenProperties
  <1> HIDE DEF rest, cut
  <1>5. ToSet(cut) = {s[i] : i \in 1..k} /\ ToSet(s) = {s[i] : i \in 1..Len(s)}
    BY <1>1, <1>3, <1>4 DEF ToSet
  <1>6. ToSet(rest) = {s[i] : i \in (k + 1)..Len(s)}
    <2> DEFINE R == {s[i] : i \in (k + 1)..Len(s)}
    <2>1. ASSUME NEW x \in ToSet(rest) PROVE x \in R
      <3>1. PICK i \in 1..Len(s) - k : x = rest[i]
        BY <1>4, <2>1 DEF ToSet
      <3>2. i + k \in (k + 1)..Len(s) /\ x = s[i + k]
        BY <1>1, <1>2, <3>1
      <3>3. QED
        BY <3>2
    <2>2. ASSUME NEW x \in R PROVE x \in ToSet(rest)
      <3>1. PICK j \in (k + 1)..Len(s) : x = s[j]
        BY <2>2
      <3>2. j - k \in 1..Len(s) - k /\ j - k + k = j
        BY <1>1, <3>1
      <3>3. rest[j - k] = s[j]
        BY <1>2, <3>2
      <3>4. QED
        BY <1>4, <3>1, <3>2, <3>3 DEF ToSet
    <2>3. QED
      BY <2>1, <2>2
  <1>7. ToSet(s) = ToSet(cut) \cup ToSet(rest)
    BY <1>1, <1>5, <1>6
  <1>8. ToSet(cut) \subseteq Nat
    BY <1>1, <1>5
  <1>9. ASSUME Rising(s) PROVE Rising(rest) /\ Below(ToSet(cut), ToSet(rest))
    <2>1. Below(ToSet(cut), ToSet(rest))
      <3>1. SUFFICES ASSUME NEW i \in 1..k, NEW j \in (k + 1)..Len(s)
                     PROVE  s[i] < s[j]
        BY <1>5, <1>6 DEF Below
      <3>2. QED
        BY <1>1, <1>9 DEF Rising
    <2>2. Rising(rest)
      <3>1. SUFFICES ASSUME NEW i \in 1..Len(rest), NEW j \in 1..Len(rest), i < j
                     PROVE  rest[i] < rest[j]
        BY DEF Rising
      <3>2. /\ i + k \in 1..Len(s) /\ j + k \in 1..Len(s) /\ i + k < j + k
            /\ rest[i] = s[i + k] /\ rest[j] = s[j + k]
        <4>1. Len(s) \in Nat /\ k \in Nat /\ k <= Len(s) /\ Len(rest) = Len(s) - k
          BY <1>1, <1>2
        <4>2. i + k \in 1..Len(s) /\ j + k \in 1..Len(s) /\ i + k < j + k
          BY ONLY <3>1, <4>1, i \in 1..Len(rest), j \in 1..Len(rest)
        <4>3. QED
          BY <1>2, <4>1, <4>2
      <3>3. QED
        BY <1>9, <3>2 DEF Rising
    <2>3. QED
      BY <2>1, <2>2
  <1>10. QED
    BY <1>2, <1>7, <1>8, <1>9 DEF rest, cut

\* The first element and the others.
LEMMA HeadAndTail ==
  ASSUME NEW s \in Seq(Nat), s # <<>>
  PROVE  /\ Head(s) \in Nat /\ Tail(s) \in Seq(Nat)
         /\ Len(Tail(s)) = Len(s) - 1
         /\ ToSet(s) = {Head(s)} \cup ToSet(Tail(s))
         /\ Rising(s) => Rising(Tail(s)) /\ Below({Head(s)}, ToSet(Tail(s)))
  <1> DEFINE r == Tail(s)
             h == Head(s)
  <1>1. /\ h \in Nat /\ r \in Seq(Nat) /\ Len(s) \in Nat /\ Len(s) > 0
        /\ h = s[1] /\ Len(r) = Len(s) - 1
        /\ \A i \in 1..Len(r) : r[i] = s[i + 1]
        /\ DOMAIN s = 1..Len(s) /\ DOMAIN r = 1..Len(r)
    BY HeadTailProperties, LenProperties, EmptySeq
  <1> HIDE DEF r, h
  <1>2. ToSet(s) = {h} \cup ToSet(r)
    <2>1. ASSUME NEW x \in ToSet(s) PROVE x \in {h} \cup ToSet(r)
      <3>1. PICK i \in 1..Len(s) : x = s[i]
        BY <1>1, <2>1 DEF ToSet
      <3>2. CASE i = 1
        BY <1>1, <3>1, <3>2
      <3>3. CASE i # 1
        <4>1. i - 1 \in 1..Len(r) /\ i - 1 + 1 = i
          BY <1>1, <3>1, <3>3
        <4>2. r[i - 1] = s[i]
          BY <1>1, <4>1
        <4>3. QED
          BY <1>1, <3>1, <4>1, <4>2 DEF ToSet
      <3>4. QED
        BY <3>2, <3>3
    <2>2. h \in ToSet(s)
      BY <1>1 DEF ToSet
    <2>3. ASSUME NEW x \in ToSet(r) PROVE x \in ToSet(s)
      <3>1. PICK i \in 1..Len(r) : x = r[i]
        BY <1>1, <2>3 DEF ToSet
      <3>2. i + 1 \in 1..Len(s) /\ x = s[i + 1]
        BY <1>1, <3>1
      <3>3. QED
        BY <1>1, <3>2 DEF ToSet
    <2>4. QED
      BY <2>1, <2>2, <2>3
  <1>3. ASSUME Rising(s) PROVE Rising(r) /\ Below({h}, ToSet(r))
    <2>1. \A i \in 1..Len(r) : i + 1 \in 1..Len(s) /\ 1 < i + 1 /\ r[i] = s[i + 1]
      BY <1>1
    <2>2. \A i \in 1..Len(r) : h < r[i]
      <3>1. 1 \in 1..Len(s)
        BY <1>1
      <3>2. \A j \in 1..Len(s) : 1 < j => s[1] < s[j]
        BY <1>3, <3>1 DEF Rising
      <3>3. QED
        BY ONLY <1>1, <2>1, <3>2

    <2>3. \A i, j \in 1..Len(r) : i < j => i + 1 < j + 1
      BY <1>1
    <2>4. Rising(r)
      BY <1>3, <2>1, <2>3 DEF Rising
    <2>5. QED
      BY <1>1, <2>2, <2>4 DEF Below, ToSet
  <1>4. QED
    BY <1>1, <1>2, <1>3 DEF r, h

\* An empty sequence, and one of a single element.
LEMMA Short ==
  ASSUME NEW e \in Nat
  PROVE  ToSet(<<>>) = {} /\ Rising(<<>>) /\ ToSet(<<e>>) = {e} /\ <<e>> \in Seq(Nat)
  <1>1. Len(<<>>) = 0 /\ DOMAIN <<>> = {}
    OBVIOUS
  <1>2. ToSet(<<>>) = {} /\ Rising(<<>>)
    BY <1>1 DEF ToSet, Rising
  <1> DEFINE s == <<e>>
  <1>3. DOMAIN s = 1..1 /\ s[1] = e /\ s \in Seq(Nat)
    OBVIOUS
  <1> HIDE DEF s
  <1>4. ToSet(s) = {e}
    BY <1>3 DEF ToSet
  <1>5. QED
    BY <1>2, <1>3, <1>4 DEF s

-----------------------------------------------------------------------------
\* The types of the data.

\* The data of a block that has not been started have their types.
LEMMA DataInit == Init => DataTypeOK
  <1> SUFFICES ASSUME Init PROVE DataTypeOK
    OBVIOUS
  <1>1. can_transmit \in BOOLEAN
    BY DEF Init
  <1>2. QED
    BY <1>1 DEF Init, DataTypeOK

\* What is discarded has a type if the queue had one.
LEMMA DiscardTyped ==
  ASSUME DataTypeOK, NEW q \in Seq(Nat), NEW k \in 0..Len(q), Discard(q, k)
  PROVE  /\ rtp_queue' \in Seq(Nat) /\ discarded' \in SUBSET Nat
         /\ discards' \in Nat /\ live' \in SUBSET Nat
  <1> DEFINE rest == SubSeq(q, k + 1, Len(q))
             cut  == ToSet(SubSeq(q, 1, k))
  <1>1. rest \in Seq(Nat) /\ cut \subseteq Nat
    BY Cut
  <1>2. /\ rtp_queue' = rest
        /\ discarded' = discarded \cup cut
        /\ live' = live \ cut
        /\ discards' = IF k > 0 THEN discards + 1 ELSE discards
    BY DEF Discard
  <1> HIDE DEF rest, cut
  <1>3. QED
    BY <1>1, <1>2 DEF DataTypeOK

\* Every step leaves each queue, counter and local with its type.
LEMMA DataStep == DataTypeOK /\ [Next]_vars => DataTypeOK'
  <1> USE DEF DataTypeOK, Move, Acquire, dataVars, inputVars, queueVars, wireVars,
      lookupVars, controller
  <1> SUFFICES ASSUME DataTypeOK, [Next]_vars PROVE DataTypeOK'
    OBVIOUS
  <1>1. CASE Start \/ Stop \/ Join \/ LookupFreeAborts
    BY <1>1 DEF Start, Stop, Join, LookupFreeAborts
  <1>2. CASE Offer
    BY <1>2 DEF Offer
  <1>3. CASE RunTop \/ RunTimeout \/ RunLock \/ RunJoin
    BY <1>3 DEF RunTop, RunTimeout, RunLock, RunJoin
  <1>14. CASE RunSpawn
    BY <1>14 DEF RunSpawn
  <1>4. CASE RunDequeue
    <2>1. live' \in SUBSET Nat
      <3>1. Head(own_queue) \in Nat /\ live' = live \cup {Head(own_queue)}
        BY <1>4, HeadTailProperties DEF RunDequeue
      <3>2. QED
        BY <3>1
    <2>2. hand' \in Seq(Nat) /\ own_queue' \in Seq(Nat)
      BY <1>4 DEF RunDequeue
    <2>3. QED
      BY <2>1, <2>2, <1>4 DEF RunDequeue
  <1>5. ASSUME NEW k \in 0..Len(rtp_queue \o hand), RunPush(k) PROVE DataTypeOK'
    <2>1. Discard(rtp_queue \o hand, k) /\ rtp_queue \o hand \in Seq(Nat)
      BY <1>5, ConcatProperties DEF RunPush
    <2>2. /\ rtp_queue' \in Seq(Nat) /\ discarded' \in SUBSET Nat
          /\ discards' \in Nat /\ live' \in SUBSET Nat
      BY <2>1, DiscardTyped
    <2>3. hand' \in Seq(Nat)
      BY <1>5 DEF RunPush
    <2>4. QED
      BY <2>2, <2>3, <1>5 DEF RunPush
  <1>6. CASE LookupTop \/ LookupLockCheck \/ LookupWhile \/ LookupSleep
               \/ LookupLockPop \/ LookupFree \/ LookupFreeStale
    <2>1. can_transmit' \in BOOLEAN /\ live' \in SUBSET Nat
      BY <1>6 DEF LookupTop, LookupLockCheck, LookupWhile, LookupSleep,
         LookupLockPop, LookupFree, LookupFreeStale
    <2>2. rtp_queue_size' \in Nat
      BY <1>6 DEF LookupTop, LookupLockCheck, LookupWhile, LookupSleep,
         LookupLockPop, LookupFree, LookupFreeStale
    <2>3. UNCHANGED <<offered, own_queue, hand, rtp_queue, discarded, discards, data,
                      wire, stale, in_flight, window, overshoot>>
      BY <1>6 DEF LookupTop, LookupLockCheck, LookupWhile, LookupSleep,
         LookupLockPop, LookupFree, LookupFreeStale
    <2>4. QED
      BY <2>1, <2>2, <2>3
  <1>7. ASSUME NEW ok \in BOOLEAN, LookupCheck(ok) PROVE DataTypeOK'
    BY <1>7 DEF LookupCheck
  <1>8. ASSUME NEW ok \in BOOLEAN, LookupTransmit(ok) PROVE DataTypeOK'
    <2>1. data' \in Nat /\ rtp_queue' \in Seq(Nat) /\ wire' \in Seq(Nat) /\ stale' \in Nat
      <3>1. CASE rtp_queue # <<>>
        <4>1. Head(rtp_queue) \in Nat /\ Tail(rtp_queue) \in Seq(Nat)
          BY <3>1, HeadTailProperties
        <4>2. /\ data' = Head(rtp_queue) /\ rtp_queue' = Tail(rtp_queue)
              /\ wire' = Append(wire, Head(rtp_queue)) /\ stale' = stale
          BY <1>8, <3>1 DEF LookupTransmit, Pop
        <4>3. wire' \in Seq(Nat)
          BY <4>1, <4>2, AppendProperties
        <4>4. QED
          BY <4>1, <4>2, <4>3
      <3>2. CASE rtp_queue = <<>>
        BY <1>8, <3>2 DEF LookupTransmit, Pop
      <3>3. QED
        BY <3>1, <3>2
    <2>2. QED
      BY <2>1, <1>8 DEF LookupTransmit
  <1>9. CASE ReadTop \/ ReadNothing \/ ReadReport \/ ReadLock
    BY <1>9 DEF ReadTop, ReadNothing, ReadReport, ReadLock
  <1>11. ASSUME NEW w \in 1..MaxWindow, NEW k \in 0..in_flight,
                NEW d \in 0..Len(rtp_queue),
                ReadFeedback(w, k, d)
         PROVE  DataTypeOK'
    <2>2. in_flight' \in Nat /\ window' \in 1..MaxWindow /\ overshoot' \in Nat
      BY <1>11 DEF ReadFeedback
    <2>3. /\ rtp_queue' \in Seq(Nat) /\ discarded' \in SUBSET Nat
          /\ discards' \in Nat /\ live' \in SUBSET Nat
      BY <1>11, DiscardTyped DEF ReadFeedback
    <2>4. QED
      BY <2>2, <2>3, <1>11 DEF ReadFeedback
  <1>12. CASE UNCHANGED vars
    BY <1>12 DEF vars
  <1>15. CASE Run
    <2> HIDE DEF DataTypeOK
    <2> QED
      BY <1>3, <1>4, <1>5, <1>14, <1>15 DEF Run
  <1>16. CASE Lookup
    <2> HIDE DEF DataTypeOK
    <2> QED
      BY <1>1, <1>6, <1>7, <1>8, <1>16 DEF Lookup
  <1>17. CASE Read
    <2> HIDE DEF DataTypeOK
    <2> QED
      BY <1>9, <1>11, <1>17 DEF Read
  <1>13. QED
    BY <1>1, <1>2, <1>12, <1>15, <1>16, <1>17 DEF Next

-----------------------------------------------------------------------------
\* The path of the packets.

\* Every step moves a packet along the path, discards some or leaves the path
\* alone.
LEMMA PathCases ==
  ASSUME [Next]_vars
  PROVE  \/ Offer \/ RunDequeue
         \/ \E k \in 0..Len(rtp_queue \o hand) : RunPush(k)
         \/ \E ok \in BOOLEAN : LookupTransmit(ok)
         \/ \E w \in 1..MaxWindow, k \in 0..in_flight, d \in 0..Len(rtp_queue) :
              ReadFeedback(w, k, d)
         \/ UNCHANGED <<offered, own_queue, hand, queueVars, wireVars>>
  <1> USE DEF Move, Acquire, dataVars, inputVars
  <1>1. CASE Start \/ Stop \/ Join
    BY <1>1 DEF Start, Stop, Join
  <1>2. CASE RunSpawn \/ RunTop \/ RunTimeout \/ RunLock \/ RunJoin
    BY <1>2 DEF RunSpawn, RunTop, RunTimeout, RunLock, RunJoin
  <1>3. CASE LookupTop \/ LookupLockCheck \/ LookupWhile \/ LookupSleep
               \/ LookupLockPop \/ LookupFree \/ LookupFreeStale \/ LookupFreeAborts
    BY <1>3 DEF LookupTop, LookupLockCheck, LookupWhile, LookupSleep,
       LookupLockPop, LookupFree, LookupFreeStale, LookupFreeAborts
  <1>4. ASSUME NEW ok \in BOOLEAN, LookupCheck(ok)
        PROVE  UNCHANGED <<offered, own_queue, hand, queueVars, wireVars>>
    BY <1>4 DEF LookupCheck
  <1>5. CASE ReadTop \/ ReadNothing \/ ReadReport \/ ReadLock
    BY <1>5 DEF ReadTop, ReadNothing, ReadReport, ReadLock
  <1>6. CASE UNCHANGED vars
    BY <1>6 DEF vars
  <1>8. CASE Run
    BY <1>2, <1>8 DEF Run
  <1>9. CASE Lookup
    BY <1>3, <1>4, <1>9 DEF Lookup
  <1>10. CASE Read
    BY <1>5, <1>10 DEF Read
  <1>7. QED
    BY <1>1, <1>6, <1>8, <1>9, <1>10 DEF Next

\* run holds a packet exactly between its dequeue and its push.
LEMMA HandStep ==
  ASSUME ControlInv, DataTypeOK, HandInv, [Next]_vars
  PROVE  HandInv'
  <1> USE DEF HandInv, ControlInv, ControlTypeOK, LifeInv, Threads, RunLabels,
      Goto, Move, Acquire, dataVars, inputVars
  <1>1. CASE Start
    BY <1>1 DEF Start
  <1>2. CASE Stop \/ Offer
    BY <1>2 DEF Stop, Offer
  <1>3. CASE Join
    BY <1>3 DEF Join
  <1>4. CASE RunSpawn
    BY <1>4 DEF RunSpawn
  <1>5. CASE RunTop \/ RunTimeout \/ RunJoin
    BY <1>5 DEF RunTop, RunTimeout, RunJoin
  <1>6. CASE RunLock
    BY <1>6 DEF RunLock
  <1>7. CASE RunDequeue
    BY <1>7, HeadTailProperties DEF RunDequeue, DataTypeOK
  <1>8. ASSUME NEW k \in 0..Len(rtp_queue \o hand), RunPush(k) PROVE HandInv'
    BY <1>8 DEF RunPush
  <1>9. CASE LookupTop \/ LookupLockCheck \/ LookupWhile \/ LookupSleep
               \/ LookupLockPop \/ LookupFree \/ LookupFreeStale \/ LookupFreeAborts
    BY <1>9 DEF LookupTop, LookupLockCheck, LookupWhile, LookupSleep,
       LookupLockPop, LookupFree, LookupFreeStale, LookupFreeAborts
  <1>10. ASSUME NEW ok \in BOOLEAN, LookupCheck(ok) \/ LookupTransmit(ok)
         PROVE  HandInv'
    BY <1>10 DEF LookupCheck, LookupTransmit
  <1>11. CASE Read
    BY <1>11 DEF Read, ReadTop, ReadNothing, ReadReport, ReadLock,
       ReadFeedback
  <1>12. CASE UNCHANGED vars
    BY <1>12 DEF vars
  <1>13. QED
    BY <1>1, <1>2, <1>3, <1>4, <1>5, <1>6, <1>7, <1>8, <1>9, <1>10, <1>11,
       <1>12 DEF Next, Run, Lookup

\* A sequence of length one is its only element.
LEMMA Single ==
  ASSUME NEW s \in Seq(Nat), Len(s) = 1
  PROVE  Head(s) \in Nat /\ s = <<Head(s)>> /\ ToSet(s) = {Head(s)}
  <1>1. s # <<>>
    <2>1. SUFFICES ASSUME s = <<>> PROVE FALSE
      OBVIOUS
    <2>2. Len(<<>>) = 0
      OBVIOUS
    <2>3. Len(s) = 0
      BY ONLY <2>1, <2>2, Zenon
    <2>4. QED
      BY <2>3
  <1>2. Head(s) \in Nat
    BY <1>1, HeadTailProperties
  <1> DEFINE t == <<Head(s)>>
  <1>3. t \in Seq(Nat) /\ Len(t) = 1 /\ t[1] = Head(s) /\ Head(s) = s[1]
    BY <1>1, <1>2, HeadTailProperties
  <1> HIDE DEF t
  <1>4. s = t
    BY <1>3, SeqEqual
  <1>5. ToSet(t) = {Head(s)}
    BY <1>2, Short DEF t
  <1>6. QED
    BY <1>2, <1>4, <1>5 DEF t

\* What run is about to push comes behind the queue.
LEMMA Pushed ==
  ASSUME DataTypeOK, OrderInv, Len(hand) = 1
  PROVE  /\ rtp_queue \o hand \in Seq(Nat) /\ Rising(rtp_queue \o hand)
         /\ ToSet(rtp_queue \o hand) = ToSet(rtp_queue) \cup ToSet(hand)
  <1>1. rtp_queue \in Seq(Nat) /\ hand \in Seq(Nat)
    BY DEF DataTypeOK
  <1>2. PICK e \in Nat : hand = <<e>> /\ ToSet(hand) = {e}
    BY <1>1, Single
  <1>3. rtp_queue \o <<e>> = Append(rtp_queue, e)
    BY <1>1, AppendIsConcat
  <1>4. Below(ToSet(rtp_queue), {e}) /\ Rising(rtp_queue)
    BY <1>2 DEF OrderInv, Parted
  <1>5. /\ Append(rtp_queue, e) \in Seq(Nat) /\ Rising(Append(rtp_queue, e))
        /\ ToSet(Append(rtp_queue, e)) = ToSet(rtp_queue) \cup {e}
    BY <1>1, <1>4, Appended
  <1>6. QED
    BY <1>2, <1>3, <1>5

\* What the controller discards goes apart from what it leaves.
LEMMA Discarding ==
  ASSUME NEW q \in Seq(Nat), NEW k \in 0..Len(q), Rising(q), Discard(q, k),
         NEW W, NEW H, NEW O, NEW n \in Nat,
         Parted(W, ToSet(q), H, O, discarded, n)
  PROVE  /\ Rising(rtp_queue')
         /\ Parted(W, ToSet(rtp_queue'), H, O, discarded', n)
         /\ \E cut \in SUBSET ToSet(q) :
              /\ discarded' = discarded \cup cut
              /\ live' = live \ cut
              /\ ToSet(rtp_queue') = ToSet(q) \ cut
  <1> DEFINE rest == SubSeq(q, k + 1, Len(q))
             cut  == ToSet(SubSeq(q, 1, k))
  <1>1. /\ rtp_queue' = rest /\ discarded' = discarded \cup cut
        /\ live' = live \ cut
    BY DEF Discard
  <1>2. /\ ToSet(q) = cut \cup ToSet(rest) /\ Rising(rest) /\ Below(cut, ToSet(rest))
        /\ cut \subseteq Nat
    BY Cut
  <1> HIDE DEF rest, cut
  <1>3. cut \cap ToSet(rest) = {}
    BY <1>2 DEF Below, Parted
  <1>4. Parted(W, ToSet(rest), H, O, discarded \cup cut, n)
    <2>1. /\ W \cap cut = {} /\ H \cap cut = {} /\ O \cap cut = {}
      BY <1>2 DEF Below, Parted
    <2>2. (W \cup ToSet(rest) \cup H \cup O) \cap (discarded \cup cut) = {}
      BY <1>2, <1>3, <2>1 DEF Parted
    <2>3. /\ Below(W, ToSet(rest)) /\ Below(ToSet(rest), H) /\ Below(ToSet(rest), O)
          /\ ToSet(rest) \subseteq 1..n /\ discarded \cup cut \subseteq 1..n
      BY <1>2 DEF Below, Parted
    <2>4. QED
      BY <2>2, <2>3 DEF Parted
  <1>5. ToSet(rest) = ToSet(q) \ cut /\ cut \in SUBSET ToSet(q)
    BY <1>2, <1>3
  <1>6. QED
    BY <1>1, <1>2, <1>4, <1>5

\* Every step leaves the packets in their order and what is discarded apart.
LEMMA OrderStep ==
  ASSUME DataTypeOK, HandInv, OrderInv, [Next]_vars
  PROVE  OrderInv'
  <1>0. /\ wire \in Seq(Nat) /\ rtp_queue \in Seq(Nat) /\ hand \in Seq(Nat)
        /\ own_queue \in Seq(Nat) /\ offered \in Nat /\ discarded \subseteq Nat
    BY DEF DataTypeOK
  <1>1. CASE Offer
    <2>1. /\ own_queue' = Append(own_queue, offered + 1) /\ offered' = offered + 1
          /\ UNCHANGED <<wire, rtp_queue, hand, discarded>>
      BY <1>1 DEF Offer, queueVars, wireVars
    <2>2. Below(ToSet(own_queue), {offered + 1})
      BY <1>0 DEF OrderInv, Parted, Below
    <2>3. /\ ToSet(Append(own_queue, offered + 1)) = ToSet(own_queue) \cup {offered + 1}
          /\ Rising(Append(own_queue, offered + 1))
      BY <1>0, <2>2, Appended DEF OrderInv
    <2>4. Parted(ToSet(wire), ToSet(rtp_queue), ToSet(hand),
                 ToSet(own_queue) \cup {offered + 1}, discarded, offered + 1)
      BY <1>0 DEF OrderInv, Parted, Below
    <2>5. QED
      BY <2>1, <2>3, <2>4 DEF OrderInv
  <1>2. CASE RunDequeue
    <2>1. /\ own_queue # <<>>
          /\ own_queue' = Tail(own_queue) /\ hand' = <<Head(own_queue)>>
          /\ UNCHANGED <<offered, wire, rtp_queue, discarded>>
      BY <1>2 DEF RunDequeue, queueVars, wireVars
    <2>2. /\ Head(own_queue) \in Nat
          /\ ToSet(own_queue) = {Head(own_queue)} \cup ToSet(Tail(own_queue))
          /\ Rising(Tail(own_queue))
          /\ Below({Head(own_queue)}, ToSet(Tail(own_queue)))
      BY <1>0, <2>1, HeadAndTail DEF OrderInv
    <2>3. ToSet(<<Head(own_queue)>>) = {Head(own_queue)}
      BY <2>2, Short
    <2> DEFINE h == {Head(own_queue)}
               r == ToSet(Tail(own_queue))
    <2>4. ToSet(own_queue) = h \cup r /\ Below(h, r)
      BY <2>2
    <2>6. ToSet(hand') = h /\ ToSet(own_queue') = r
      BY <2>1, <2>3
    <2> HIDE DEF h, r
    <2>5. Parted(ToSet(wire), ToSet(rtp_queue), h, r, discarded, offered)
      BY <2>4 DEF OrderInv, Parted, Below
    <2>7. QED
      BY <2>1, <2>2, <2>5, <2>6 DEF OrderInv
  <1>3. ASSUME NEW k \in 0..Len(rtp_queue \o hand), RunPush(k) PROVE OrderInv'
    <2>1. /\ Discard(rtp_queue \o hand, k) /\ Len(hand) = 1 /\ hand' = <<>>
          /\ UNCHANGED <<offered, own_queue, wire>>
      BY <1>3 DEF RunPush, Goto, HandInv, wireVars
    <2> DEFINE q == rtp_queue \o hand
    <2>2. /\ q \in Seq(Nat) /\ Rising(q) /\ ToSet(q) = ToSet(rtp_queue) \cup ToSet(hand)
          /\ k \in 0..Len(q) /\ Discard(q, k)
      BY <2>1, Pushed
    <2> HIDE DEF q
    <2>3. Parted(ToSet(wire), ToSet(q), {}, ToSet(own_queue), discarded, offered)
      BY <2>2 DEF OrderInv, Parted, Below
    <2>4. /\ Rising(rtp_queue')
          /\ Parted(ToSet(wire), ToSet(rtp_queue'), {}, ToSet(own_queue), discarded', offered)
      BY <1>0, <2>2, <2>3, Discarding
    <2>5. ToSet(hand') = {}
      BY <2>1, Short
    <2>6. QED
      BY <2>1, <2>4, <2>5 DEF OrderInv
  <1>4. ASSUME NEW ok \in BOOLEAN, LookupTransmit(ok) PROVE OrderInv'
    <2>1. UNCHANGED <<offered, own_queue, hand, discarded>> /\ Pop
      BY <1>4 DEF LookupTransmit, inputVars
    <2>2. CASE rtp_queue = <<>>
      BY <2>1, <2>2 DEF Pop, OrderInv
    <2>3. CASE rtp_queue # <<>>
      <3>1. /\ wire' = Append(wire, Head(rtp_queue)) /\ rtp_queue' = Tail(rtp_queue)
        BY <2>1, <2>3 DEF Pop
      <3> DEFINE h == {Head(rtp_queue)}
                 r == ToSet(Tail(rtp_queue))
      <3>2. /\ Head(rtp_queue) \in Nat /\ ToSet(rtp_queue) = h \cup r
            /\ Rising(Tail(rtp_queue)) /\ Below(h, r)
        BY <1>0, <2>3, HeadAndTail DEF OrderInv
      <3>3. Below(ToSet(wire), h)
        <4> HIDE DEF h, r
        <4>1. QED
          BY <3>2 DEF OrderInv, Parted, Below
      <3>4. /\ ToSet(Append(wire, Head(rtp_queue))) = ToSet(wire) \cup h
            /\ Rising(Append(wire, Head(rtp_queue)))
        BY <1>0, <3>2, <3>3, Appended DEF OrderInv
      <3>5. ToSet(wire') = ToSet(wire) \cup h /\ ToSet(rtp_queue') = r
        BY <3>1, <3>4
      <3> HIDE DEF h, r
      <3>6. Parted(ToSet(wire) \cup h, r, ToSet(hand), ToSet(own_queue), discarded, offered)
        BY <3>2, <3>3 DEF OrderInv, Parted, Below
      <3>7. QED
        BY <2>1, <3>1, <3>2, <3>4, <3>5, <3>6 DEF OrderInv
    <2>4. QED
      BY <2>2, <2>3
  <1>5. ASSUME NEW w \in 1..MaxWindow, NEW k \in 0..in_flight,
               NEW d \in 0..Len(rtp_queue),
               ReadFeedback(w, k, d)
        PROVE  OrderInv'
    <2>1. Discard(rtp_queue, d) /\ UNCHANGED <<offered, own_queue, hand, wire>>
      BY <1>5 DEF ReadFeedback, inputVars, wireVars
    <2>2. /\ Rising(rtp_queue')
          /\ Parted(ToSet(wire), ToSet(rtp_queue'), ToSet(hand), ToSet(own_queue),
                    discarded', offered)
      BY <1>0, <2>1, Discarding DEF OrderInv
    <2>3. QED
      BY <2>1, <2>2 DEF OrderInv
  <1>6. CASE UNCHANGED <<offered, own_queue, hand, queueVars, wireVars>>
    BY <1>6 DEF OrderInv, queueVars, wireVars
  <1>7. QED
    BY <1>1, <1>2, <1>3, <1>4, <1>5, <1>6, PathCases

\* lookup goes on to pop only with a nonempty size and a good answer.
LEMMA LoopStep ==
  ASSUME ControlInv, LoopInv, [Next]_vars
  PROVE  LoopInv'
  <1> USE DEF LoopInv, ControlInv, ControlTypeOK, Threads, LifeInv, LookupLabels,
      Goto, Move, Acquire, dataVars, lookupVars
  <1>1. CASE Start \/ Stop \/ Offer
    BY <1>1 DEF Start, Stop, Offer
  <1>2. CASE Join
    BY <1>2 DEF Join
  <1>3. CASE RunSpawn
    BY <1>3 DEF RunSpawn
  <1>4. CASE RunTop \/ RunTimeout \/ RunLock \/ RunJoin \/ RunDequeue
    BY <1>4 DEF RunTop, RunTimeout, RunLock, RunJoin, RunDequeue
  <1>5. ASSUME NEW k \in 0..Len(rtp_queue \o hand), RunPush(k) PROVE LoopInv'
    BY <1>5 DEF RunPush
  <1>6. CASE LookupTop \/ LookupLockCheck \/ LookupWhile \/ LookupSleep
               \/ LookupLockPop \/ LookupFree \/ LookupFreeStale \/ LookupFreeAborts
    BY <1>6 DEF LookupTop, LookupLockCheck, LookupWhile, LookupSleep,
       LookupLockPop, LookupFree, LookupFreeStale, LookupFreeAborts
  <1>7. ASSUME NEW ok \in BOOLEAN, LookupCheck(ok) \/ LookupTransmit(ok)
        PROVE  LoopInv'
    BY <1>7 DEF LookupCheck, LookupTransmit
  <1>8. CASE Read
    BY <1>8 DEF Read, ReadTop, ReadNothing, ReadReport, ReadLock,
       ReadFeedback
  <1>9. CASE UNCHANGED vars
    BY <1>9 DEF vars
  <1>10. CASE Run
    BY <1>3, <1>4, <1>5, <1>10 DEF Run
  <1>11. CASE Lookup
    BY <1>6, <1>7, <1>11 DEF Lookup
  <1>12. QED
    BY <1>1, <1>2, <1>8, <1>9, <1>10, <1>11 DEF Next

\* A pop finds the queue empty only if the controller has discarded something
\* since lookup looked, and then lookup looks again.
LEMMA StaleStep ==
  ASSUME DataTypeOK, HandInv, LoopInv, StaleInv, [Next]_vars
  PROVE  StaleInv'
  <1> USE DEF StaleInv, dataVars, queueVars, lookupVars, wireVars
  <1>0. /\ rtp_queue \in Seq(Nat) /\ Len(rtp_queue) \in Nat /\ discards \in Nat
        /\ stale \in Nat /\ rtp_queue_size \in Nat
        /\ hand \in Seq(Nat) /\ Len(hand) \in Nat
    BY LenProperties DEF DataTypeOK
  <1>1. CASE Start \/ Stop \/ Join \/ Offer
    BY <1>1 DEF Start, Stop, Join, Offer
  <1>2. CASE RunSpawn \/ RunTop \/ RunTimeout \/ RunLock \/ RunJoin \/ RunDequeue
    BY <1>2 DEF RunSpawn, RunTop, RunTimeout, RunLock, RunJoin, RunDequeue, Move,
       Acquire
  <1>3. ASSUME NEW q \in Seq(Nat), Len(q) >= Len(rtp_queue), NEW k \in 0..Len(q),
               Discard(q, k), UNCHANGED <<stale, rtp_queue_size>>
        PROVE  StaleInv'
    <2>1. Len(q) \in Nat /\ k \in Nat
      BY LenProperties
    <2>2. Len(rtp_queue') = Len(q) - k
      <3>1. rtp_queue' = SubSeq(q, k + 1, Len(q))
        BY <1>3 DEF Discard
      <3>2. Len(SubSeq(q, k + 1, Len(q))) = Len(q) - k
        BY Cut
      <3>3. QED
        BY <3>1, <3>2
    <2>3. discards' = IF k > 0 THEN discards + 1 ELSE discards
      BY <1>3 DEF Discard
    <2>4. CASE k = 0
      BY <1>0, <1>3, <2>1, <2>2, <2>3, <2>4
    <2>5. CASE k > 0
      BY <1>0, <1>3, <2>3, <2>5
    <2>6. QED
      BY <2>1, <2>4, <2>5
  <1>4. ASSUME NEW k \in 0..Len(rtp_queue \o hand), RunPush(k) PROVE StaleInv'
    <2>1. rtp_queue \o hand \in Seq(Nat) /\ Len(rtp_queue \o hand) >= Len(rtp_queue)
      BY <1>0, ConcatProperties
    <2>2. Discard(rtp_queue \o hand, k) /\ UNCHANGED <<stale, rtp_queue_size>>
      BY <1>4 DEF RunPush
    <2> HIDE DEF StaleInv
    <2>3. QED
      BY <1>3, <2>1, <2>2
  <1>5. CASE LookupTop \/ LookupLockCheck \/ LookupWhile \/ LookupLockPop
               \/ LookupFree \/ LookupFreeStale \/ LookupFreeAborts
    BY <1>5 DEF LookupTop, LookupLockCheck, LookupWhile, LookupLockPop, LookupFree,
       LookupFreeStale, LookupFreeAborts, Move, Acquire
  <1>6. CASE LookupSleep
    <2>1. rtp_queue_size' = 0 /\ UNCHANGED <<rtp_queue, discards, stale>>
      BY <1>6 DEF LookupSleep
    <2>2. QED
      BY <1>0, <2>1
  <1>7. ASSUME NEW ok \in BOOLEAN, LookupCheck(ok) PROVE StaleInv'
    <2>1. rtp_queue_size' = Len(rtp_queue) /\ UNCHANGED <<rtp_queue, discards, stale>>
      BY <1>7 DEF LookupCheck
    <2>2. QED
      BY <1>0, <2>1
  <1>8. ASSUME NEW ok \in BOOLEAN, LookupTransmit(ok) PROVE StaleInv'
    <2>1. /\ Pop /\ rtp_queue_size' = Len(rtp_queue') /\ discards' = discards
          /\ rtp_queue_size > 0
      BY <1>8 DEF LookupTransmit, LoopInv, Goto
    <2>2. CASE rtp_queue = <<>>
      <3>1. Len(rtp_queue) = 0 /\ stale' = stale + 1 /\ rtp_queue' = rtp_queue
        BY <2>1, <2>2 DEF Pop
      <3>2. QED
        BY <1>0, <2>1, <3>1
    <2>3. CASE rtp_queue # <<>>
      <3>1. stale' = stale /\ rtp_queue' = Tail(rtp_queue)
        BY <2>1, <2>3 DEF Pop
      <3>2. rtp_queue' \in Seq(Nat)
        BY <1>0, <2>3, <3>1, HeadTailProperties
      <3>3. Len(rtp_queue') \in Nat
        BY <3>2, LenProperties
      <3>4. QED
        BY <1>0, <2>1, <3>1, <3>3
    <2>4. QED
      BY <2>2, <2>3
  <1>9. CASE ReadTop \/ ReadNothing \/ ReadReport \/ ReadLock
    BY <1>9 DEF ReadTop, ReadNothing, ReadReport, ReadLock, Move, Acquire
  <1>10. ASSUME NEW w \in 1..MaxWindow, NEW k \in 0..in_flight,
                NEW d \in 0..Len(rtp_queue),
                ReadFeedback(w, k, d)
         PROVE  StaleInv'
    <2>1. Discard(rtp_queue, d) /\ UNCHANGED <<stale, rtp_queue_size>>
      BY <1>10 DEF ReadFeedback
    <2>2. Len(rtp_queue) >= Len(rtp_queue)
      BY <1>0
    <2> HIDE DEF StaleInv
    <2>3. QED
      BY <1>0, <1>3, <2>1, <2>2
  <1>11. CASE UNCHANGED vars
    BY <1>11 DEF vars
  <1> HIDE DEF StaleInv
  <1>12. CASE Run
    BY <1>2, <1>4, <1>12 DEF Run
  <1>13. CASE Lookup
    BY <1>5, <1>6, <1>7, <1>8, <1>13 DEF Lookup
  <1>14. CASE Read
    BY <1>9, <1>10, <1>14 DEF Read
  <1>15. QED
    BY <1>1, <1>11, <1>12, <1>13, <1>14 DEF Next

\* The buffer about to be freed is the one sent last, unless the pop found
\* the queue empty.
LEMMA DataInvStep ==
  ASSUME ControlInv, DataTypeOK, DataInv, [Next]_vars
  PROVE  DataInv'
  <1> USE DEF DataInv, ControlInv, ControlTypeOK, Threads, LifeInv,
      LookupLabels, Goto, Move, Acquire, dataVars, lookupVars, wireVars
  <1>1. CASE Start \/ Stop \/ Offer
    BY <1>1 DEF Start, Stop, Offer
  <1>2. CASE Join
    BY <1>2 DEF Join
  <1>3. CASE RunSpawn
    BY <1>3 DEF RunSpawn
  <1>4. CASE RunTop \/ RunTimeout \/ RunLock \/ RunJoin \/ RunDequeue
    BY <1>4 DEF RunTop, RunTimeout, RunLock, RunJoin, RunDequeue
  <1>9. ASSUME NEW k \in 0..Len(rtp_queue \o hand), RunPush(k) PROVE DataInv'
    BY <1>9 DEF RunPush
  <1>5. CASE LookupTop \/ LookupLockCheck \/ LookupWhile \/ LookupSleep
               \/ LookupLockPop \/ LookupFree \/ LookupFreeStale \/ LookupFreeAborts
    BY <1>5 DEF LookupTop, LookupLockCheck, LookupWhile, LookupSleep,
       LookupLockPop, LookupFree, LookupFreeStale, LookupFreeAborts
  <1>6. ASSUME NEW ok \in BOOLEAN, LookupCheck(ok) PROVE DataInv'
    BY <1>6 DEF LookupCheck
  <1>7. ASSUME NEW ok \in BOOLEAN, LookupTransmit(ok) PROVE DataInv'
    <2>1. Pop /\ rtp_queue \in Seq(Nat) /\ wire \in Seq(Nat) /\ stale \in Nat
      BY <1>7 DEF LookupTransmit, DataTypeOK
    <2>2. CASE rtp_queue = <<>>
      <3>1. stale' = stale + 1
        BY <2>1, <2>2 DEF Pop
      <3>2. stale' # 0
        BY <2>1, <3>1
      <3>3. QED
        BY <3>2
    <2>3. CASE rtp_queue # <<>>
      <3>1. data' = Head(rtp_queue) /\ wire' = Append(wire, Head(rtp_queue))
        BY <2>1, <2>3 DEF Pop
      <3>2. Head(rtp_queue) \in Nat
        BY <2>1, <2>3, HeadTailProperties
      <3>3. wire' # <<>> /\ wire'[Len(wire')] = data'
        <4>1. wire' # <<>>
          BY <2>1, <3>1, <3>2, Appended
        <4>2. wire'[Len(wire')] = Head(rtp_queue)
          BY <2>1, <3>1, <3>2, Appended
        <4>3. QED
          BY <3>1, <4>1, <4>2
      <3>4. QED
        BY <3>3
    <2>4. QED
      BY <2>2, <2>3
  <1>8. CASE Read
    BY <1>8 DEF Read, ReadTop, ReadNothing, ReadReport, ReadLock,
       ReadFeedback
  <1>10. CASE UNCHANGED vars
    BY <1>10 DEF vars
  <1>11. CASE Run
    BY <1>3, <1>4, <1>9, <1>11 DEF Run
  <1>12. CASE Lookup
    BY <1>5, <1>6, <1>7, <1>12 DEF Lookup
  <1>13. QED
    BY <1>1, <1>2, <1>8, <1>10, <1>11, <1>12 DEF Next

\* While no pop has found the queue empty, the buffers of the heap are those
\* in use: each step gives a buffer from one holder to another or frees it.
LEMMA OwnershipStep ==
  ASSUME IInv, [Next]_vars
  PROVE  BufferOwnership'
  <1> USE DEF Goto, Move, Acquire, dataVars, inputVars, lookupVars, queueVars,
      wireVars, Threads
  <1> DEFINE freeing == IF pc["lookup"] = "free" THEN {data} ELSE {}
  <1>0. /\ wire \in Seq(Nat) /\ rtp_queue \in Seq(Nat) /\ hand \in Seq(Nat)
        /\ own_queue \in Seq(Nat) /\ offered \in Nat /\ stale \in Nat
        /\ pc \in [Threads -> RunLabels \cup LookupLabels \cup ReadLabels]
        /\ ControlInv /\ HandInv /\ OrderInv
    BY DEF IInv, TypeOK, DataTypeOK, ControlTypeOK, ControlInv
  <1>1. stale = 0 => live = ToSet(rtp_queue) \cup ToSet(hand) \cup freeing
    BY DEF IInv, BufferOwnership, Owned
  <1>2. ASSUME stale = 0, pc["lookup"] = "free" PROVE data \in ToSet(wire)
    <2>1. wire # <<>> /\ data = wire[Len(wire)]
      BY <1>2 DEF IInv, DataInv
    <2>2. DOMAIN wire = 1..Len(wire) /\ Len(wire) \in 1..Len(wire)
      BY <1>0, <2>1, LenProperties, EmptySeq
    <2>3. QED
      BY <2>1, <2>2 DEF ToSet
  <1>3. stale = 0 => freeing \cap (ToSet(rtp_queue) \cup ToSet(hand)) = {}
    <2>1. ToSet(wire) \cap (ToSet(rtp_queue) \cup ToSet(hand)) = {}
      BY <1>0 DEF OrderInv, Parted, Below
    <2>2. QED
      BY <1>2, <2>1
  <1>4. CASE Start \/ Stop \/ Offer
    BY <1>0, <1>4 DEF Start, Stop, Offer, BufferOwnership, Owned, IInv
  <1>5. CASE Join
    BY <1>0, <1>5 DEF Join, BufferOwnership, Owned, IInv, ControlInv, LifeInv
  <1>6. CASE RunSpawn
    BY <1>0, <1>6 DEF RunSpawn, BufferOwnership, Owned, IInv, ControlInv, LifeInv
  <1>7. CASE RunTop \/ RunTimeout \/ RunLock \/ RunJoin
    BY <1>0, <1>7 DEF RunTop, RunTimeout, RunLock, RunJoin, BufferOwnership, Owned, IInv
  <1>8. CASE RunDequeue
    <2>1. /\ own_queue # <<>> /\ hand' = <<Head(own_queue)>>
          /\ live' = live \cup {Head(own_queue)} /\ pc'["lookup"] = pc["lookup"]
          /\ UNCHANGED <<rtp_queue, data, stale>> /\ Len(hand) = 0
      BY <1>0, <1>8 DEF RunDequeue, HandInv
    <2>2. ToSet(hand') = {Head(own_queue)}
      BY <1>0, <2>1, Short, HeadTailProperties
    <2>3. ToSet(hand) = {}
      BY <1>0, <2>1, EmptySeq, Short
    <2>4. QED
      BY <1>1, <2>1, <2>2, <2>3 DEF BufferOwnership, Owned
  <1>9. ASSUME NEW cut, live' = live \ cut, UNCHANGED <<data, stale>>,
               pc'["lookup"] = pc["lookup"],
               cut \subseteq ToSet(rtp_queue) \cup ToSet(hand),
               ToSet(rtp_queue') \cup ToSet(hand') =
                 (ToSet(rtp_queue) \cup ToSet(hand)) \ cut
        PROVE  BufferOwnership'
    <2> HIDE DEF freeing
    <2>1. stale = 0 => live' = (ToSet(rtp_queue') \cup ToSet(hand')) \cup freeing
      BY <1>1, <1>3, <1>9
    <2>2. freeing' = freeing
      BY <1>9 DEF freeing
    <2>3. QED
      BY <1>9, <2>1, <2>2 DEF BufferOwnership, Owned, freeing
  <1>10. ASSUME NEW k \in 0..Len(rtp_queue \o hand), RunPush(k)
         PROVE  BufferOwnership'
    <2>1. /\ Discard(rtp_queue \o hand, k) /\ Len(hand) = 1 /\ hand' = <<>>
          /\ UNCHANGED <<data, stale>> /\ pc'["lookup"] = pc["lookup"]
      BY <1>0, <1>10 DEF RunPush, HandInv
    <2> DEFINE q == rtp_queue \o hand
    <2>2. /\ q \in Seq(Nat) /\ Rising(q) /\ ToSet(q) = ToSet(rtp_queue) \cup ToSet(hand)
          /\ k \in 0..Len(q) /\ Discard(q, k)
      BY <1>0, <2>1, Pushed DEF IInv, TypeOK
    <2> HIDE DEF q
    <2>3. Parted(ToSet(wire), ToSet(q), {}, ToSet(own_queue), discarded, offered)
      BY <1>0, <2>2 DEF OrderInv, Parted, Below
    <2>4. PICK cut \in SUBSET ToSet(q) : /\ live' = live \ cut
                                         /\ ToSet(rtp_queue') = ToSet(q) \ cut
      BY <1>0, <2>2, <2>3, Discarding
    <2>5. ToSet(hand') = {}
      BY <2>1, Short
    <2>6. QED
      BY <1>9, <2>1, <2>2, <2>4, <2>5
  <1>11. CASE LookupTop \/ LookupLockCheck \/ LookupWhile \/ LookupSleep \/ LookupLockPop
    BY <1>0, <1>11 DEF LookupTop, LookupLockCheck, LookupWhile, LookupSleep,
       LookupLockPop, BufferOwnership, Owned, IInv
  <1>12. CASE LookupFree
    <2>1. /\ live' = live \ {data} /\ UNCHANGED <<rtp_queue, hand, stale>>
          /\ pc["lookup"] = "free" /\ pc'["lookup"] = "while"
      BY <1>0, <1>12 DEF LookupFree
    <2>2. QED
      BY <1>1, <1>3, <2>1 DEF BufferOwnership, Owned
  <1>13. CASE LookupFreeStale \/ LookupFreeAborts
    <2>1. data \notin live /\ pc["lookup"] = "free" /\ stale' = stale
      BY <1>13 DEF LookupFreeStale, LookupFreeAborts
    <2>2. stale' # 0
      BY <1>1, <2>1
    <2>3. QED
      BY <2>2 DEF BufferOwnership
  <1>14. ASSUME NEW ok \in BOOLEAN, LookupCheck(ok) PROVE BufferOwnership'
    BY <1>0, <1>14 DEF LookupCheck, BufferOwnership, Owned, IInv
  <1>15. ASSUME NEW ok \in BOOLEAN, LookupTransmit(ok) PROVE BufferOwnership'
    <2>1. /\ Pop /\ UNCHANGED <<hand, live>> /\ pc["lookup"] = "transmit"
          /\ pc'["lookup"] = "free"
      BY <1>0, <1>15 DEF LookupTransmit
    <2>2. CASE rtp_queue = <<>>
      <3>1. stale' # 0
        BY <1>0, <2>1, <2>2 DEF Pop
      <3>2. QED
        BY <3>1 DEF BufferOwnership
    <2>3. CASE rtp_queue # <<>>
      <3>1. data' = Head(rtp_queue) /\ rtp_queue' = Tail(rtp_queue) /\ stale' = stale
        BY <2>1, <2>3 DEF Pop
      <3>2. ToSet(rtp_queue) = {data'} \cup ToSet(rtp_queue')
        BY <1>0, <2>3, <3>1, HeadAndTail
      <3>3. QED
        BY <1>1, <2>1, <3>1, <3>2 DEF BufferOwnership, Owned
    <2>4. QED
      BY <2>2, <2>3
  <1>16. CASE ReadTop \/ ReadNothing \/ ReadReport \/ ReadLock
    BY <1>0, <1>16 DEF ReadTop, ReadNothing, ReadReport, ReadLock,
       BufferOwnership, Owned, IInv
  <1>17. ASSUME NEW w \in 1..MaxWindow, NEW k \in 0..in_flight,
                NEW d \in 0..Len(rtp_queue),
                ReadFeedback(w, k, d)
         PROVE  BufferOwnership'
    <2>1. /\ Discard(rtp_queue, d) /\ UNCHANGED <<hand, data, stale>>
          /\ pc'["lookup"] = pc["lookup"]
      BY <1>0, <1>17 DEF ReadFeedback
    <2>2. PICK cut \in SUBSET ToSet(rtp_queue) :
            live' = live \ cut /\ ToSet(rtp_queue') = ToSet(rtp_queue) \ cut
      BY <1>0, <2>1, Discarding DEF OrderInv
    <2>3. ToSet(hand) \cap cut = {}
      BY <1>0 DEF OrderInv, Parted, Below
    <2>4. QED
      BY <1>9, <2>1, <2>2, <2>3
  <1>18. CASE UNCHANGED vars
    BY <1>0, <1>18 DEF vars, BufferOwnership, Owned, IInv
  <1> HIDE DEF freeing
  <1>19. CASE Run
    BY <1>6, <1>7, <1>8, <1>10, <1>19 DEF Run
  <1>20. CASE Lookup
    BY <1>11, <1>12, <1>13, <1>14, <1>15, <1>20 DEF Lookup
  <1>21. CASE Read
    BY <1>16, <1>17, <1>21 DEF Read
  <1>22. QED
    BY <1>4, <1>5, <1>18, <1>19, <1>20, <1>21 DEF Next

-----------------------------------------------------------------------------
\* The controller's window.

\* A packet that goes into a closed window stops lookup until feedback comes.
LEMMA WindowStep ==
  ASSUME DataTypeOK, LoopInv, WindowInv, [Next]_vars
  PROVE  WindowInv'
  <1> USE DEF DataTypeOK, WindowInv, WindowOpen, Move, Acquire, dataVars,
      lookupVars, controller
  <1>1. CASE Start \/ Stop \/ Join \/ Offer
    BY <1>1 DEF Start, Stop, Join, Offer
  <1>2. CASE Run
    BY <1>2 DEF Run, RunSpawn, RunTop, RunTimeout, RunDequeue, RunLock,
       RunPush, RunJoin
  <1>3. CASE LookupTop \/ LookupLockCheck \/ LookupWhile \/ LookupSleep
               \/ LookupLockPop \/ LookupFree \/ LookupFreeStale \/ LookupFreeAborts
    BY <1>3 DEF LookupTop, LookupLockCheck, LookupWhile, LookupSleep,
       LookupLockPop, LookupFree, LookupFreeStale, LookupFreeAborts
  <1>4. ASSUME NEW ok \in BOOLEAN, LookupCheck(ok) PROVE WindowInv'
    BY <1>4 DEF LookupCheck
  <1>5. ASSUME NEW ok \in BOOLEAN, LookupTransmit(ok) PROVE WindowInv'
    <2>1. can_transmit /\ overshoot = 0
      BY <1>5 DEF LookupTransmit, Goto, LoopInv
    <2>2. /\ in_flight' = in_flight + 1
          /\ window' = window
          /\ overshoot' = IF in_flight < window THEN 0 ELSE 1
          /\ can_transmit' => in_flight' < window'
      BY <1>5, <2>1 DEF LookupTransmit
    <2>3. QED
      BY <2>2
  <1>6. CASE ReadTop \/ ReadNothing \/ ReadReport \/ ReadLock
    BY <1>6 DEF ReadTop, ReadNothing, ReadReport, ReadLock
  <1>7. ASSUME NEW w \in 1..MaxWindow, NEW k \in 0..in_flight,
               NEW d \in 0..Len(rtp_queue),
               ReadFeedback(w, k, d)
        PROVE  WindowInv'
    BY <1>7 DEF ReadFeedback
  <1>8. CASE UNCHANGED vars
    BY <1>8 DEF vars
  <1> HIDE DEF WindowInv
  <1>9. CASE Lookup
    BY <1>3, <1>4, <1>5, <1>9 DEF Lookup
  <1>10. CASE Read
    BY <1>6, <1>7, <1>10 DEF Read
  <1>11. QED
    BY <1>1, <1>2, <1>8, <1>9, <1>10 DEF Next

-----------------------------------------------------------------------------
\* The invariant and what follows from it.

\* The inductive invariant holds when the block is created.
LEMMA IInvInit == Init => IInv
  <1> SUFFICES ASSUME Init PROVE IInv
    OBVIOUS
  <1>1. TypeOK /\ LockInv /\ LifeInv
    BY ControlInit, DataInit DEF TypeOK, ControlInv
  <1>2. HandInv /\ LoopInv /\ DataInv /\ WindowInv
    BY EmptySeq DEF Init, HandInv, LoopInv, DataInv, WindowInv, Threads
  <1>3. ToSet(<<>>) = {} /\ Rising(<<>>)
    BY Short
  <1>4. OrderInv
    BY <1>3 DEF Init, OrderInv, Parted, Below
  <1>5. StaleInv
    BY EmptySeq DEF Init, StaleInv
  <1>6. BufferOwnership
    BY <1>3 DEF Init, BufferOwnership, Owned, Threads
  <1>7. QED
    BY <1>1, <1>2, <1>4, <1>5, <1>6 DEF IInv

\* Every step of the main thread, the converter, run, lookup and read keeps
\* the inductive invariant.
LEMMA IInvStep == IInv /\ [Next]_vars => IInv'
  <1> SUFFICES ASSUME IInv, [Next]_vars PROVE IInv'
    OBVIOUS
  <1>1. ControlInv /\ DataTypeOK
    BY DEF IInv, ControlInv, TypeOK
  <1>2. ControlInv' /\ DataTypeOK'
    BY <1>1, ControlStep, DataStep
  <1>3. HandInv' /\ OrderInv' /\ LoopInv' /\ StaleInv' /\ DataInv' /\ WindowInv'
    BY <1>1, HandStep, OrderStep, LoopStep, StaleStep, DataInvStep, WindowStep DEF IInv
  <1>4. BufferOwnership'
    BY OwnershipStep
  <1>5. QED
    BY <1>2, <1>3, <1>4 DEF IInv, ControlInv, TypeOK

\* The inductive invariant holds in every reachable state.
LEMMA Invariance == Spec => []IInv
  BY IInvInit, IInvStep, PTL DEF Spec

\* Every variable keeps its type, and each thread is at a place of its own
\* code, however the three threads, the converter and main interleave.
THEOREM TypeCorrect == Spec => []TypeOK
  <1>1. IInv => TypeOK
    BY DEF IInv
  <1>2. QED
    BY <1>1, Invariance, PTL

\* Until lookup has popped an empty queue no packet buffer is leaked, used after
\* it was freed or freed twice, although the controller discards buffers from
\* the queue in run's thread and in read's.
THEOREM BuffersOwned == Spec => []BufferOwnership
  <1>1. IInv => BufferOwnership
    BY DEF IInv
  <1>2. QED
    BY <1>1, Invariance, PTL

\* lookup, which pops by the size it read before it gave the lock back, pops an
\* empty queue at most once for every discard of the controller.
THEOREM StalePopsBounded == Spec => []StaleOncePerDiscard
  <1>1. IInv => StaleOncePerDiscard
    <2>1. IInv => stale \in Nat /\ discards \in Nat /\ StaleInv
      BY DEF IInv, TypeOK, DataTypeOK
    <2>2. QED
      BY <2>1 DEF StaleInv, StaleOncePerDiscard
  <1>2. QED
    BY <1>1, Invariance, PTL

\* At most one packet goes into a closed window before the next feedback.
THEOREM OvershootBounded == Spec => []OvershootAtMostOne
  <1>1. IInv => OvershootAtMostOne
    BY DEF IInv, WindowInv, OvershootAtMostOne
  <1>2. QED
    BY <1>1, Invariance, PTL

-----------------------------------------------------------------------------
\* The block carries packets.

carrierVars == <<{Packets}, 1..offered, wire, discarded>>

\* What has come out is what is on the wire.
LEMMA Arrived ==
  ASSUME wire \in Seq(Nat), NEW x
  PROVE  Carrying!HasArrived(x) <=> x \in ToSet(wire)
  BY DEF Carrying!HasArrived, ToSet

\* What is queued or held is on its way.
LEMMA QueuedOnTheWay ==
  ASSUME DataTypeOK, OrderInv
  PROVE  ToSet(rtp_queue) \cup ToSet(hand) \subseteq Carrying!OnTheWay
  <1> SUFFICES ASSUME NEW x \in ToSet(rtp_queue) \cup ToSet(hand)
               PROVE  x \in Carrying!OnTheWay
    OBVIOUS
  <1>1. x \in 1..offered /\ x \notin discarded /\ x \notin ToSet(wire)
    BY DEF OrderInv, Parted, Below
  <1>2. ~Carrying!HasArrived(x)
    BY <1>1, Arrived DEF DataTypeOK
  <1>3. QED
    BY <1>1, <1>2 DEF Carrying!OnTheWay

\* An arrival is Send, lookup's pop-and-send of a queued packet Arrive, a discard
\* Vanish; no other step concerns the carrier.
LEMMA CarrierStep ==
  ASSUME IInv, [Next]_vars
  PROVE  [Carrying!Next]_carrierVars
  <1>0. /\ wire \in Seq(Nat) /\ rtp_queue \in Seq(Nat) /\ hand \in Seq(Nat)
        /\ offered \in Nat /\ DataTypeOK /\ OrderInv /\ HandInv
        /\ MaxPackets \in Nat
    BY BoundsAssumption DEF IInv, TypeOK, DataTypeOK
  <1>1. CASE Offer
    <2>1. /\ offered < MaxPackets /\ offered' = offered + 1
          /\ UNCHANGED <<wire, discarded>>
      BY <1>1 DEF Offer, queueVars, wireVars
    <2> DEFINE x == offered + 1
    <2>2. x \in Packets /\ Packets \cap (1..offered) = {y \in Packets : y < x}
      BY <1>0, <2>1 DEF Packets
    <2>3. 1..offered' = (1..offered) \cup {x}
      BY <1>0, <2>1
    <2>4. Carrying!Send(Packets, x)
      BY <2>1, <2>2, <2>3 DEF Carrying!Send
    <2>5. QED
      BY <2>2, <2>4 DEF Carrying!Next
  <1>2. CASE RunDequeue
    BY <1>2 DEF RunDequeue, wireVars, queueVars, carrierVars
  <1>3. ASSUME NEW q \in Seq(Nat), NEW k \in 0..Len(q), Rising(q), Discard(q, k),
               ToSet(q) \subseteq ToSet(rtp_queue) \cup ToSet(hand),
               UNCHANGED <<offered, wire>>
        PROVE  [Carrying!Next]_carrierVars
    <2> DEFINE cut == ToSet(SubSeq(q, 1, k))
    <2>1. cut \subseteq ToSet(q) /\ discarded' = discarded \cup cut
      BY <1>3, Cut DEF Discard
    <2> HIDE DEF cut
    <2>2. cut \in SUBSET Carrying!OnTheWay
      BY <1>0, <1>3, <2>1, QueuedOnTheWay
    <2>3. Carrying!Vanish(cut)
      BY <1>3, <2>1 DEF Carrying!Vanish
    <2>4. \E X \in SUBSET Carrying!OnTheWay : Carrying!Vanish(X)
      BY <2>2, <2>3
    <2>5. QED
      BY <2>4 DEF Carrying!Next
  <1>4. ASSUME NEW k \in 0..Len(rtp_queue \o hand), RunPush(k)
        PROVE  [Carrying!Next]_carrierVars
    <2>1. /\ Discard(rtp_queue \o hand, k) /\ Len(hand) = 1
          /\ UNCHANGED <<offered, wire>>
      BY <1>0, <1>4 DEF RunPush, HandInv, Goto, wireVars
    <2>2. /\ rtp_queue \o hand \in Seq(Nat) /\ Rising(rtp_queue \o hand)
          /\ ToSet(rtp_queue \o hand) = ToSet(rtp_queue) \cup ToSet(hand)
      BY <1>0, <2>1, Pushed
    <2>3. QED
      BY <1>3, <2>1, <2>2
  <1>5. ASSUME NEW ok \in BOOLEAN, LookupTransmit(ok)
        PROVE  [Carrying!Next]_carrierVars
    <2>1. Pop /\ UNCHANGED <<offered, discarded>>
      BY <1>5 DEF LookupTransmit, inputVars
    <2>2. CASE rtp_queue = <<>>
      BY <2>1, <2>2 DEF Pop, carrierVars
    <2>3. CASE rtp_queue # <<>>
      <3> DEFINE x == Head(rtp_queue)
      <3>1. wire' = Append(wire, x)
        BY <2>1, <2>3 DEF Pop
      <3>2. x \in ToSet(rtp_queue)
        BY <1>0, <2>3, HeadAndTail
      <3>3. x \in Carrying!OnTheWay
        BY <1>0, <3>2, QueuedOnTheWay
      <3> HIDE DEF x
      <3>4. \A S \in {Packets} : \A y \in S : x \in S /\ Carrying!HasArrived(y) => y < x
        BY <1>0, <3>2, Arrived DEF OrderInv, Parted, Below
      <3>5. Carrying!Arrive(x)
        BY <2>1, <3>1, <3>4 DEF Carrying!Arrive
      <3>6. QED
        BY <3>3, <3>5 DEF Carrying!Next
    <2>4. QED
      BY <2>2, <2>3
  <1>6. ASSUME NEW w \in 1..MaxWindow, NEW k \in 0..in_flight,
               NEW d \in 0..Len(rtp_queue),
               ReadFeedback(w, k, d)
        PROVE  [Carrying!Next]_carrierVars
    <2>1. Discard(rtp_queue, d) /\ UNCHANGED <<offered, wire>>
      BY <1>6 DEF ReadFeedback, inputVars, wireVars
    <2>2. Rising(rtp_queue)
      BY <1>0 DEF OrderInv
    <2>3. QED
      BY <1>0, <1>3, <2>1, <2>2
  <1>7. CASE UNCHANGED <<offered, own_queue, hand, queueVars, wireVars>>
    BY <1>7 DEF queueVars, wireVars, carrierVars
  <1>8. QED
    BY <1>1, <1>2, <1>4, <1>5, <1>6, <1>7, PathCases

\* The three threads, across stops and restarts, implement Carrier: each packet goes
\* out at most once and in its turn, and never after the controller has discarded it.
THEOREM CarriesMessages == Spec => CarrierSpec
  <1>1. Init => Carrying!Init
    <2>1. 1..0 = {}
      OBVIOUS
    <2>2. QED
      BY <2>1 DEF Init, Carrying!Init
  <1>2. IInv /\ [Next]_vars => [Carrying!Next]_carrierVars
    BY CarrierStep
  <1>3. QED
    BY <1>1, <1>2, Invariance, PTL DEF Spec, CarrierSpec, Carrying!Spec, carrierVars

=============================================================================
