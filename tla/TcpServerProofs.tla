-------------------------- MODULE TcpServerProofs --------------------------
(***************************************************************************)
(* Proofs about TcpServer, for any clients, messages and parts: the types, *)
(* who owns a descriptor, the order of what is written and of what is      *)
(* forwarded, that the writing of messages implements Carrier, and how far *)
(* the messages of two clients may be mixed.                               *)
(***************************************************************************)
EXTENDS TcpServer, NumberInduction, TLAPS

Parts   == [from : Clients, n : 1..MaxParts]
Pairs   == [head : Parts, tail : Parts]
Entries == [fd : Clients, msg : 0..MaxMessages, part : {"header", "body"}]

\* The read and the accept thread exist while run is between its start and its
\* joins; whoever loads client_fd has seen a client, which can be replaced but
\* does not go away.
ThreadInv ==
  /\ pc["run"] \in {"off", "spawn"} => pc["accept"] = "off"
  /\ pc["run"] \in {"notify", "joinRead", "done"} => pc["accept"] = "done"
  /\ pc["run"] \in {"loadHeader", "header", "headerWaits", "loadBody"} =>
       client_fd \in Clients
  /\ pc["read"] = "load" => client_fd \in Clients

\* accept's locals hold a descriptor exactly between the steps that set and
\* clear them, never the installed one; while a client is being installed the
\* error is known, and it is cleared only when the descriptor is ready.
OwnerInv ==
  /\ \A c \in Clients : peer[c] = "away" => fd[c] = "none"
  /\ ret # NoClient <=> pc["accept"] \in {"check", "refuse", "exchange"}
  /\ old # NoClient <=> pc["accept"] = "close"
  /\ ret # NoClient => ret # client_fd /\ fd[ret] = "accepted"
  /\ old # NoClient => old # client_fd
  /\ pc["accept"] \in {"exchange", "close", "timeout", "clear"} => client_error
  /\ pc["accept"] \in {"close", "timeout"} =>
       client_fd \in Clients /\ fd[client_fd] = "accepted"
  /\ pc["accept"] = "clear" => client_fd \in Clients /\ fd[client_fd] = "open"

FdInv == DescriptorsOwned /\ NoErrorMeansClient /\ OwnerInv

\* own_queue holds the last messages offered, and msg is an earlier one; what
\* was sent is no later than msg and of msg only the header, and not even that
\* while the header is yet to be sent.
SentInv ==
  /\ sent \in Seq(Entries)
  /\ Len(own_queue) + msg = offered
  /\ \A i \in 1..Len(own_queue) : own_queue[i] = offered - Len(own_queue) + i
  /\ \A i \in 1..Len(sent) :
       /\ sent[i].msg <= msg
       /\ pc["run"] \in {"check", "loadHeader", "header", "headerWaits"} =>
            sent[i].msg < msg
       /\ pc["run"] \in {"loadBody", "body", "bodyWaits"} =>
            sent[i].msg < msg \/ sent[i].part = "header"
  /\ WritesInOrder

\* What is forwarded has been received; what is in the buffer too, and after
\* everything forwarded from the same client.
PartInv ==
  /\ forwarded \in Seq(Pairs)
  /\ Len(buffer) <= 1
  /\ buffer # <<>> => buffer[1].n <= consumed[buffer[1].from]
  /\ \A i \in 1..Len(forwarded) :
       \A p \in {forwarded[i].head, forwarded[i].tail} :
         /\ p.n <= consumed[p.from]
         /\ buffer # <<>> /\ buffer[1].from = p.from => p.n < buffer[1].n
  /\ PartsForwardedOnce

IInv == TypeOK /\ ThreadInv /\ FdInv /\ SentInv /\ PartInv
-----------------------------------------------------------------------------
\* What a step leaves alone keeps its invariant.

LEMMA FdKept ==
  ASSUME FdInv, UNCHANGED <<client_fd, fd, ret, old>>, pc'["accept"] = pc["accept"],
         client_error' = client_error \/ client_error' = TRUE,
         \A c \in Clients : peer'[c] = "away" => peer[c] = "away"
  PROVE  FdInv'
  BY DEF FdInv, DescriptorsOwned, Held, NoErrorMeansClient, OwnerInv

LEMMA SentKept ==
  ASSUME SentInv, UNCHANGED <<offered, own_queue, msg, sent>>,
         \/ pc'["run"] = pc["run"]
         \/ pc'["run"] \notin {"check", "loadHeader", "header", "headerWaits",
                              "loadBody", "body", "bodyWaits"}
         \/ pc'["run"] = "loadHeader" /\ pc["run"] = "check"
         \/ pc'["run"] = "header" /\ pc["run"] = "loadHeader"
         \/ pc'["run"] = "body" /\ pc["run"] = "loadBody"
         \/ pc'["run"] = "headerWaits" /\ pc["run"] = "header"
         \/ pc'["run"] = "bodyWaits" /\ pc["run"] = "body"
  PROVE  SentInv'
  BY DEF SentInv, WritesInOrder

LEMMA PartKept ==
  ASSUME PartInv, UNCHANGED <<consumed, forwarded>>, buffer' = buffer \/ buffer' = <<>>
  PROVE  PartInv'
  BY DEF PartInv, PartsForwardedOnce

\* Sequences.
LEMMA HeadTail ==
  ASSUME NEW S, NEW q \in Seq(S), q # <<>>
  PROVE  /\ Head(q) \in S /\ Head(q) = q[1] /\ Tail(q) \in Seq(S)
         /\ Len(q) \in Nat \ {0} /\ Len(Tail(q)) = Len(q) - 1
         /\ \A i \in 1..Len(q) - 1 : Tail(q)[i] = q[i + 1]
  OBVIOUS

LEMMA Appended ==
  ASSUME NEW S, NEW q \in Seq(S), NEW e \in S
  PROVE  /\ Append(q, e) \in Seq(S) /\ Len(q) \in Nat
         /\ Len(Append(q, e)) = Len(q) + 1
         /\ \A i \in 1..Len(q) : Append(q, e)[i] = q[i]
         /\ Append(q, e)[Len(q) + 1] = e
  OBVIOUS

\* Each write is of a message.
LEMMA SentNumbers ==
  ASSUME SentInv
  PROVE  Len(sent) \in Nat /\ \A i \in 1..Len(sent) : sent[i].msg \in Nat
  <1>1. sent \in Seq(Entries)
    BY DEF SentInv
  <1>2. \A i \in 1..Len(sent) : sent[i] \in Entries
    BY <1>1
  <1>3. QED
    BY <1>1, <1>2 DEF Entries

\* pc changes at one thread.
LEMMA GotoTyped ==
  ASSUME TypeOK, NEW t \in Threads, NEW from, NEW to,
         to \in RunLabels \cup ReadLabels \cup AcceptLabels, Goto(t, from, to)
  PROVE  /\ pc[t] = from /\ pc'[t] = to
         /\ \A u \in Threads : u # t => pc'[u] = pc[u]
         /\ pc' \in [Threads -> RunLabels \cup ReadLabels \cup AcceptLabels]
  BY DEF Goto, TypeOK

-----------------------------------------------------------------------------
\* Before the first client all is in order.
LEMMA InitInv == Init => IInv
  <1> SUFFICES ASSUME Init PROVE IInv
    OBVIOUS
  <1>1. TypeOK
    <2>1. /\ pc \in [Threads -> RunLabels \cup ReadLabels \cup AcceptLabels]
          /\ pc["run"] = "off" /\ pc["read"] = "off" /\ pc["accept"] = "off"
      BY DEF Init, Threads, RunLabels
    <2>2. /\ offered \in 0..MaxMessages /\ msg \in 0..MaxMessages
          /\ produced \in [Clients -> 0..MaxParts] /\ consumed \in [Clients -> 0..MaxParts]
      BY BoundsAssumption DEF Init
    <2>3. own_queue \in Seq(1..MaxMessages) /\ buffer \in Seq(Parts)
      BY DEF Init
    <2>4. client_error \in BOOLEAN /\ stop_condition \in BOOLEAN
      BY Zenon DEF Init
    <2>5. /\ peer \in [Clients -> {"away", "up", "down"}]
          /\ fd \in [Clients -> {"none", "backlog", "accepted", "open", "closed"}]
      BY DEF Init
    <2>6. QED
      BY <2>1, <2>2, <2>3, <2>4, <2>5
         DEF Init, TypeOK, RunLabels, ReadLabels, AcceptLabels, Parts
  <1>2. ThreadInv
    BY DEF Init, ThreadInv, Threads
  <1>3. FdInv
    BY DEF Init, FdInv, DescriptorsOwned, Held, NoErrorMeansClient, OwnerInv, Threads
  <1>4. SentInv
    <2>1. sent = <<>> /\ own_queue = <<>> /\ offered = 0 /\ msg = 0
      BY DEF Init
    <2>2. QED
      BY <2>1 DEF SentInv, WritesInOrder
  <1>5. PartInv
    <2>1. forwarded = <<>> /\ buffer = <<>>
      BY DEF Init
    <2>2. PartsForwardedOnce
      BY <2>1 DEF PartsForwardedOnce
    <2>3. QED
      BY <2>1, <2>2 DEF PartInv
  <1>6. QED
    BY <1>1, <1>2, <1>3, <1>4, <1>5 DEF IInv

\* The main thread.
LEMMA MainStep == ASSUME IInv, Start \/ Stop \/ Join PROVE IInv'
  <1>1. /\ UNCHANGED <<clientVars, netVars, inputVars, runVars, readVars, acceptVars>>
        /\ main' \in {"stopped", "running", "joining"} /\ stop_condition' \in BOOLEAN
    BY DEF Start, Stop, Join, IInv, TypeOK
  <1>2. UNCHANGED <<client_fd, client_error, peer, fd, produced, offered, own_queue, msg,
                    send_fd, sent, consumed, recv_fd, buffer, forwarded, ret, old>>
    BY <1>1 DEF clientVars, netVars, inputVars, runVars, readVars, acceptVars
  <1>3. /\ pc' \in [Threads -> RunLabels \cup ReadLabels \cup AcceptLabels]
        /\ \/ pc' = pc
           \/ /\ pc'["run"] = "spawn" /\ pc["run"] = "off"
              /\ pc'["read"] = pc["read"] /\ pc'["accept"] = pc["accept"]
           \/ /\ pc["run"] = "done"
              /\ pc'["run"] = "off" /\ pc'["read"] = "off" /\ pc'["accept"] = "off"
    BY DEF Start, Stop, Join, Goto, IInv, TypeOK, Threads, RunLabels
  <1>4. TypeOK'
    <2>1. TypeOK
      BY DEF IInv
    <2>2. /\ pc'["run"] \in RunLabels /\ pc'["read"] \in ReadLabels
          /\ pc'["accept"] \in AcceptLabels
      BY <1>3, <2>1 DEF TypeOK, RunLabels, ReadLabels, AcceptLabels
    <2>3. /\ pc'["run"] \in {"header", "headerWaits", "body", "bodyWaits"} =>
               send_fd \in Clients
          /\ pc'["read"] \in {"recv", "recvForever"} => recv_fd \in Clients
      BY <1>3, <2>1 DEF TypeOK
    <2>4. QED
      BY <1>1, <1>2, <1>3, <2>1, <2>2, <2>3 DEF TypeOK
  <1>5. ThreadInv'
    BY <1>2, <1>3 DEF IInv, ThreadInv
  <1>6. FdInv'
    <2>1. CASE pc'["accept"] = pc["accept"]
      BY <1>2, <2>1, FdKept DEF IInv
    <2>2. CASE pc["run"] = "done" /\ pc'["accept"] = "off"
      BY <1>2, <2>2 DEF IInv, ThreadInv, FdInv, DescriptorsOwned, Held,
                        NoErrorMeansClient, OwnerInv
    <2>3. QED
      BY <1>3, <2>1, <2>2
  <1>7. SentInv' /\ PartInv'
    BY <1>2, <1>3, SentKept, PartKept DEF IInv
  <1>8. QED
    BY <1>4, <1>5, <1>6, <1>7 DEF IInv
\* The peers, and the block that fills own_queue.
LEMMA EnvironmentStep == ASSUME IInv, Environment PROVE IInv'
  <1>1. ASSUME Offer PROVE IInv'
    <2>1. /\ offered < MaxMessages /\ offered' = offered + 1
          /\ own_queue' = Append(own_queue, offered + 1)
          /\ UNCHANGED <<main, stop_condition, pc, client_fd, client_error, peer, fd,
                         produced, msg, send_fd, sent, consumed, recv_fd, buffer,
                         forwarded, ret, old>>
      BY <1>1 DEF Offer, mainVars, clientVars, netVars, runVars, readVars, acceptVars
    <2>2. /\ offered \in Nat /\ offered + 1 \in 1..MaxMessages /\ msg \in Nat
          /\ own_queue \in Seq(1..MaxMessages)
      BY <2>1, BoundsAssumption DEF IInv, TypeOK
    <2>3. own_queue' \in Seq(1..MaxMessages) /\ offered' \in 0..MaxMessages
      BY <2>1, <2>2
    <2>4. TypeOK'
      BY <2>1, <2>3 DEF IInv, TypeOK
    <2>5. ThreadInv' /\ FdInv' /\ PartInv'
      BY <2>1, FdKept, PartKept DEF IInv, ThreadInv
    <2>6. /\ Len(own_queue') + msg' = offered'
          /\ \A i \in 1..Len(own_queue') : own_queue'[i] = offered' - Len(own_queue') + i
      BY <2>1, <2>2 DEF IInv, SentInv
    <2>7. SentInv'
      BY <2>1, <2>6 DEF IInv, SentInv, WritesInOrder
    <2>8. QED
      BY <2>4, <2>5, <2>7 DEF IInv
  <1>2. ASSUME NEW c \in Clients, PeerConnect(c) \/ PeerSend(c) \/ PeerClose(c)
        PROVE  IInv'
    <2>1. UNCHANGED <<main, stop_condition, pc, client_fd, client_error, offered,
                      own_queue, msg, send_fd, sent, consumed, recv_fd, buffer,
                      forwarded, ret, old>>
      BY <1>2 DEF PeerConnect, PeerSend, PeerClose, mainVars, clientVars, inputVars,
                  runVars, readVars, acceptVars
    <2>2. /\ peer' \in [Clients -> {"away", "up", "down"}]
          /\ fd' \in [Clients -> {"none", "backlog", "accepted", "open", "closed"}]
          /\ \A d \in Clients : peer'[d] = "away" => peer[d] = "away" /\ fd'[d] = fd[d]
          /\ \A d \in Clients : fd'[d] = fd[d] \/ (fd[d] = "none" /\ fd'[d] = "backlog")
      <3>0. /\ peer \in [Clients -> {"away", "up", "down"}]
            /\ fd \in [Clients -> {"none", "backlog", "accepted", "open", "closed"}]
        BY DEF IInv, TypeOK
      <3>1. CASE PeerConnect(c)
        <4>1. fd[c] = "none"
          BY <3>1 DEF PeerConnect, IInv, FdInv, OwnerInv
        <4>2. /\ peer' = [peer EXCEPT ![c] = "up"] /\ fd' = [fd EXCEPT ![c] = "backlog"]
          BY <3>1 DEF PeerConnect
        <4>3. QED
          BY <3>0, <4>1, <4>2
      <3>2. CASE PeerSend(c)
        BY <3>0, <3>2 DEF PeerSend
      <3>3. CASE PeerClose(c)
        <4>1. peer[c] = "up" /\ peer' = [peer EXCEPT ![c] = "down"] /\ fd' = fd
          BY <3>3 DEF PeerClose
        <4>2. QED
          BY <3>0, <4>1
      <3>4. QED
        BY <1>2, <3>1, <3>2, <3>3
    <2>3. produced' \in [Clients -> 0..MaxParts]
      <3>1. CASE PeerSend(c)
        <4>1. produced[c] + 1 \in 0..MaxParts
          BY <3>1, BoundsAssumption DEF PeerSend, IInv, TypeOK
        <4>2. QED
          BY <3>1, <4>1 DEF PeerSend, IInv, TypeOK
      <3>2. CASE ~PeerSend(c)
        BY <1>2, <3>2 DEF PeerConnect, PeerClose, IInv, TypeOK
      <3>3. QED
        BY <3>1, <3>2
    <2>4. TypeOK'
      BY <2>1, <2>2, <2>3 DEF IInv, TypeOK
    <2>5. ThreadInv' /\ SentInv' /\ PartInv'
      BY <2>1, SentKept, PartKept DEF IInv, ThreadInv
    <2>6. FdInv'
      <3>1. DescriptorsOwned' /\ NoErrorMeansClient'
        BY <2>1, <2>2 DEF IInv, FdInv, DescriptorsOwned, Held, NoErrorMeansClient
      <3>2. ret # NoClient => ret \in Clients
        BY DEF IInv, TypeOK
      <3>3. OwnerInv'
        BY <2>1, <2>2, <3>2 DEF IInv, FdInv, OwnerInv
      <3>4. QED
        BY <3>1, <3>3 DEF FdInv
    <2>7. QED
      BY <2>4, <2>5, <2>6 DEF IInv
  <1>3. QED
    BY <1>1, <1>2 DEF Environment

\* Where run goes on, and at most learns of an error, nothing else is at stake.
LEMMA RunMoves ==
  ASSUME IInv, NEW from, NEW to \in RunLabels, Goto("run", from, to),
         client_error' = client_error \/ client_error' = TRUE,
         UNCHANGED <<main, stop_condition, client_fd, peer, fd, produced, offered,
                     own_queue, msg, sent, consumed, recv_fd, buffer, forwarded, ret,
                     old>>,
         send_fd' \in Clients \cup {NoClient},
         to \in {"header", "headerWaits", "body", "bodyWaits"} => send_fd' \in Clients,
         from \notin {"off", "spawn"}, to \notin {"off", "spawn"},
         from \in {"notify", "joinRead", "done"} \/ to \notin {"joinRead", "done"},
         to = "notify" => pc["accept"] = "done",
         to = "loadHeader" => ~client_error /\ from = "check",
         to = "header" => from = "loadHeader",
         to = "body" => from = "loadBody",
         to = "headerWaits" => from = "header",
         to = "bodyWaits" => from = "body",
         to \notin {"check", "loadBody"}
  PROVE  IInv'
  <1>1. /\ pc["run"] = from /\ pc'["run"] = to
        /\ pc'["read"] = pc["read"] /\ pc'["accept"] = pc["accept"]
        /\ pc' \in [Threads -> RunLabels \cup ReadLabels \cup AcceptLabels]
    BY GotoTyped DEF IInv, Threads
  <1>2. TypeOK'
    <2>1. client_error' \in BOOLEAN
      BY DEF IInv, TypeOK
    <2>2. QED
      BY <1>1, <2>1 DEF IInv, TypeOK
  <1>3. ThreadInv'
    BY <1>1 DEF IInv, ThreadInv, FdInv, NoErrorMeansClient
  <1>4. FdInv' /\ PartInv'
    BY <1>1, FdKept, PartKept DEF IInv
  <1>5. SentInv'
    BY <1>1, SentKept DEF IInv
  <1>6. QED
    BY <1>2, <1>3, <1>4, <1>5 DEF IInv
\* run takes a message; it is later than whatever was sent.
LEMMA DequeueStep == ASSUME IInv, RunDequeue PROVE IInv'
  <1>1. /\ Goto("run", "dequeue", "check")
        /\ own_queue # <<>> /\ msg' = Head(own_queue) /\ own_queue' = Tail(own_queue)
        /\ UNCHANGED <<main, stop_condition, client_fd, client_error, peer, fd, produced,
                       offered, send_fd, sent, consumed, recv_fd, buffer, forwarded, ret,
                       old>>
    BY DEF RunDequeue, mainVars, clientVars, netVars, readVars, acceptVars
  <1>2. /\ pc["run"] = "dequeue" /\ pc'["run"] = "check"
        /\ pc'["read"] = pc["read"] /\ pc'["accept"] = pc["accept"]
        /\ pc' \in [Threads -> RunLabels \cup ReadLabels \cup AcceptLabels]
    BY <1>1, GotoTyped DEF IInv, Threads, RunLabels
  <1>3. /\ own_queue \in Seq(1..MaxMessages) /\ Len(own_queue) \in Nat \ {0}
        /\ offered \in Nat /\ msg \in Nat
    BY <1>1 DEF IInv, TypeOK
  <1> DEFINE m == Head(own_queue)
  <1>4. /\ m \in 1..MaxMessages /\ m = own_queue[1]
        /\ own_queue' \in Seq(1..MaxMessages)
        /\ Len(own_queue') = Len(own_queue) - 1
        /\ \A i \in 1..Len(own_queue) - 1 : own_queue'[i] = own_queue[i + 1]
    BY <1>1, <1>3, HeadTail
  <1>5. TypeOK'
    <2>1. m \in 0..MaxMessages
      BY <1>4, BoundsAssumption
    <2>2. QED
      BY <1>1, <1>2, <1>4, <2>1 DEF IInv, TypeOK, RunLabels
  <1>6. ThreadInv' /\ FdInv' /\ PartInv'
    BY <1>1, <1>2, FdKept, PartKept DEF IInv, ThreadInv
  <1>7. SentInv'
    <2>1. /\ m = offered - Len(own_queue) + 1 /\ msg < m
          /\ Len(own_queue) - 1 + m = offered
      BY <1>3, <1>4 DEF IInv, SentInv
    <2>2. \A i \in 1..Len(own_queue) - 1 :
            own_queue'[i] = offered - (Len(own_queue) - 1) + i
      BY <1>3, <1>4 DEF IInv, SentInv
    <2>3. ASSUME NEW i \in 1..Len(sent) PROVE sent[i].msg < m /\ sent[i].msg <= m
      <3>1. sent[i].msg <= msg /\ sent[i].msg \in Nat /\ m \in Nat
        BY <1>4, SentNumbers DEF IInv, SentInv
      <3>2. QED
        BY <1>3, <2>1, <3>1
    <2>4. QED
      BY <1>1, <1>2, <1>4, <2>1, <2>2, <2>3 DEF IInv, SentInv, WritesInOrder
  <1>8. QED
    BY <1>5, <1>6, <1>7 DEF IInv

\* run writes the header or the body of its message.
LEMMA SendStep ==
  ASSUME IInv,
         \/ RunSend("header", "header", "loadBody") \/ RunSend("body", "body", "top")
         \/ RunGoesOn
  PROVE  IInv'
  <1>1. PICK part \in {"header", "body"},
             from \in {"header", "headerWaits", "body", "bodyWaits"} :
          /\ Goto("run", from, IF part = "header" THEN "loadBody" ELSE "top")
          /\ from \in {"header", "headerWaits"} <=> part = "header"
          /\ sent' = Append(sent, [fd |-> send_fd, msg |-> msg, part |-> part])
          /\ send_fd' = NoClient
          /\ UNCHANGED <<main, stop_condition, client_fd, client_error, peer, fd, produced,
                         offered, own_queue, msg, consumed, recv_fd, buffer, forwarded,
                         ret, old>>
    <2> DEFINE Writes(part, from) ==
          /\ Goto("run", from, IF part = "header" THEN "loadBody" ELSE "top")
          /\ from \in {"header", "headerWaits"} <=> part = "header"
          /\ sent' = Append(sent, [fd |-> send_fd, msg |-> msg, part |-> part])
          /\ send_fd' = NoClient
          /\ UNCHANGED <<main, stop_condition, client_fd, client_error, peer, fd, produced,
                         offered, own_queue, msg, consumed, recv_fd, buffer, forwarded,
                         ret, old>>
    <2>1. ASSUME NEW part \in {"header", "body"},
                 NEW from \in {"header", "headerWaits", "body", "bodyWaits"},
                 from \in {"header", "headerWaits"} <=> part = "header",
                 RunSend(from, part, IF part = "header" THEN "loadBody" ELSE "top")
          PROVE  Writes(part, from)
      BY <2>1 DEF RunSend, mainVars, clientVars, netVars, inputVars, readVars, acceptVars
    <2>2. \E part \in {"header", "body"},
             from \in {"header", "headerWaits", "body", "bodyWaits"} : Writes(part, from)
      BY <2>1 DEF RunGoesOn
    <2>3. QED
      BY <2>2
  <1> DEFINE entry == [fd |-> send_fd, msg |-> msg, part |-> part]
  <1>2. /\ pc["run"] = from
        /\ pc'["run"] = IF part = "header" THEN "loadBody" ELSE "top"
        /\ pc'["read"] = pc["read"] /\ pc'["accept"] = pc["accept"]
        /\ pc' \in [Threads -> RunLabels \cup ReadLabels \cup AcceptLabels]
    BY <1>1, GotoTyped DEF IInv, Threads, RunLabels
  <1>3. TypeOK'
    BY <1>1, <1>2 DEF IInv, TypeOK, RunLabels
  <1>4. ThreadInv' /\ FdInv' /\ PartInv'
    BY <1>1, <1>2, FdKept, PartKept DEF IInv, ThreadInv
  <1>5. SentInv'
    <2>1. entry \in Entries /\ sent \in Seq(Entries)
      BY <1>1, <1>2 DEF IInv, TypeOK, SentInv, Entries
    <2>2. /\ sent' \in Seq(Entries) /\ 1..Len(sent') = 1..Len(sent) + 1
          /\ \A i \in 1..Len(sent) : sent'[i] = sent[i]
          /\ sent'[Len(sent) + 1] = entry
      <3>1. sent' = Append(sent, entry)
        BY <1>1
      <3>2. QED
        BY <2>1, <3>1, Appended
    <2>3. msg \in Nat /\ Len(sent) \in Nat /\ (\A i \in 1..Len(sent) : sent[i].msg \in Nat)
      BY SentNumbers DEF IInv, TypeOK
    <2>4. ASSUME NEW i \in 1..Len(sent)
          PROVE  \/ sent[i].msg < msg
                 \/ sent[i].msg = msg /\ sent[i].part = "header" /\ part = "body"
      BY <1>1, <1>2, <2>3 DEF IInv, SentInv
    <2>5. WritesInOrder'
      <3> SUFFICES ASSUME NEW i \in 1..Len(sent) + 1, NEW j \in 1..Len(sent) + 1, i < j
                   PROVE  \/ sent'[i].msg < sent'[j].msg
                          \/ /\ sent'[i].msg = sent'[j].msg
                             /\ sent'[i].part = "header" /\ sent'[j].part = "body"
        BY <2>2 DEF WritesInOrder
      <3>1. CASE j = Len(sent) + 1
        <4>1. i \in 1..Len(sent)
          BY <2>2, <2>3, <3>1
        <4>2. QED
          BY <2>2, <2>4, <3>1, <4>1
      <3>2. CASE j # Len(sent) + 1
        <4>1. i \in 1..Len(sent) /\ j \in 1..Len(sent)
          BY <2>2, <2>3, <3>2
        <4>2. QED
          BY <2>2, <4>1 DEF IInv, SentInv, WritesInOrder
      <3>3. QED
        BY <3>1, <3>2
    <2>6. \A i \in 1..Len(sent') :
            /\ sent'[i].msg <= msg
            /\ part = "header" => sent'[i].msg < msg \/ sent'[i].part = "header"
      <3> SUFFICES ASSUME NEW i \in 1..Len(sent) + 1
                   PROVE  /\ sent'[i].msg <= msg
                          /\ part = "header" =>
                               sent'[i].msg < msg \/ sent'[i].part = "header"
        BY <2>2
      <3>1. CASE i = Len(sent) + 1
        BY <2>2, <2>3, <3>1
      <3>2. CASE i \in 1..Len(sent)
        BY <2>2, <2>3, <2>4, <3>2
      <3>3. QED
        BY <2>2, <2>3, <3>1, <3>2
    <2>7. QED
      BY <1>1, <1>2, <2>2, <2>5, <2>6 DEF IInv, SentInv
  <1>6. QED
    BY <1>3, <1>4, <1>5 DEF IInv

LEMMA RunStep == ASSUME IInv, Run PROVE IInv'
  <1>1. CASE RunSpawn
    <2>1. /\ pc["run"] = "spawn" /\ pc' = [t \in Threads |-> "top"] /\ buffer' = <<>>
          /\ UNCHANGED <<main, stop_condition, client_fd, client_error, peer, fd, produced,
                         offered, own_queue, msg, send_fd, sent, consumed, recv_fd,
                         forwarded, ret, old>>
      BY <1>1 DEF RunSpawn, mainVars, clientVars, netVars, inputVars, runVars, acceptVars
    <2>2. /\ pc'["run"] = "top" /\ pc'["read"] = "top" /\ pc'["accept"] = "top"
          /\ pc' \in [Threads -> RunLabels \cup ReadLabels \cup AcceptLabels]
          /\ pc["accept"] = "off"
      BY <2>1 DEF Threads, RunLabels, IInv, ThreadInv
    <2>3. buffer' \in Seq(Parts)
      BY <2>1
    <2>4. TypeOK'
      BY <2>1, <2>2, <2>3 DEF IInv, TypeOK, Parts, RunLabels, ReadLabels, AcceptLabels
    <2>5. ThreadInv' /\ SentInv' /\ PartInv'
      BY <2>1, <2>2, SentKept, PartKept DEF IInv, ThreadInv
    <2>6. FdInv'
      BY <2>1, <2>2
         DEF IInv, FdInv, DescriptorsOwned, Held, NoErrorMeansClient, OwnerInv
    <2>7. QED
      BY <2>4, <2>5, <2>6 DEF IInv
  <1>2. CASE RunNotify
    <2>1. /\ pc["run"] = "notify" /\ pc' = Notified([pc EXCEPT !["run"] = "joinRead"])
          /\ UNCHANGED <<main, stop_condition, client_fd, client_error, peer, fd, produced,
                         offered, own_queue, msg, send_fd, sent, consumed, recv_fd,
                         buffer, forwarded, ret, old>>
      BY <1>2 DEF RunNotify, mainVars, clientVars, netVars, inputVars, runVars, readVars,
                  acceptVars
    <2>2. /\ pc'["run"] = "joinRead" /\ pc'["accept"] = pc["accept"]
          /\ pc'["read"] \in ReadLabels
          /\ \/ pc'["read"] = pc["read"]
             \/ pc["read"] = "waiting" /\ pc'["read"] = "predicate"
          /\ pc' \in [Threads -> RunLabels \cup ReadLabels \cup AcceptLabels]
      BY <2>1 DEF Notified, IInv, TypeOK, Threads, RunLabels, ReadLabels
    <2>3. TypeOK'
      BY <2>1, <2>2 DEF IInv, TypeOK, RunLabels
    <2>4. ThreadInv' /\ FdInv' /\ SentInv' /\ PartInv'
      BY <2>1, <2>2, FdKept, SentKept, PartKept DEF IInv, ThreadInv
    <2>5. QED
      BY <2>3, <2>4 DEF IInv
  <1>3. CASE RunTop \/ RunTimeout \/ RunCheck \/ RunReport \/ RunJoinAccept \/ RunJoinRead
    <2>1. PICK from \in {"top", "dequeue", "check", "failed", "joinAccept", "joinRead"},
               to \in {"top", "joinAccept", "dequeue", "loadHeader", "notify", "done"} :
            /\ Goto("run", from, to)
            /\ client_error' = client_error \/ client_error' = TRUE
            /\ to = "done" => from = "joinRead"
            /\ to = "notify" => pc["accept"] = "done"
            /\ to = "loadHeader" => ~client_error /\ from = "check"
            /\ UNCHANGED <<main, stop_condition, client_fd, peer, fd, produced, offered,
                           own_queue, msg, send_fd, sent, consumed, recv_fd, buffer,
                           forwarded, ret, old>>
      <3>1. CASE RunTop
        BY <3>1 DEF RunTop, Move, mainVars, clientVars, netVars, inputVars, runVars,
                    readVars, acceptVars
      <3>2. CASE RunTimeout
        BY <3>2 DEF RunTimeout, Move, mainVars, clientVars, netVars, inputVars, runVars,
                    readVars, acceptVars
      <3>3. CASE RunCheck
        BY <3>3 DEF RunCheck, Move, mainVars, clientVars, netVars, inputVars, runVars,
                    readVars, acceptVars
      <3>4. CASE RunReport
        BY <3>4 DEF RunReport, Report, mainVars, netVars, inputVars, runVars, readVars,
                    acceptVars
      <3>5. CASE RunJoinAccept
        BY <3>5 DEF RunJoinAccept, Move, mainVars, clientVars, netVars, inputVars,
                    runVars, readVars, acceptVars
      <3>6. CASE RunJoinRead
        BY <3>6 DEF RunJoinRead, Move, mainVars, clientVars, netVars, inputVars, runVars,
                    readVars, acceptVars
      <3>7. QED
        BY <1>3, <3>1, <3>2, <3>3, <3>4, <3>5, <3>6
    <2>2. send_fd' \in Clients \cup {NoClient} /\ to \in RunLabels
      BY <2>1 DEF IInv, TypeOK, RunLabels
    <2>3. QED
      BY <2>1, <2>2, RunMoves
  <1>4. CASE RunLoad("loadHeader", "header") \/ RunLoad("loadBody", "body")
    <2>1. PICK from \in {"loadHeader", "loadBody"}, to \in {"header", "body"} :
            /\ Goto("run", from, to) /\ send_fd' = client_fd
            /\ from = "loadHeader" <=> to = "header"
            /\ UNCHANGED <<main, stop_condition, client_fd, client_error, peer, fd,
                           produced, offered, own_queue, msg, sent, consumed, recv_fd,
                           buffer, forwarded, ret, old>>
      BY <1>4 DEF RunLoad, mainVars, clientVars, netVars, inputVars, readVars, acceptVars
    <2>2. send_fd' \in Clients /\ to \in RunLabels
      BY <2>1 DEF IInv, ThreadInv, Goto, RunLabels
    <2>3. QED
      BY <2>1, <2>2, RunMoves
  <1>5. CASE \E call \in {"header", "body", "headerWaits", "bodyWaits"} : RunSendFails(call)
    <2>1. PICK from \in {"header", "body", "headerWaits", "bodyWaits"} :
            /\ Goto("run", from, "failed") /\ send_fd' = NoClient
            /\ UNCHANGED <<main, stop_condition, client_fd, client_error, peer, fd,
                           produced, offered, own_queue, msg, sent, consumed, recv_fd,
                           buffer, forwarded, ret, old>>
      BY <1>5 DEF RunSendFails, mainVars, clientVars, netVars, inputVars, readVars,
                  acceptVars
    <2>2. "failed" \in RunLabels
      BY DEF RunLabels
    <2>3. QED
      BY <2>1, <2>2, RunMoves
  <1>6. CASE RunSendWaits("header", "headerWaits") \/ RunSendWaits("body", "bodyWaits")
    <2>1. PICK from \in {"header", "body"}, to \in {"headerWaits", "bodyWaits"} :
            /\ Goto("run", from, to)
            /\ from = "header" <=> to = "headerWaits"
            /\ UNCHANGED <<main, stop_condition, client_fd, client_error, peer, fd,
                           produced, offered, own_queue, msg, send_fd, sent, consumed,
                           recv_fd, buffer, forwarded, ret, old>>
      BY <1>6 DEF RunSendWaits, Move, mainVars, clientVars, netVars, inputVars, runVars,
                  readVars, acceptVars
    <2>2. send_fd' \in Clients /\ to \in RunLabels
      BY <2>1 DEF IInv, TypeOK, Goto, RunLabels
    <2>3. QED
      BY <2>1, <2>2, RunMoves
  <1>7. QED
    BY <1>1, <1>2, <1>3, <1>4, <1>5, <1>6, DequeueStep, SendStep DEF Run, RunHeader, RunBody
-----------------------------------------------------------------------------
\* read.

\* The vars of the other threads are not read's to change.
LEMMA ReadMoves ==
  ASSUME IInv, NEW from, NEW to \in ReadLabels, Goto("read", from, to),
         client_error' = client_error \/ client_error' = TRUE,
         UNCHANGED <<main, stop_condition, client_fd, peer, fd, produced, offered,
                     own_queue, msg, send_fd, sent, consumed, buffer, forwarded, ret,
                     old>>,
         recv_fd' \in Clients \cup {NoClient},
         to \in {"recv", "recvForever"} => recv_fd' \in Clients,
         to = "load" => ~client_error
  PROVE  IInv'
  <1>1. /\ pc["read"] = from /\ pc'["read"] = to
        /\ pc'["run"] = pc["run"] /\ pc'["accept"] = pc["accept"]
        /\ pc' \in [Threads -> RunLabels \cup ReadLabels \cup AcceptLabels]
    BY GotoTyped DEF IInv, Threads
  <1>2. TypeOK'
    <2>1. client_error' \in BOOLEAN
      BY DEF IInv, TypeOK
    <2>2. QED
      BY <1>1, <2>1 DEF IInv, TypeOK
  <1>3. ThreadInv'
    BY <1>1 DEF IInv, ThreadInv, FdInv, NoErrorMeansClient
  <1>4. FdInv' /\ SentInv' /\ PartInv'
    BY <1>1, FdKept, SentKept, PartKept DEF IInv
  <1>5. QED
    BY <1>2, <1>3, <1>4 DEF IInv

\* The parts of what was forwarded, in order, as the property lists them.
PartAt(f, i) == IF i % 2 = 1 THEN f[(i + 1) \div 2].head ELSE f[i \div 2].tail

\* The next part keeps all that has been forwarded in order.
LEMMA ReceiveStep ==
  ASSUME IInv, NEW call \in {"recv", "recvForever"}, ReadRecv(call) PROVE IInv'
  <1> DEFINE c == recv_fd
             part == [from |-> c, n |-> consumed[c] + 1]
             pair == [head |-> buffer[1], tail |-> part]
             L == Len(forwarded)
  <1>1. /\ Goto("read", call, "top")
        /\ consumed[c] < produced[c]
        /\ consumed' = [consumed EXCEPT ![c] = @ + 1]
        /\ buffer' = IF buffer = <<>> /\ IsHead(part) THEN <<part>> ELSE <<>>
        /\ forwarded' = IF buffer = <<>> THEN forwarded ELSE Append(forwarded, pair)
        /\ recv_fd' = NoClient
        /\ UNCHANGED <<main, stop_condition, client_fd, client_error, peer, fd, produced,
                       offered, own_queue, msg, send_fd, sent, ret, old>>
    BY DEF ReadRecv, mainVars, clientVars, netVars, inputVars, runVars, acceptVars
  <1>2. /\ pc["read"] = call /\ pc'["read"] = "top"
        /\ pc'["run"] = pc["run"] /\ pc'["accept"] = pc["accept"]
        /\ pc' \in [Threads -> RunLabels \cup ReadLabels \cup AcceptLabels]
    BY <1>1, GotoTyped DEF IInv, Threads, ReadLabels
  <1>3. /\ c \in Clients /\ consumed \in [Clients -> 0..MaxParts]
        /\ produced \in [Clients -> 0..MaxParts]
        /\ buffer \in Seq(Parts) /\ forwarded \in Seq(Pairs)
    BY <1>2 DEF IInv, TypeOK, PartInv, Parts
  <1>4. consumed[c] \in Nat /\ consumed[c] + 1 \in 1..MaxParts
    BY <1>1, <1>3, BoundsAssumption
  <1>5. part \in Parts /\ (buffer # <<>> => buffer[1] \in Parts /\ Len(buffer) = 1)
    <2>1. part \in Parts
      BY <1>3, <1>4 DEF Parts
    <2>2. ASSUME buffer # <<>> PROVE buffer[1] \in Parts /\ Len(buffer) = 1
      <3>1. buffer[1] \in Parts /\ Len(buffer) \in Nat \ {0}
        BY <1>3, <2>2, HeadTail
      <3>2. Len(buffer) <= 1
        BY DEF IInv, PartInv
      <3>3. \A k \in Nat \ {0} : k <= 1 => k = 1
        OBVIOUS
      <3>4. Len(buffer) = 1
        BY <3>1, <3>2, <3>3, Zenon
      <3>5. QED
        BY <3>1, <3>4, Zenon
    <2>3. QED
      BY <2>1, <2>2
  <1>6. TypeOK'
    <2>1. consumed' \in [Clients -> 0..MaxParts]
      BY <1>1, <1>3, <1>4
    <2>2. buffer' \in Seq(Parts)
      BY <1>1, <1>5
    <2>3. QED
      BY <1>1, <1>2, <2>1, <2>2 DEF IInv, TypeOK, ReadLabels, Parts
  <1>7. ThreadInv' /\ FdInv' /\ SentInv'
    BY <1>1, <1>2, FdKept, SentKept DEF IInv, ThreadInv
  <1>8. \A d \in Clients : /\ consumed'[d] = IF d = c THEN consumed[c] + 1 ELSE consumed[d]
                           /\ consumed[d] \in Nat
    BY <1>1, <1>3
  <1> DEFINE Seen(d, n) == n <= consumed'[d]
  <1>12. /\ \A d \in Clients, n \in Nat : n <= consumed[d] => Seen(d, n)
         /\ Seen(c, consumed[c] + 1)
    BY <1>3, <1>4, <1>8
  <1>9. ASSUME NEW i \in 1..L, NEW p \in {forwarded[i].head, forwarded[i].tail}
        PROVE  /\ p \in Parts /\ p.from \in Clients /\ p.n \in Nat
               /\ p.n <= consumed[p.from]
               /\ buffer # <<>> /\ buffer[1].from = p.from => p.n < buffer[1].n
    <2>1. forwarded[i] \in Pairs
      BY <1>3
    <2>2. p \in Parts
      BY <2>1 DEF Pairs
    <2>3. QED
      BY <2>2 DEF Parts, IInv, PartInv
  <1>10. PartInv'
    <2>1. CASE buffer = <<>>
      <3>1. forwarded' = forwarded
        BY <1>1, <2>1
      <3>2. /\ PartsForwardedOnce' /\ forwarded' \in Seq(Pairs)
        BY <3>1 DEF IInv, PartInv, PartsForwardedOnce
      <3>3. CASE IsHead(part)
        <4>1. buffer' = <<part>>
          BY <1>1, <2>1, <3>3
        <4>2. ASSUME NEW i \in 1..L, NEW p \in {forwarded[i].head, forwarded[i].tail}
              PROVE  p.n <= consumed'[p.from] /\ (part.from = p.from => p.n < part.n)
          BY <1>4, <1>12, <1>9
        <4>3. part.n <= consumed'[part.from]
          BY <1>12
        <4>4. QED
          BY <3>1, <3>2, <4>1, <4>2, <4>3 DEF PartInv
      <3>4. CASE ~IsHead(part)
        <4>1. buffer' = <<>>
          BY <1>1, <3>4
        <4>2. ASSUME NEW i \in 1..L, NEW p \in {forwarded[i].head, forwarded[i].tail}
              PROVE  p.n <= consumed'[p.from]
          BY <1>12, <1>9
        <4>3. QED
          BY <3>1, <3>2, <4>1, <4>2 DEF PartInv
      <3>5. QED
        BY <3>3, <3>4
    <2>2. CASE buffer # <<>>
      <3> DEFINE h == buffer[1]
      <3>1. /\ buffer' = <<>> /\ forwarded' = Append(forwarded, pair)
            /\ pair \in Pairs /\ pair.head = h /\ pair.tail = part
        BY <1>1, <1>5, <2>2 DEF Pairs
      <3>2. /\ forwarded' \in Seq(Pairs) /\ L \in Nat
            /\ Len(forwarded') = L + 1
            /\ \A i \in 1..L : forwarded'[i] = forwarded[i]
            /\ forwarded'[L + 1] = pair
        BY <1>3, <3>1, Appended
      <3>3. /\ h.from \in Clients /\ h.n \in Nat /\ h.n <= consumed[h.from]
            /\ part.from = c /\ part.n = consumed[c] + 1
        BY <1>5, <2>2 DEF Parts, IInv, PartInv
      <3>4. ASSUME NEW i \in 1..L, NEW p \in {forwarded[i].head, forwarded[i].tail}
            PROVE  /\ p.n <= consumed'[p.from]
                   /\ p.from = h.from => p.n < h.n
                   /\ p.from = part.from => p.n < part.n
        BY <1>4, <1>12, <1>9, <2>2, <3>3
      <3>5. /\ h.n <= consumed'[h.from] /\ part.n <= consumed'[part.from]
            /\ h.from = part.from => h.n < part.n
        BY <1>4, <1>12, <3>3
      <3>6. ASSUME NEW i \in 1..L + 1, NEW p \in {forwarded'[i].head, forwarded'[i].tail}
            PROVE  p.n <= consumed'[p.from]
        <4>1. CASE i = L + 1
          BY <3>1, <3>2, <3>5, <3>6, <4>1
        <4>2. CASE i \in 1..L
          BY <3>2, <3>4, <3>6, <4>2
        <4>3. QED
          BY <3>2, <4>1, <4>2
      <3>7. PartsForwardedOnce'
        <4>1. ASSUME NEW i \in 1..2 * L, NEW j \in 1..2 * L, i < j,
                     PartAt(forwarded, i).from = PartAt(forwarded, j).from
              PROVE  PartAt(forwarded, i).n < PartAt(forwarded, j).n
          BY <4>1 DEF IInv, PartInv, PartsForwardedOnce, PartAt
        <4>2. /\ \A i \in 1..2 * L : /\ PartAt(forwarded', i) = PartAt(forwarded, i)
                                     /\ \E k \in 1..L : PartAt(forwarded, i) \in
                                          {forwarded[k].head, forwarded[k].tail}
              /\ PartAt(forwarded', 2 * L + 1) = h
              /\ PartAt(forwarded', 2 * L + 2) = part
          <5>1. ASSUME NEW i \in 1..2 * L
                PROVE  /\ i % 2 = 1 => (i + 1) \div 2 \in 1..L
                       /\ i % 2 # 1 => i \div 2 \in 1..L
            BY <3>2
          <5>2. /\ (2 * L + 1) % 2 = 1 /\ (2 * L + 1 + 1) \div 2 = L + 1
                /\ (2 * L + 2) % 2 # 1 /\ (2 * L + 2) \div 2 = L + 1
            BY <3>2
          <5>3. QED
            BY <3>1, <3>2, <5>1, <5>2 DEF PartAt
        <4>3. ASSUME NEW i \in 1..2 * L + 2, NEW j \in 1..2 * L + 2, i < j,
                     PartAt(forwarded', i).from = PartAt(forwarded', j).from
              PROVE  PartAt(forwarded', i).n < PartAt(forwarded', j).n
          <5>1. CASE i \in 1..2 * L /\ j \in 1..2 * L
            BY <4>1, <4>2, <4>3, <5>1
          <5>2. CASE i \in 1..2 * L /\ j \in {2 * L + 1, 2 * L + 2}
            BY <3>4, <4>2, <4>3, <5>2
          <5>3. CASE i = 2 * L + 1 /\ j = 2 * L + 2
            BY <3>5, <4>2, <4>3, <5>3
          <5>4. QED
            BY <3>2, <4>3, <5>1, <5>2, <5>3
        <4>4. 2 * Len(forwarded') = 2 * L + 2
          BY <3>2
        <4>5. QED
          BY <4>3, <4>4 DEF PartsForwardedOnce, PartAt
      <3>8. QED
        BY <3>1, <3>2, <3>6, <3>7 DEF PartInv
    <2>3. QED
      BY <2>1, <2>2
  <1>11. QED
    BY <1>6, <1>7, <1>10 DEF IInv
LEMMA ReadStep == ASSUME IInv, Read \/ ReadSpuriousWakeup PROVE IInv'
  <1>1. CASE \/ ReadTop \/ ReadCheck \/ ReadPredicate \/ ReadBlock \/ ReadReport
             \/ ReadSpuriousWakeup
    <2>1. PICK from, to \in {"top", "done", "check", "predicate", "load", "block",
                             "waiting", "failed"} :
            /\ Goto("read", from, to)
            /\ client_error' = client_error \/ client_error' = TRUE
            /\ to = "load" => ~client_error
            /\ UNCHANGED <<main, stop_condition, client_fd, peer, fd, produced, offered,
                           own_queue, msg, send_fd, sent, consumed, recv_fd, buffer,
                           forwarded, ret, old>>
      <3>1. CASE ReadTop
        BY <3>1 DEF ReadTop, Move, mainVars, clientVars, netVars, inputVars, runVars,
                    readVars, acceptVars
      <3>2. CASE ReadCheck
        BY <3>2 DEF ReadCheck, Move, mainVars, clientVars, netVars, inputVars, runVars,
                    readVars, acceptVars
      <3>3. CASE ReadPredicate
        BY <3>3 DEF ReadPredicate, Move, mainVars, clientVars, netVars, inputVars,
                    runVars, readVars, acceptVars
      <3>4. CASE ReadBlock
        BY <3>4 DEF ReadBlock, Move, mainVars, clientVars, netVars, inputVars, runVars,
                    readVars, acceptVars
      <3>5. CASE ReadReport
        BY <3>5 DEF ReadReport, Report, mainVars, netVars, inputVars, runVars, readVars,
                    acceptVars
      <3>6. CASE ReadSpuriousWakeup
        BY <3>6 DEF ReadSpuriousWakeup, Move, mainVars, clientVars, netVars, inputVars,
                    runVars, readVars, acceptVars
      <3>7. QED
        BY <1>1, <3>1, <3>2, <3>3, <3>4, <3>5, <3>6
    <2>2. recv_fd' \in Clients \cup {NoClient} /\ to \in ReadLabels
      BY <2>1 DEF IInv, TypeOK, ReadLabels
    <2>3. QED
      BY <2>1, <2>2, ReadMoves
  <1>2. ASSUME NEW call \in {"recv", "recvForever"}, ReadLoad(call) PROVE IInv'
    <2>1. /\ Goto("read", "load", call) /\ recv_fd' = client_fd
          /\ UNCHANGED <<main, stop_condition, client_fd, client_error, peer, fd, produced,
                         offered, own_queue, msg, send_fd, sent, consumed, buffer,
                         forwarded, ret, old>>
      BY <1>2 DEF ReadLoad, mainVars, clientVars, netVars, inputVars, runVars, acceptVars
    <2>2. recv_fd' \in Clients /\ call \in ReadLabels
      BY <2>1 DEF IInv, ThreadInv, Goto, ReadLabels
    <2>3. QED
      BY <2>1, <2>2, ReadMoves
  <1>3. ASSUME ReadNothing \/ \E call \in {"recv", "recvForever"} : ReadFails(call)
        PROVE  IInv'
    <2>1. PICK from \in {"recv", "recvForever"}, to \in {"top", "failed"} :
            /\ Goto("read", from, to) /\ recv_fd' = NoClient
            /\ UNCHANGED <<main, stop_condition, client_fd, client_error, peer, fd,
                           produced, offered, own_queue, msg, send_fd, sent, consumed,
                           buffer, forwarded, ret, old>>
      BY <1>3 DEF ReadNothing, ReadFails, ReadReturn, mainVars, clientVars, netVars,
                  inputVars, runVars, acceptVars
    <2>2. to \in ReadLabels
      BY DEF ReadLabels
    <2>3. QED
      BY <2>1, <2>2, ReadMoves
  <1>4. QED
    BY <1>1, <1>2, <1>3, ReceiveStep DEF Read

-----------------------------------------------------------------------------
\* accept_client.

\* What accept changes is at stake only for the owners of the descriptors.
LEMMA AcceptFrame ==
  ASSUME IInv, NEW from, NEW to \in AcceptLabels, Goto("accept", from, to),
         from \notin {"off", "done"}, to # "off",
         UNCHANGED <<main, stop_condition, peer, produced, offered, own_queue, msg,
                     send_fd, sent, consumed, recv_fd, buffer, forwarded>>,
         client_fd' = client_fd \/ client_fd' \in Clients,
         client_error' \in BOOLEAN,
         fd' \in [Clients -> {"none", "backlog", "accepted", "open", "closed"}],
         ret' \in Clients \cup {NoClient}, old' \in Clients \cup {NoClient}
  PROVE  /\ pc["accept"] = from /\ pc'["accept"] = to
         /\ TypeOK' /\ ThreadInv' /\ SentInv' /\ PartInv'
  <1>1. /\ pc["accept"] = from /\ pc'["accept"] = to
        /\ pc'["run"] = pc["run"] /\ pc'["read"] = pc["read"]
        /\ pc' \in [Threads -> RunLabels \cup ReadLabels \cup AcceptLabels]
    BY GotoTyped DEF IInv, Threads
  <1>2. TypeOK'
    BY <1>1 DEF IInv, TypeOK
  <1>3. ThreadInv'
    BY <1>1 DEF IInv, ThreadInv
  <1>4. SentInv' /\ PartInv'
    BY <1>1, SentKept, PartKept DEF IInv
  <1>5. QED
    BY <1>1, <1>2, <1>3, <1>4

LEMMA AcceptStep == ASSUME IInv, Accept PROVE IInv'
  <1>0. /\ fd \in [Clients -> {"none", "backlog", "accepted", "open", "closed"}]
        /\ client_fd \in Clients \cup {NoClient} /\ client_error \in BOOLEAN
        /\ ret \in Clients \cup {NoClient} /\ old \in Clients \cup {NoClient}
        /\ NoClient \notin Clients
        /\ FdInv
    BY ClientsAssumption DEF IInv, TypeOK
  <1>1. CASE AcceptTop \/ AcceptNone \/ AcceptCheck
    <2>1. PICK from \in {"top", "accept", "check"},
               to \in {"done", "accept", "top", "exchange", "refuse"} :
            /\ Goto("accept", from, to)
            /\ from = "check" <=> to \in {"exchange", "refuse"}
            /\ to = "exchange" => client_error
            /\ UNCHANGED <<main, stop_condition, client_fd, client_error, peer, fd,
                           produced, offered, own_queue, msg, send_fd, sent, consumed,
                           recv_fd, buffer, forwarded, ret, old>>
      <3>1. CASE AcceptTop
        BY <3>1 DEF AcceptTop, Move, mainVars, clientVars, netVars, inputVars, runVars,
                    readVars, acceptVars
      <3>2. CASE AcceptNone
        BY <3>2 DEF AcceptNone, Move, mainVars, clientVars, netVars, inputVars, runVars,
                    readVars, acceptVars
      <3>3. CASE AcceptCheck
        BY <3>3 DEF AcceptCheck, Move, mainVars, clientVars, netVars, inputVars, runVars,
                    readVars, acceptVars
      <3>4. QED
        BY <1>1, <3>1, <3>2, <3>3
    <2>2. to \in AcceptLabels
      BY DEF AcceptLabels
    <2>3. /\ pc["accept"] = from /\ pc'["accept"] = to
          /\ TypeOK' /\ ThreadInv' /\ SentInv' /\ PartInv'
      BY <1>0, <2>1, <2>2, AcceptFrame
    <2>4. FdInv'
      BY <1>0, <2>1, <2>3
         DEF FdInv, DescriptorsOwned, Held, NoErrorMeansClient, OwnerInv
    <2>5. QED
      BY <2>3, <2>4 DEF IInv
  <1>2. ASSUME NEW c \in Clients, AcceptOne(c) PROVE IInv'
    <2>1. /\ Goto("accept", "accept", "check") /\ fd[c] = "backlog"
          /\ fd' = [fd EXCEPT ![c] = "accepted"] /\ ret' = c
          /\ UNCHANGED <<main, stop_condition, client_fd, client_error, peer, produced,
                         offered, own_queue, msg, send_fd, sent, consumed, recv_fd,
                         buffer, forwarded, old>>
      BY <1>2 DEF AcceptOne, mainVars, clientVars, inputVars, runVars, readVars
    <2>2. /\ pc["accept"] = "accept" /\ pc'["accept"] = "check"
          /\ TypeOK' /\ ThreadInv' /\ SentInv' /\ PartInv'
      BY <1>0, <2>1, AcceptFrame DEF AcceptLabels
    <2>3. c \notin Held /\ c # client_fd /\ Held' = Held \cup {c} /\ ret = NoClient
      BY <1>0, <2>1, <2>2 DEF Held, FdInv, DescriptorsOwned, OwnerInv
    <2>4. DescriptorsOwned' /\ NoErrorMeansClient'
      BY <1>0, <2>1, <2>3 DEF FdInv, DescriptorsOwned, NoErrorMeansClient
    <2>5. OwnerInv'
      BY <1>0, <2>1, <2>2, <2>3 DEF FdInv, OwnerInv
    <2>6. QED
      BY <2>2, <2>4, <2>5 DEF IInv, FdInv
  <1>3. CASE AcceptRefuse
    <2>1. /\ Goto("accept", "refuse", "accept")
          /\ fd' = [fd EXCEPT ![ret] = "closed"] /\ ret' = NoClient
          /\ UNCHANGED <<main, stop_condition, client_fd, client_error, peer, produced,
                         offered, own_queue, msg, send_fd, sent, consumed, recv_fd,
                         buffer, forwarded, old>>
      BY <1>3 DEF AcceptRefuse, mainVars, clientVars, inputVars, runVars, readVars
    <2>2. /\ pc["accept"] = "refuse" /\ pc'["accept"] = "accept"
          /\ TypeOK' /\ ThreadInv' /\ SentInv' /\ PartInv'
      <3>1. fd' \in [Clients -> {"none", "backlog", "accepted", "open", "closed"}]
        BY <1>0, <2>1
      <3>2. QED
        BY <1>0, <2>1, <3>1, AcceptFrame DEF AcceptLabels
    <2>3. /\ ret \in Clients /\ ret # client_fd /\ fd[ret] = "accepted"
          /\ Held' = Held \ {ret} /\ old = NoClient
      BY <1>0, <2>1, <2>2 DEF Held, FdInv, OwnerInv
    <2>4. DescriptorsOwned' /\ NoErrorMeansClient'
      BY <1>0, <2>1, <2>3 DEF FdInv, DescriptorsOwned, NoErrorMeansClient
    <2>5. OwnerInv'
      BY <1>0, <2>1, <2>2, <2>3 DEF FdInv, OwnerInv
    <2>6. QED
      BY <2>2, <2>4, <2>5 DEF IInv, FdInv
  <1>4. CASE AcceptExchange
    <2>1. /\ Goto("accept", "exchange", IF client_fd = NoClient THEN "timeout" ELSE "close")
          /\ old' = client_fd /\ client_fd' = ret /\ ret' = NoClient
          /\ UNCHANGED <<main, stop_condition, client_error, peer, fd, produced, offered,
                         own_queue, msg, send_fd, sent, consumed, recv_fd, buffer,
                         forwarded>>
      BY <1>4 DEF AcceptExchange, mainVars, netVars, inputVars, runVars, readVars
    <2>2. pc["accept"] = "exchange" /\ ret \in Clients
      BY <1>0, <2>1 DEF Goto, FdInv, OwnerInv
    <2>3. /\ pc'["accept"] = IF client_fd = NoClient THEN "timeout" ELSE "close"
          /\ TypeOK' /\ ThreadInv' /\ SentInv' /\ PartInv'
      BY <1>0, <2>1, <2>2, AcceptFrame DEF AcceptLabels
    <2>4. DescriptorsOwned' /\ NoErrorMeansClient'
      BY <1>0, <2>1, <2>2 DEF FdInv, DescriptorsOwned, Held, NoErrorMeansClient, OwnerInv
    <2>5. OwnerInv'
      BY <1>0, <2>1, <2>2, <2>3 DEF FdInv, OwnerInv
    <2>6. QED
      BY <2>3, <2>4, <2>5 DEF IInv, FdInv
  <1>5. CASE AcceptClose
    <2>1. /\ Goto("accept", "close", "timeout")
          /\ fd' = [fd EXCEPT ![old] = "closed"] /\ old' = NoClient
          /\ UNCHANGED <<main, stop_condition, client_fd, client_error, peer, produced,
                         offered, own_queue, msg, send_fd, sent, consumed, recv_fd,
                         buffer, forwarded, ret>>
      BY <1>5 DEF AcceptClose, mainVars, clientVars, inputVars, runVars, readVars
    <2>2. /\ pc["accept"] = "close" /\ pc'["accept"] = "timeout"
          /\ TypeOK' /\ ThreadInv' /\ SentInv' /\ PartInv'
      <3>1. fd' \in [Clients -> {"none", "backlog", "accepted", "open", "closed"}]
        BY <1>0, <2>1
      <3>2. QED
        BY <1>0, <2>1, <3>1, AcceptFrame DEF AcceptLabels
    <2>3. /\ old \in Clients /\ old # client_fd /\ ret = NoClient
          /\ Held' = Held \ {old} /\ client_error
          /\ \A c \in Clients : peer[c] = "away" => fd'[c] = "none"
      BY <1>0, <2>1, <2>2 DEF Held, FdInv, DescriptorsOwned, OwnerInv
    <2>4. DescriptorsOwned' /\ NoErrorMeansClient'
      BY <1>0, <2>1, <2>3 DEF FdInv, DescriptorsOwned, NoErrorMeansClient
    <2>5. OwnerInv'
      BY <1>0, <2>1, <2>2, <2>3 DEF FdInv, OwnerInv
    <2>6. QED
      BY <2>2, <2>4, <2>5 DEF IInv, FdInv
  <1>6. CASE AcceptSetTimeout
    <2>1. /\ Goto("accept", "timeout", "clear")
          /\ fd' = [fd EXCEPT ![client_fd] = IF @ = "accepted" THEN "open" ELSE @]
          /\ UNCHANGED <<main, stop_condition, client_fd, client_error, peer, produced,
                         offered, own_queue, msg, send_fd, sent, consumed, recv_fd,
                         buffer, forwarded, ret, old>>
      BY <1>6 DEF AcceptSetTimeout, mainVars, clientVars, inputVars, runVars, readVars,
                  acceptVars
    <2>2. pc["accept"] = "timeout" /\ client_fd \in Clients /\ fd[client_fd] = "accepted"
      BY <1>0, <2>1 DEF Goto, FdInv, OwnerInv
    <2>3. fd' = [fd EXCEPT ![client_fd] = "open"] /\ Held' = Held
      BY <1>0, <2>1, <2>2 DEF Held
    <2>4. pc'["accept"] = "clear" /\ TypeOK' /\ ThreadInv' /\ SentInv' /\ PartInv'
      BY <1>0, <2>1, <2>2, <2>3, AcceptFrame DEF AcceptLabels
    <2>5. DescriptorsOwned' /\ NoErrorMeansClient'
      BY <1>0, <2>1, <2>2, <2>3 DEF FdInv, DescriptorsOwned, NoErrorMeansClient
    <2>6. OwnerInv'
      BY <1>0, <2>1, <2>2, <2>3, <2>4 DEF FdInv, OwnerInv
    <2>7. QED
      BY <2>4, <2>5, <2>6 DEF IInv, FdInv
  <1>7. CASE AcceptClear
    <2>1. /\ Goto("accept", "clear", "notify") /\ client_error' = FALSE
          /\ UNCHANGED <<main, stop_condition, client_fd, peer, fd, produced, offered,
                         own_queue, msg, send_fd, sent, consumed, recv_fd, buffer,
                         forwarded, ret, old>>
      BY <1>7 DEF AcceptClear, mainVars, netVars, inputVars, runVars, readVars, acceptVars
    <2>2. client_error' \in BOOLEAN
      BY <2>1, Zenon
    <2>3. /\ pc["accept"] = "clear" /\ pc'["accept"] = "notify"
          /\ TypeOK' /\ ThreadInv' /\ SentInv' /\ PartInv'
      BY <1>0, <2>1, <2>2, AcceptFrame DEF AcceptLabels
    <2>4. FdInv'
      BY <1>0, <2>1, <2>3
         DEF FdInv, DescriptorsOwned, Held, NoErrorMeansClient, OwnerInv
    <2>5. QED
      BY <2>3, <2>4 DEF IInv
  <1>8. CASE AcceptNotify
    <2>1. /\ pc["accept"] = "notify"
          /\ pc' = Notified([pc EXCEPT !["accept"] = "accept"])
          /\ UNCHANGED <<main, stop_condition, client_fd, client_error, peer, fd, produced,
                         offered, own_queue, msg, send_fd, sent, consumed, recv_fd,
                         buffer, forwarded, ret, old>>
      BY <1>8 DEF AcceptNotify, mainVars, clientVars, netVars, inputVars, runVars,
                  readVars, acceptVars
    <2>2. /\ pc'["accept"] = "accept" /\ pc'["run"] = pc["run"]
          /\ pc'["read"] \in ReadLabels
          /\ pc'["read"] = pc["read"] \/ pc'["read"] = "predicate"
          /\ pc' \in [Threads -> RunLabels \cup ReadLabels \cup AcceptLabels]
      BY <2>1 DEF Notified, IInv, TypeOK, Threads, ReadLabels, AcceptLabels
    <2>3. TypeOK'
      BY <2>1, <2>2 DEF IInv, TypeOK, AcceptLabels
    <2>4. ThreadInv' /\ SentInv' /\ PartInv'
      BY <2>1, <2>2, SentKept, PartKept DEF IInv, ThreadInv
    <2>5. FdInv'
      BY <1>0, <2>1, <2>2
         DEF FdInv, DescriptorsOwned, Held, NoErrorMeansClient, OwnerInv
    <2>6. QED
      BY <2>3, <2>4, <2>5 DEF IInv
  <1>9. QED
    BY <1>1, <1>2, <1>3, <1>4, <1>5, <1>6, <1>7, <1>8 DEF Accept

-----------------------------------------------------------------------------
LEMMA Invariance == Spec => []IInv
  <1>1. ASSUME IInv, [Next]_vars PROVE IInv'
    <2>1. CASE UNCHANGED vars
      <3>1. UNCHANGED <<main, stop_condition, pc, client_fd, client_error, peer, fd,
                        produced, offered, own_queue, msg, send_fd, sent, consumed,
                        recv_fd, buffer, forwarded, ret, old>>
        BY <2>1 DEF vars, mainVars, clientVars, netVars, inputVars, runVars, readVars,
                    acceptVars
      <3>2. TypeOK' /\ ThreadInv'
        BY <1>1, <3>1 DEF IInv, TypeOK, ThreadInv
      <3>3. FdInv' /\ SentInv' /\ PartInv'
        BY <1>1, <3>1, FdKept, SentKept, PartKept DEF IInv
      <3>4. QED
        BY <3>2, <3>3 DEF IInv
    <2>2. QED
      BY <1>1, <2>1, MainStep, EnvironmentStep, RunStep, SendStep, ReadStep, AcceptStep
         DEF Next
  <1>2. QED
    BY <1>1, InitInv, PTL DEF Spec

\* Every variable keeps its type, and send and recv are only ever called on a
\* client's descriptor, for any number of clients and messages.
THEOREM TypeCorrect == Spec => []TypeOK
  <1>1. IInv => TypeOK
    BY DEF IInv
  <1>2. QED
    BY <1>1, Invariance, PTL

\* However many clients come and go, no descriptor leaks and none in use is
\* closed.
THEOREM NoLeak == Spec => []DescriptorsOwned
  <1>1. IInv => DescriptorsOwned
    BY DEF IInv, FdInv
  <1>2. QED
    BY <1>1, Invariance, PTL

\* The two atomics agree: as long as no error is known the client installed is
\* there, open and with its receive timeout set.
THEOREM AtomicsAgree == Spec => []NoErrorMeansClient
  <1>1. IInv => NoErrorMeansClient
    BY DEF IInv, FdInv
  <1>2. QED
    BY <1>1, Invariance, PTL

\* Messages are written in queue order and none again, whatever fails and
\* whichever client is there, for any number of messages.
THEOREM WriteOrder == Spec => []WritesInOrder
  <1>1. IInv => WritesInOrder
    BY DEF IInv, SentInv
  <1>2. QED
    BY <1>1, Invariance, PTL

\* What is forwarded keeps the order in which each client sent it, no part of
\* it twice, for any number of parts.
THEOREM ForwardOrder == Spec => []PartsForwardedOnce
  <1>1. IInv => PartsForwardedOnce
    BY DEF IInv, PartInv
  <1>2. QED
    BY <1>1, Invariance, PTL

-----------------------------------------------------------------------------
\* The messages whose body has been written.

\* The first n writes, where f says what the shorter beginnings hold.
WholeAt(s, f, n) ==
  IF n = 0 THEN <<>>
  ELSE IF s[n].part = "body" THEN Append(f[n - 1], s[n].msg)
  ELSE f[n - 1]

\* The messages written whole in each beginning of s.
Upto(s) == CHOOSE f : f = [n \in 0..Len(s) |-> WholeAt(s, f, n)]

\* Whole is the last of them.
LEMMA WholeIsLast == \A s : Whole(s) = Upto(s)[Len(s)]
  BY DEF Whole, Upto, WholeAt

\* The recursion is sound: it has a solution.
LEMMA UptoExists ==
  ASSUME NEW s, NEW l \in Nat
  PROVE  \E f : f = [n \in 0..l |-> WholeAt(s, f, n)]
  <1> DEFINE First(n) == \E f : f = [k \in 0..n |-> WholeAt(s, f, k)]
             S == {n \in Nat : First(n)}
  <1>1. ASSUME NEW n \in Nat, \A m \in Nat : m < n => m \in S PROVE n \in S
    <2>1. CASE n = 0
      <3>1. \A f : [k \in 0..n |-> WholeAt(s, f, k)] = [k \in {0} |-> <<>>]
        <4>1. 0..n = {0}
          BY <2>1
        <4>2. QED
          BY <4>1 DEF WholeAt
      <3>2. QED
        BY <3>1
    <2>2. CASE n # 0
      <3>1. n - 1 \in Nat /\ n - 1 < n
        BY <2>2
      <3>2. PICK g : g = [k \in 0..n - 1 |-> WholeAt(s, g, k)]
        BY <1>1, <3>1
      <3> DEFINE h == [k \in 0..n |-> IF k = n THEN WholeAt(s, g, n) ELSE g[k]]
      <3>3. \A k \in 0..n - 1 : k \in 0..n /\ k # n
        BY <3>1
      <3>4. \A k \in 0..n - 1 : h[k] = g[k] /\ g[k] = WholeAt(s, g, k)
        <4>1. \A k \in 0..n - 1 : h[k] = g[k]
          BY <3>3
        <4>2. \A k \in 0..n - 1 : g[k] = WholeAt(s, g, k)
          BY <3>2
        <4>3. QED
          BY <4>1, <4>2
      <3>5. ASSUME NEW k \in 0..n PROVE h[k] = WholeAt(s, h, k)
        <4>1. WholeAt(s, h, k) = WholeAt(s, g, k)
          <5>1. k # 0 => k - 1 \in 0..n - 1
            OBVIOUS
          <5>2. k # 0 => h[k - 1] = g[k - 1]
            BY <3>4, <5>1
          <5> HIDE DEF h
          <5>3. QED
            BY <5>2 DEF WholeAt
        <4>2. CASE k = n
          BY <4>1, <4>2
        <4>3. CASE k # n
          <5>1. k \in 0..n - 1
            BY <4>3
          <5>2. QED
            BY <3>4, <4>1, <5>1
        <4>4. QED
          BY <4>2, <4>3
      <3>6. h = [k \in 0..n |-> WholeAt(s, h, k)]
        <4>1. h = [k \in 0..n |-> h[k]]
          OBVIOUS
        <4> HIDE DEF h
        <4>2. QED
          BY <3>5, <4>1
      <3> HIDE DEF h
      <3>7. QED
        BY <3>6
    <2>3. QED
      BY <2>1, <2>2
  <1>2. Nat \subseteq S
    <2> HIDE DEF S
    <2>1. QED
      BY <1>1, FromTheStart
  <1>3. QED
    BY <1>2

\* What Upto is at n, in terms of n - 1.
LEMMA UptoUnfold ==
  ASSUME NEW s, Len(s) \in Nat, NEW n \in 0..Len(s)
  PROVE  Upto(s)[n] = WholeAt(s, Upto(s), n)
  <1>1. Upto(s) = [k \in 0..Len(s) |-> WholeAt(s, Upto(s), k)]
    BY UptoExists DEF Upto
  <1>2. QED
    BY <1>1

\* What comes behind does not matter.
LEMMA UptoAgree ==
  ASSUME NEW s, NEW t, Len(s) \in Nat, Len(t) \in Nat, Len(s) <= Len(t),
         \A i \in 1..Len(s) : t[i] = s[i]
  PROVE  \A n \in 0..Len(s) : Upto(t)[n] = Upto(s)[n]
  <1> DEFINE S == {n \in Nat : n <= Len(s) => Upto(t)[n] = Upto(s)[n]}
  <1>1. ASSUME NEW n \in Nat, \A m \in Nat : m < n => m \in S PROVE n \in S
    <2>1. SUFFICES ASSUME n <= Len(s) PROVE Upto(t)[n] = Upto(s)[n]
      OBVIOUS
    <2>2. n \in 0..Len(s) /\ n \in 0..Len(t)
      BY <2>1
    <2>3. Upto(t)[n] = WholeAt(t, Upto(t), n) /\ Upto(s)[n] = WholeAt(s, Upto(s), n)
      BY <2>2, UptoUnfold
    <2>4. CASE n = 0
      BY <2>3, <2>4 DEF WholeAt
    <2>5. CASE n # 0
      <3>1. n - 1 \in Nat /\ n - 1 < n /\ n - 1 <= Len(s) /\ n \in 1..Len(s)
        BY <2>1, <2>5
      <3>2. n - 1 \in S
        BY <1>1, <3>1
      <3>3. Upto(t)[n - 1] = Upto(s)[n - 1] /\ t[n] = s[n]
        BY <3>1, <3>2
      <3>4. QED
        BY <2>3, <2>5, <3>3 DEF WholeAt
    <2>6. QED
      BY <2>4, <2>5
  <1>2. Nat \subseteq S
    <2> HIDE DEF S
    <2>1. QED
      BY <1>1, FromTheStart
  <1>3. QED
    BY <1>2

\* One more write adds its message if it is of a body.
LEMMA WholeStep ==
  ASSUME NEW S, NEW s \in Seq(S), NEW w \in S
  PROVE  Whole(Append(s, w)) = IF w.part = "body" THEN Append(Whole(s), w.msg) ELSE Whole(s)
  <1> DEFINE t == Append(s, w)
  <1>1. /\ Len(s) \in Nat /\ Len(t) = Len(s) + 1 /\ t[Len(s) + 1] = w
        /\ \A i \in 1..Len(s) : t[i] = s[i]
    BY Appended
  <1> HIDE DEF t
  <1>2. PICK n \in Nat : n = Len(t) /\ n # 0 /\ n - 1 = Len(s)
    BY <1>1
  <1>3. n \in 0..Len(t) /\ Len(s) \in 0..Len(s) /\ Len(s) <= Len(t) /\ Len(t) \in Nat
    BY <1>1, <1>2
  <1>4. Upto(t)[n] = WholeAt(t, Upto(t), n)
    BY <1>3, UptoUnfold
  <1>5. Upto(t)[n - 1] = Upto(s)[n - 1]
    BY <1>1, <1>2, <1>3, UptoAgree
  <1>6. t[n] = w /\ Whole(t) = Upto(t)[n] /\ Whole(s) = Upto(s)[n - 1]
    BY <1>1, <1>2, WholeIsLast
  <1>7. Whole(t) = IF w.part = "body" THEN Append(Whole(s), w.msg) ELSE Whole(s)
    BY <1>2, <1>4, <1>5, <1>6 DEF WholeAt
  <1>8. QED
    BY <1>7 DEF t

\* Nothing is written.
LEMMA WholeEmpty == Whole(<<>>) = <<>>
  <1>1. Len(<<>>) = 0 /\ 0 \in 0..Len(<<>>) /\ Len(<<>>) \in Nat
    OBVIOUS
  <1>2. Upto(<<>>)[0] = WholeAt(<<>>, Upto(<<>>), 0)
    BY <1>1, UptoUnfold
  <1>3. QED
    BY <1>1, <1>2, WholeIsLast DEF WholeAt

-----------------------------------------------------------------------------
\* The block as a carrier of messages.

\* What is written has been taken from own_queue, and is not the message in hand.
WrittenInv ==
  /\ Written \in Seq(1..MaxMessages)
  /\ \A i \in 1..Len(Written) : Written[i] <= msg /\ (Writing => Written[i] < msg)
  /\ Writing => msg > 0

\* The messages given up.
Gone == {m \in 1..msg : /\ m = msg => ~Writing
                        /\ \A i \in DOMAIN Written : Written[i] # m}

carrierVars == <<{1..MaxMessages}, 1..offered, Written, Gone>>

\* What a step does to the messages.
MessageStep ==
  \/ /\ UNCHANGED <<offered, msg, Written>> /\ (Writing' <=> Writing)
  \/ /\ UNCHANGED <<offered, msg, Written>> /\ Writing /\ ~Writing'
  \/ /\ offered < MaxMessages /\ offered' = offered + 1
     /\ UNCHANGED <<msg, Written>> /\ (Writing' <=> Writing)
  \/ /\ ~Writing /\ Writing' /\ msg' = msg + 1 /\ msg < offered
     /\ UNCHANGED <<offered, Written>>
  \/ /\ Writing /\ ~Writing' /\ Written' = Append(Written, msg)
     /\ UNCHANGED <<offered, msg>>

\* All threads but run leave it where it is.
LEMMA OtherThread ==
  ASSUME TypeOK, NEW t \in Threads \ {"run"}, NEW from, NEW to, Goto(t, from, to)
  PROVE  Writing' <=> Writing
  <1>1. pc'["run"] = pc["run"]
    BY DEF TypeOK, Goto, Threads
  <1>2. QED
    BY <1>1 DEF Writing

\* Every step is one of the five.
LEMMA MessageSteps == ASSUME IInv, Next PROVE MessageStep
  <1>1. TypeOK /\ SentInv
    BY DEF IInv
  <1>2. ASSUME UNCHANGED <<offered, msg, sent>>, Writing' <=> Writing PROVE MessageStep
    BY <1>2 DEF MessageStep, Written
  <1>3. CASE Start \/ Stop \/ Join
    <2>1. Writing' <=> Writing
      BY <1>1, <1>3 DEF Start, Stop, Join, Goto, Writing, TypeOK, Threads
    <2>2. QED
      BY <1>2, <1>3, <2>1 DEF Start, Stop, Join, inputVars, runVars
  <1>4. CASE Environment
    <2>1. Writing' <=> Writing
      BY <1>4 DEF Environment, Offer, PeerConnect, PeerSend, PeerClose, Writing
    <2>2. CASE Offer
      BY <2>1, <2>2 DEF Offer, runVars, MessageStep, Written
    <2>3. CASE ~Offer
      BY <1>2, <1>4, <2>1, <2>3
         DEF Environment, PeerConnect, PeerSend, PeerClose, inputVars, runVars
    <2>4. QED
      BY <2>2, <2>3
  <1>5. CASE Read \/ ReadSpuriousWakeup
    <2>1. UNCHANGED <<offered, msg, sent>>
      BY <1>5 DEF Read, ReadSpuriousWakeup, ReadTop, ReadCheck, ReadPredicate, ReadBlock,
                  ReadNothing, ReadReport, ReadLoad, ReadFails, ReadReturn, ReadRecv,
                  Move, Report, inputVars, runVars
    <2>2. \E from, to : Goto("read", from, to)
      BY <1>5 DEF Read, ReadSpuriousWakeup, ReadTop, ReadCheck, ReadPredicate, ReadBlock,
                  ReadNothing, ReadReport, ReadLoad, ReadFails, ReadReturn, ReadRecv,
                  Move, Report
    <2>3. QED
      BY <1>1, <1>2, <2>1, <2>2, OtherThread DEF Threads
  <1>6. CASE Accept
    <2>1. UNCHANGED <<offered, msg, sent>>
      BY <1>6 DEF Accept, AcceptTop, AcceptNone, AcceptCheck, AcceptRefuse, AcceptExchange,
                  AcceptClose, AcceptSetTimeout, AcceptClear, AcceptNotify, AcceptOne,
                  Move, inputVars, runVars
    <2>2. CASE AcceptNotify
      <3>1. pc'["run"] = pc["run"]
        BY <1>1, <2>2 DEF AcceptNotify, Notified, TypeOK, Threads
      <3>2. QED
        BY <1>2, <2>1, <3>1 DEF Writing
    <2>3. CASE ~AcceptNotify
      <3>1. \E from, to : Goto("accept", from, to)
        BY <1>6, <2>3
           DEF Accept, AcceptTop, AcceptNone, AcceptCheck, AcceptRefuse, AcceptExchange,
               AcceptClose, AcceptSetTimeout, AcceptClear, AcceptOne, Move
      <3>2. QED
        BY <1>1, <1>2, <2>1, <3>1, OtherThread DEF Threads
    <2>4. QED
      BY <2>2, <2>3
  <1>7. ASSUME NEW from, NEW to, Goto("run", from, to), UNCHANGED <<offered, msg, sent>>,
               \/ from \in {"check", "loadHeader", "header", "headerWaits", "loadBody", "body",
                            "bodyWaits"}
               \/ to \notin {"check", "loadHeader", "header", "headerWaits", "loadBody",
                             "body", "bodyWaits"}
        PROVE  MessageStep
    <2>1. pc["run"] = from /\ pc'["run"] = to
      BY <1>1, <1>7 DEF Goto, TypeOK, Threads
    <2>2. Writing \/ ~Writing'
      BY <1>7, <2>1 DEF Writing
    <2>3. QED
      BY <1>7, <2>2 DEF MessageStep, Written
  <1>8. ASSUME NEW from, NEW part, NEW to, RunSend(from, part, to),
               <<from, part, to>> \in {<<"header", "header", "loadBody">>,
                                       <<"headerWaits", "header", "loadBody">>,
                                       <<"body", "body", "top">>,
                                       <<"bodyWaits", "body", "top">>}
        PROVE  MessageStep
    <2> DEFINE entry == [fd |-> send_fd, msg |-> msg, part |-> part]
    <2>1. pc["run"] = from /\ pc'["run"] = to
      BY <1>1, <1>8 DEF RunSend, Goto, TypeOK, Threads
    <2>2. UNCHANGED <<offered, msg>> /\ sent' = Append(sent, entry)
      BY <1>8 DEF RunSend, inputVars
    <2>3. entry \in Entries /\ sent \in Seq(Entries)
      BY <1>1, <1>8, <2>1 DEF TypeOK, SentInv, Entries
    <2>4. Written' = IF part = "body" THEN Append(Written, msg) ELSE Written
      <3>1. entry.part = part /\ entry.msg = msg
        OBVIOUS
      <3> HIDE DEF entry
      <3>2. QED
        BY <2>2, <2>3, <3>1, WholeStep DEF Written
    <2>5. CASE part = "header"
      BY <1>8, <2>1, <2>2, <2>4, <2>5 DEF Writing, MessageStep
    <2>6. CASE part = "body"
      BY <1>8, <2>1, <2>2, <2>4, <2>6 DEF Writing, MessageStep
    <2>7. QED
      BY <1>8, <2>5, <2>6
  <1>9. CASE RunDequeue
    <2>1. pc["run"] = "dequeue" /\ pc'["run"] = "check"
      BY <1>1, <1>9 DEF RunDequeue, Goto, TypeOK, Threads
    <2>2. UNCHANGED <<offered, sent>> /\ msg' = Head(own_queue) /\ own_queue # <<>>
      BY <1>9 DEF RunDequeue
    <2>3. /\ own_queue \in Seq(1..MaxMessages) /\ Len(own_queue) \in Nat \ {0}
          /\ Head(own_queue) = own_queue[1] /\ offered \in Nat /\ msg \in Nat
      BY <1>1, <2>2, HeadTail DEF TypeOK
    <2>4. /\ own_queue[1] = offered - Len(own_queue) + 1
          /\ Len(own_queue) + msg = offered
      BY <1>1, <2>3 DEF SentInv
    <2>5. msg' = msg + 1 /\ msg < offered
      BY <2>2, <2>3, <2>4
    <2>6. QED
      BY <2>1, <2>2, <2>5 DEF MessageStep, Writing, Written
  <1>10. CASE RunNotify
    <2>1. pc["run"] = "notify" /\ pc'["run"] = "joinRead"
      BY <1>1, <1>10 DEF RunNotify, Notified, TypeOK, Threads
    <2>2. QED
      BY <1>2, <1>10, <2>1 DEF RunNotify, inputVars, runVars, Writing
  <1>11. CASE RunSpawn
    <2>1. pc["run"] = "spawn" /\ pc'["run"] = "top"
      BY <1>11 DEF RunSpawn, Threads
    <2>2. QED
      BY <1>2, <1>11, <2>1 DEF RunSpawn, inputVars, runVars, Writing
  <1>12. CASE RunTop \/ RunTimeout \/ RunCheck \/ RunReport \/ RunJoinAccept \/ RunJoinRead
    <2>1. PICK from \in RunLabels, to \in RunLabels :
            /\ Goto("run", from, to)
            /\ from # "check" =>
                 to \notin {"check", "loadHeader", "header", "headerWaits", "loadBody",
                            "body", "bodyWaits"}
      BY <1>12 DEF RunTop, RunTimeout, RunCheck, RunReport, RunJoinAccept, RunJoinRead,
                   Move, Report, RunLabels
    <2>2. UNCHANGED <<offered, msg, sent>>
      BY <1>12 DEF RunTop, RunTimeout, RunCheck, RunReport, RunJoinAccept, RunJoinRead,
                   Move, Report, inputVars, runVars
    <2>3. QED
      BY <1>7, <2>1, <2>2
  <1>13. CASE RunHeader \/ RunBody \/ RunGoesOn
    <2>1. CASE \/ RunLoad("loadHeader", "header") \/ RunLoad("loadBody", "body")
               \/ RunSendWaits("header", "headerWaits") \/ RunSendWaits("body", "bodyWaits")
      BY <1>7, <2>1 DEF RunLoad, RunSendWaits, Move, inputVars, runVars
    <2>2. CASE \/ RunSend("header", "header", "loadBody")
               \/ RunSend("headerWaits", "header", "loadBody")
               \/ RunSend("body", "body", "top") \/ RunSend("bodyWaits", "body", "top")
      BY <1>8, <2>2
    <2>3. QED
      BY <1>13, <2>1, <2>2 DEF RunHeader, RunBody, RunGoesOn
  <1>14. ASSUME NEW call \in {"header", "body", "headerWaits", "bodyWaits"},
                RunSendFails(call)
         PROVE  MessageStep
    BY <1>7, <1>14 DEF RunSendFails, inputVars
  <1>15. QED
    BY <1>3, <1>4, <1>5, <1>6, <1>9, <1>10, <1>11, <1>12, <1>13, <1>14 DEF Next, Run

\* Nothing has been written.
LEMMA WrittenInit == Init => WrittenInv
  <1> SUFFICES ASSUME Init PROVE WrittenInv
    OBVIOUS
  <1>1. Written = <<>> /\ Len(<<>>) = 0 /\ ~Writing
    BY WholeEmpty DEF Init, Written, Writing, Threads
  <1>2. <<>> \in Seq(1..MaxMessages) /\ 1..0 = {}
    OBVIOUS
  <1>3. QED
    BY <1>1, <1>2 DEF WrittenInv

\* The numbers WrittenInv speaks of.
LEMMA WrittenNumbers ==
  ASSUME TypeOK, WrittenInv
  PROVE  /\ msg \in Nat /\ offered \in Nat /\ MaxMessages \in Nat
         /\ Len(Written) \in Nat /\ DOMAIN Written = 1..Len(Written)
         /\ \A i \in 1..Len(Written) : Written[i] \in Nat \ {0}
  <1>1. Written \in Seq(1..MaxMessages) /\ MaxMessages \in Nat
    BY BoundsAssumption DEF WrittenInv
  <1>2. \A i \in 1..Len(Written) : Written[i] \in 1..MaxMessages
    BY <1>1
  <1>3. Len(Written) \in Nat /\ DOMAIN Written = 1..Len(Written)
    BY <1>1
  <1>4. \A k \in 1..MaxMessages : k \in Nat \ {0}
    OBVIOUS
  <1>5. QED
    BY <1>1, <1>2, <1>3, <1>4 DEF TypeOK

\* The message in hand is later than those written, until it is.
LEMMA WrittenStep == ASSUME TypeOK, WrittenInv, MessageStep PROVE WrittenInv'
  <1>1. /\ msg \in Nat /\ offered \in Nat /\ MaxMessages \in Nat /\ Len(Written) \in Nat
        /\ \A i \in 1..Len(Written) : Written[i] \in Nat \ {0}
    BY WrittenNumbers
  <1>2. CASE UNCHANGED <<msg, Written>> /\ (Writing' => Writing)
    BY <1>2 DEF WrittenInv
  <1>3. CASE ~Writing /\ Writing' /\ msg' = msg + 1 /\ UNCHANGED Written
    <2>1. \A i \in 1..Len(Written) : Written[i] <= msg + 1 /\ Written[i] < msg + 1
      BY <1>1 DEF WrittenInv
    <2>2. msg + 1 > 0
      BY <1>1
    <2>3. QED
      BY <1>3, <2>1, <2>2 DEF WrittenInv
  <1>4. CASE Writing /\ ~Writing' /\ Written' = Append(Written, msg) /\ msg' = msg
    <2>1. Written \in Seq(1..MaxMessages) /\ msg \in 1..MaxMessages
      BY <1>1, <1>4 DEF WrittenInv, TypeOK
    <2> DEFINE t == Append(Written, msg)
    <2>2. /\ t \in Seq(1..MaxMessages) /\ Len(t) = Len(Written) + 1
          /\ \A i \in 1..Len(Written) : t[i] = Written[i]
          /\ t[Len(Written) + 1] = msg
      BY <2>1, Appended
    <2> HIDE DEF t
    <2>3. ASSUME NEW i \in 1..Len(t) PROVE t[i] <= msg
      <3>1. CASE i = Len(Written) + 1
        BY <1>1, <2>2, <3>1
      <3>2. CASE i # Len(Written) + 1
        <4>1. i \in 1..Len(Written)
          BY <1>1, <2>2, <3>2
        <4>2. QED
          BY <2>2, <4>1 DEF WrittenInv
      <3>3. QED
        BY <3>1, <3>2
    <2>4. Written' = t
      BY <1>4 DEF t
    <2>5. QED
      BY <1>4, <2>2, <2>3, <2>4 DEF WrittenInv
  <1>5. QED
    BY <1>2, <1>3, <1>4 DEF MessageStep

\* A message that is neither written nor given up is on its way.
LEMMA OnTheWay ==
  ASSUME TypeOK, SentInv, WrittenInv, Writing
  PROVE  msg \in Carrying!OnTheWay /\ msg \in 1..msg /\ msg \notin Gone
  <1>1. /\ msg \in Nat /\ offered \in Nat /\ msg > 0
        /\ DOMAIN Written = 1..Len(Written)
        /\ \A i \in 1..Len(Written) : Written[i] \in Nat \ {0} /\ Written[i] < msg
    BY WrittenNumbers DEF WrittenInv
  <1>2. msg \in 1..offered
    <2>1. Len(own_queue) \in Nat /\ Len(own_queue) + msg = offered
      BY DEF SentInv, TypeOK
    <2>2. QED
      BY <1>1, <2>1
  <1>3. \A i \in DOMAIN Written : Written[i] # msg
    BY <1>1
  <1>4. msg \notin Gone /\ msg \in 1..msg
    BY <1>1 DEF Gone
  <1>5. QED
    BY <1>2, <1>3, <1>4 DEF Carrying!OnTheWay, Carrying!HasArrived, Gone

\* A step that changes none of the three variables, gives up the message in hand,
\* takes another, or writes the body of it.
LEMMA CarrierStep ==
  ASSUME TypeOK, SentInv, WrittenInv, MessageStep
  PROVE  [Carrying!Next]_carrierVars
  <1>1. /\ msg \in Nat /\ offered \in Nat /\ MaxMessages \in Nat
        /\ DOMAIN Written = 1..Len(Written) /\ Len(Written) \in Nat
        /\ \A i \in 1..Len(Written) : Written[i] \in Nat \ {0} /\ Written[i] <= msg
    BY WrittenNumbers DEF WrittenInv
  <1>2. CASE UNCHANGED <<offered, msg, Written>> /\ (Writing' <=> Writing)
    BY <1>2 DEF carrierVars, Gone
  <1>3. CASE UNCHANGED <<offered, msg, Written>> /\ Writing /\ ~Writing'
    <2>1. msg \in Carrying!OnTheWay /\ msg \in 1..msg /\ msg \notin Gone
      BY <1>3, OnTheWay
    <2>2. Gone' = Gone \cup {msg}
      <3>1. \A i \in DOMAIN Written : Written[i] # msg
        BY <2>1 DEF Carrying!OnTheWay, Carrying!HasArrived
      <3>2. QED
        BY <1>3, <2>1, <3>1 DEF Gone
    <2>3. Carrying!Vanish({msg})
      BY <1>3, <2>2 DEF Carrying!Vanish, Gone
    <2>4. {msg} \in SUBSET Carrying!OnTheWay
      BY <2>1
    <2>5. \E X \in SUBSET Carrying!OnTheWay : Carrying!Vanish(X)
      BY <1>3, <2>2, <2>4 DEF Carrying!Vanish, Gone
    <2>6. QED
      BY <2>5 DEF Carrying!Next
  <1>4. CASE /\ offered < MaxMessages /\ offered' = offered + 1
             /\ UNCHANGED <<msg, Written>> /\ (Writing' <=> Writing)
    <2> DEFINE x == offered + 1
               S == 1..MaxMessages
    <2>1. x \in S /\ S \cap (1..offered) = {y \in S : y < x}
      BY <1>1, <1>4
    <2>2. 1..offered' = (1..offered) \cup {x}
      BY <1>1, <1>4
    <2>3. Gone' = Gone /\ Written' = Written
      BY <1>4 DEF Gone
    <2>4. Carrying!Send(S, x)
      BY <2>1, <2>2, <2>3 DEF Carrying!Send, Gone
    <2>5. QED
      BY <2>1, <2>4 DEF Carrying!Next
  <1>5. CASE /\ ~Writing /\ Writing' /\ msg' = msg + 1 /\ msg < offered
             /\ UNCHANGED <<offered, Written>>
    <2>1. Gone' = {m \in 1..msg + 1 : /\ m # msg + 1
                                      /\ \A i \in DOMAIN Written : Written[i] # m}
      BY <1>5 DEF Gone
    <2>2. Gone = {m \in 1..msg : \A i \in DOMAIN Written : Written[i] # m}
      BY <1>5 DEF Gone
    <2>3. \A m : m \in 1..msg <=> m \in 1..msg + 1 /\ m # msg + 1
      BY <1>1
    <2>4. Gone' = Gone
      BY <2>1, <2>2, <2>3
    <2>5. QED
      BY <1>5, <2>4 DEF carrierVars
  <1>6. CASE /\ Writing /\ ~Writing' /\ Written' = Append(Written, msg)
             /\ UNCHANGED <<offered, msg>>
    <2>1. msg \in Carrying!OnTheWay /\ msg \in 1..msg /\ msg \notin Gone
      BY <1>6, OnTheWay
    <2>2. Written \in Seq(1..MaxMessages) /\ msg \in 1..MaxMessages
      BY <1>1, <1>6 DEF WrittenInv, TypeOK
    <2> DEFINE t == Append(Written, msg)
    <2>3. /\ Len(t) = Len(Written) + 1 /\ DOMAIN t = 1..Len(Written) + 1
          /\ \A i \in 1..Len(Written) : t[i] = Written[i]
          /\ t[Len(Written) + 1] = msg
      BY <2>2, Appended
    <2> HIDE DEF t
    <2>4. \A m : (\A i \in DOMAIN t : t[i] # m)
                   <=> m # msg /\ \A i \in DOMAIN Written : Written[i] # m
      <3>1. DOMAIN t = DOMAIN Written \cup {Len(Written) + 1}
        BY <1>1, <2>3
      <3>2. QED
        BY <1>1, <2>3, <3>1
    <2>5. Written' = t
      BY <1>6 DEF t
    <2>6. Gone' = Gone
      <3>1. Gone' = {m \in 1..msg : \A i \in DOMAIN t : t[i] # m}
        BY <1>6, <2>5 DEF Gone
      <3>2. Gone = {m \in 1..msg : m # msg /\ \A i \in DOMAIN Written : Written[i] # m}
        BY <1>6 DEF Gone
      <3>3. QED
        BY <2>4, <3>1, <3>2
    <2>7. \A y \in 1..MaxMessages : Carrying!HasArrived(y) => y < msg
      BY <1>1, <1>6 DEF Carrying!HasArrived, WrittenInv
    <2>8. Carrying!Arrive(msg)
      BY <1>6, <2>2, <2>6, <2>7 DEF Carrying!Arrive, Gone
    <2>9. QED
      BY <2>1, <2>8 DEF Carrying!Next
  <1>7. QED
    BY <1>2, <1>3, <1>4, <1>5, <1>6 DEF MessageStep

\* The threads of the block, with clients that come and go, calls that fail or wait
\* and stops and starts, implement Carrier: each message is written to its end at
\* most once and in its turn, and one given up is not written to a later client.
THEOREM CarriesMessages == Spec => CarrierSpec
  <1>1. Init => Carrying!Init
    <2> SUFFICES ASSUME Init PROVE Carrying!Init
      OBVIOUS
    <2>1. Written = <<>> /\ offered = 0 /\ msg = 0
      BY WholeEmpty DEF Init, Written
    <2>2. 1..0 = {}
      OBVIOUS
    <2>3. QED
      BY <2>1, <2>2 DEF Carrying!Init
  <1>2. WrittenInv /\ IInv /\ [Next]_vars => WrittenInv' /\ [Carrying!Next]_carrierVars
    <2> SUFFICES ASSUME WrittenInv, IInv, [Next]_vars
                 PROVE  WrittenInv' /\ [Carrying!Next]_carrierVars
      OBVIOUS
    <2>1. MessageStep
      <3>1. CASE UNCHANGED vars
        BY <3>1 DEF vars, inputVars, runVars, MessageStep, Written, Writing
      <3>2. QED
        BY <3>1, MessageSteps
    <2>2. QED
      BY <2>1, WrittenStep, CarrierStep DEF IInv
  <1>3. QED
    BY <1>1, <1>2, WrittenInit, Invariance, PTL
       DEF Spec, CarrierSpec, Carrying!Spec, carrierVars, Gone

-----------------------------------------------------------------------------
\* A head in the buffer.

\* A client that was installed once and is so no more.
Past(c) == c = old \/ fd[c] = "closed"

\* read has received from none but the installed client and past ones; while it is
\* in recv for a past one it has not received from the one installed since.  A head
\* in the buffer is the last part that came from its client, and nothing has come
\* from the client installed, or the one read is in recv for, if that is another.
HeadInv ==
  /\ \A c \in Clients : consumed[c] > 0 \/ recv_fd = c => c = client_fd \/ Past(c)
  /\ client_fd # NoClient /\ recv_fd # NoClient /\ recv_fd # client_fd =>
       consumed[client_fd] = 0
  /\ buffer # <<>> =>
       /\ buffer[1].n = consumed[buffer[1].from]
       /\ \A c \in {client_fd, recv_fd} \ {NoClient, buffer[1].from} : consumed[c] = 0
  /\ MixedWithFirstOnly

\* Nothing has been received.
LEMMA HeadInit == Init => HeadInv
  <1> SUFFICES ASSUME Init PROVE HeadInv
    OBVIOUS
  <1>1. /\ consumed = [c \in Clients |-> 0] /\ recv_fd = NoClient /\ client_fd = NoClient
        /\ buffer = <<>> /\ forwarded = <<>>
    BY DEF Init
  <1>2. Len(forwarded) = 0
    BY <1>1
  <1>3. QED
    BY <1>1, <1>2, ClientsAssumption DEF HeadInv, MixedWithFirstOnly

\* A step that neither installs a client nor calls recv nor receives from it.
LEMMA HeadKept ==
  ASSUME TypeOK, HeadInv, UNCHANGED <<client_fd, consumed, forwarded>>,
         recv_fd' = recv_fd \/ recv_fd' = NoClient, buffer' = buffer \/ buffer' = <<>>,
         \A c \in Clients : Past(c) => Past(c)'
  PROVE  HeadInv'
  <1>1. MixedWithFirstOnly'
    BY DEF HeadInv, MixedWithFirstOnly
  <1>2. \A c \in Clients : consumed'[c] > 0 \/ recv_fd' = c => c = client_fd' \/ Past(c)'
    <2> SUFFICES ASSUME NEW c \in Clients, consumed'[c] > 0 \/ recv_fd' = c
                 PROVE  c = client_fd' \/ Past(c)'
      OBVIOUS
    <2>1. consumed[c] > 0 \/ recv_fd = c
      BY ClientsAssumption
    <2>2. QED
      BY <2>1 DEF HeadInv
  <1>3. QED
    BY <1>1, <1>2 DEF HeadInv

\* recv is called for the client installed.
LEMMA HeadLoad ==
  ASSUME TypeOK, HeadInv, UNCHANGED <<client_fd, consumed, forwarded, buffer, fd, old>>,
         recv_fd' = client_fd
  PROVE  HeadInv'
  BY DEF HeadInv, Past, MixedWithFirstOnly

\* A client is installed from which nothing has been received; the one it replaces
\* is a past one.
LEMMA HeadExchange ==
  ASSUME TypeOK, OwnerInv, HeadInv, pc["accept"] = "exchange",
         UNCHANGED <<consumed, forwarded, buffer, recv_fd, fd>>,
         client_fd' = ret, old' = client_fd
  PROVE  HeadInv'
  <1>1. ret \in Clients /\ ret # client_fd /\ fd[ret] = "accepted" /\ old = NoClient
    BY DEF OwnerInv, TypeOK
  <1>2. ~Past(ret) /\ consumed[ret] = 0 /\ recv_fd # ret
    <2>1. ~Past(ret)
      BY <1>1, ClientsAssumption DEF Past
    <2>2. consumed[ret] \in Nat /\ ~(consumed[ret] > 0) /\ recv_fd # ret
      BY <1>1, <2>1 DEF HeadInv, TypeOK
    <2>3. QED
      BY <2>1, <2>2
  <1>3. \A c \in Clients : consumed'[c] > 0 \/ recv_fd' = c => c = client_fd' \/ Past(c)'
    <2> SUFFICES ASSUME NEW c \in Clients, consumed'[c] > 0 \/ recv_fd' = c
                 PROVE  Past(c)'
      OBVIOUS
    <2>1. c = client_fd \/ Past(c)
      BY DEF HeadInv
    <2>2. QED
      BY <1>1, <2>1, ClientsAssumption DEF Past
  <1>4. MixedWithFirstOnly'
    BY DEF HeadInv, MixedWithFirstOnly
  <1>5. QED
    BY <1>2, <1>3, <1>4 DEF HeadInv

\* A part is received; it is the next one of its client, or the first.
LEMMA HeadReceive ==
  ASSUME IInv, HeadInv, NEW call \in {"recv", "recvForever"}, ReadRecv(call)
  PROVE  HeadInv'
  <1> DEFINE c == recv_fd
             part == [from |-> c, n |-> consumed[c] + 1]
             pair == [head |-> buffer[1], tail |-> part]
             L == Len(forwarded)
  <1>1. /\ pc["read"] = call
        /\ consumed' = [consumed EXCEPT ![c] = @ + 1]
        /\ buffer' = IF buffer = <<>> /\ IsHead(part) THEN <<part>> ELSE <<>>
        /\ forwarded' = IF buffer = <<>> THEN forwarded ELSE Append(forwarded, pair)
        /\ recv_fd' = NoClient /\ UNCHANGED <<client_fd, fd, old>>
    BY DEF ReadRecv, Goto, clientVars, netVars, acceptVars
  <1>2. /\ c \in Clients /\ consumed \in [Clients -> 0..MaxParts]
        /\ client_fd \in Clients \cup {NoClient}
        /\ buffer \in Seq(Parts) /\ forwarded \in Seq(Pairs)
    BY <1>1 DEF IInv, TypeOK, PartInv, Parts
  <1>3. \A d \in Clients : /\ consumed'[d] = IF d = c THEN consumed[c] + 1 ELSE consumed[d]
                           /\ consumed[d] \in Nat
    BY <1>1, <1>2
  <1>4. \A d \in Clients : consumed'[d] > 0 \/ recv_fd' = d => d = client_fd' \/ Past(d)'
    <2> SUFFICES ASSUME NEW d \in Clients, consumed'[d] > 0 \/ recv_fd' = d
                 PROVE  d = client_fd \/ Past(d)
      BY <1>1 DEF Past
    <2>1. consumed[d] > 0 \/ recv_fd = d
      BY <1>1, <1>3, ClientsAssumption
    <2>2. QED
      BY <2>1 DEF HeadInv
  <1>5. buffer' # <<>> =>
          /\ buffer'[1].n = consumed'[buffer'[1].from]
          /\ \A d \in {client_fd', recv_fd'} \ {NoClient, buffer'[1].from} :
               consumed'[d] = 0
    <2> SUFFICES ASSUME buffer' # <<>>
                 PROVE  /\ buffer'[1].n = consumed'[buffer'[1].from]
                        /\ \A d \in {client_fd', recv_fd'} \ {NoClient, buffer'[1].from} :
                             consumed'[d] = 0
      OBVIOUS
    <2>1. buffer' = <<part>>
      BY <1>1
    <2>2. buffer'[1].from = c /\ buffer'[1].n = consumed[c] + 1
      BY <2>1
    <2>3. client_fd # NoClient /\ client_fd # c => consumed[client_fd] = 0
      BY <1>2, ClientsAssumption DEF HeadInv
    <2>4. QED
      BY <1>1, <1>2, <1>3, <2>2, <2>3
  <1>6. MixedWithFirstOnly'
    <2>1. CASE buffer = <<>>
      BY <1>1, <2>1 DEF HeadInv, MixedWithFirstOnly
    <2>2. CASE buffer # <<>>
      <3>1. /\ buffer[1] \in Parts /\ pair \in Pairs
            /\ forwarded' = Append(forwarded, pair)
        <4>1. buffer[1] \in Parts
          BY <1>2, <2>2, HeadTail
        <4>2. part \in Parts
          <5>1. consumed'[c] \in 0..MaxParts /\ consumed'[c] = consumed[c] + 1
            BY <1>2, <1>3, ReceiveStep DEF IInv, TypeOK
          <5>2. consumed[c] + 1 \in 1..MaxParts
            BY <1>2, <1>3, <5>1, BoundsAssumption
          <5>3. QED
            BY <1>2, <5>2 DEF Parts
        <4>3. QED
          BY <1>1, <2>2, <4>1, <4>2 DEF Pairs
      <3>2. /\ L \in Nat /\ Len(forwarded') = L + 1
            /\ \A i \in 1..L : forwarded'[i] = forwarded[i]
            /\ forwarded'[L + 1] = pair
        BY <1>2, <3>1, Appended
      <3>3. IF buffer[1].from = c THEN consumed[c] + 1 = buffer[1].n + 1
                                  ELSE consumed[c] + 1 = 1
        BY <1>2, <1>3, <2>2, ClientsAssumption DEF HeadInv
      <3>4. /\ pair.head = buffer[1] /\ pair.tail.from = c
            /\ pair.tail.n = consumed[c] + 1
        OBVIOUS
      <3> HIDE DEF pair
      <3>5. \A i \in 1..L + 1 : i = L + 1 \/ i \in 1..L
        BY <3>2
      <3>6. QED
        BY <3>2, <3>3, <3>4, <3>5 DEF HeadInv, MixedWithFirstOnly
    <2>3. QED
      BY <2>1, <2>2
  <1>7. QED
    BY <1>1, <1>4, <1>5, <1>6 DEF HeadInv

\* A past client stays one, whoever moves.
LEMMA HeadStep == ASSUME IInv, HeadInv, Next PROVE HeadInv'
  <1>1. TypeOK /\ OwnerInv
    BY DEF IInv, FdInv
  <1>2. ASSUME UNCHANGED <<client_fd, fd, old, consumed, forwarded>>,
               recv_fd' = recv_fd \/ recv_fd' = NoClient,
               buffer' = buffer \/ buffer' = <<>>
        PROVE  HeadInv'
    BY <1>1, <1>2, HeadKept DEF Past
  <1>3. ASSUME UNCHANGED <<client_fd, consumed, recv_fd, buffer, forwarded>>,
               \A c \in Clients : Past(c) => Past(c)'
        PROVE  HeadInv'
    BY <1>1, <1>3, HeadKept
  <1>4. CASE Start \/ Stop \/ Join
    BY <1>2, <1>4 DEF Start, Stop, Join, clientVars, netVars, readVars, acceptVars
  <1>5. CASE Environment
    <2>1. CASE \E c \in Clients : PeerConnect(c)
      <3>1. PICK c \in Clients : PeerConnect(c)
        BY <2>1
      <3>2. UNCHANGED <<client_fd, old, consumed, recv_fd, buffer, forwarded>>
        BY <3>1 DEF PeerConnect, clientVars, readVars, acceptVars
      <3>3. fd[c] = "none" /\ fd' = [fd EXCEPT ![c] = "backlog"]
        BY <1>1, <3>1 DEF PeerConnect, OwnerInv
      <3>4. \A d \in Clients : Past(d) => Past(d)'
        BY <1>1, <3>2, <3>3 DEF Past, TypeOK
      <3>5. QED
        BY <1>3, <3>2, <3>4
    <2>2. CASE Offer \/ \E c \in Clients : PeerSend(c) \/ PeerClose(c)
      BY <1>2, <2>2 DEF Offer, PeerSend, PeerClose, clientVars, netVars, readVars,
                        acceptVars
    <2>3. QED
      BY <1>5, <2>1, <2>2 DEF Environment
  <1>6. CASE Run \/ RunGoesOn
    <2>1. /\ UNCHANGED <<client_fd, fd, old, consumed, recv_fd, forwarded>>
          /\ buffer' = buffer \/ buffer' = <<>>
      <3>1. CASE RunSpawn
        BY <3>1 DEF RunSpawn, clientVars, netVars, acceptVars
      <3>2. CASE RunHeader \/ RunBody \/ RunGoesOn
        BY <3>2 DEF RunHeader, RunBody, RunGoesOn, RunLoad, RunSend, RunSendWaits, Move,
                    clientVars, netVars, readVars, acceptVars
      <3>3. CASE \/ RunTop \/ RunTimeout \/ RunDequeue \/ RunCheck \/ RunReport
                 \/ RunJoinAccept \/ RunNotify \/ RunJoinRead
        BY <3>3 DEF RunTop, RunTimeout, RunDequeue, RunCheck, RunReport, RunJoinAccept,
                    RunNotify, RunJoinRead, Move, Report, clientVars, netVars, readVars,
                    acceptVars
      <3>4. CASE \E call \in {"header", "body", "headerWaits", "bodyWaits"} :
                   RunSendFails(call)
        BY <3>4 DEF RunSendFails, clientVars, netVars, readVars, acceptVars
      <3>5. QED
        BY <1>6, <3>1, <3>2, <3>3, <3>4 DEF Run
    <2>2. QED
      BY <1>2, <2>1
  <1>7. CASE Read \/ ReadSpuriousWakeup
    <2>1. CASE \/ ReadTop \/ ReadCheck \/ ReadPredicate \/ ReadBlock \/ ReadReport
               \/ ReadSpuriousWakeup
      BY <1>2, <2>1 DEF ReadTop, ReadCheck, ReadPredicate, ReadBlock, ReadReport,
                        ReadSpuriousWakeup, Move, Report, clientVars, netVars, readVars,
                        acceptVars
    <2>2. CASE ReadNothing \/ \E call \in {"recv", "recvForever"} : ReadFails(call)
      BY <1>2, <2>2 DEF ReadNothing, ReadFails, ReadReturn, clientVars, netVars, acceptVars
    <2>3. CASE \E call \in {"recv", "recvForever"} : ReadLoad(call)
      BY <1>1, <2>3, HeadLoad DEF ReadLoad, clientVars, netVars, acceptVars
    <2>4. QED
      BY <1>7, <2>1, <2>2, <2>3, HeadReceive DEF Read
  <1>8. CASE Accept
    <2>1. CASE AcceptExchange
      <3>1. /\ pc["accept"] = "exchange" /\ client_fd' = ret /\ old' = client_fd
            /\ UNCHANGED <<fd, consumed, recv_fd, buffer, forwarded>>
        BY <2>1 DEF AcceptExchange, Goto, netVars, readVars
      <3>2. QED
        BY <1>1, <3>1, HeadExchange
    <2>2. CASE \/ AcceptTop \/ AcceptNone \/ AcceptCheck \/ AcceptClear \/ AcceptNotify
      BY <1>2, <2>2 DEF AcceptTop, AcceptNone, AcceptCheck, AcceptClear, AcceptNotify, Move,
                        netVars, readVars, acceptVars, clientVars
    <2>3. CASE AcceptRefuse \/ AcceptClose \/ AcceptSetTimeout \/ \E c \in Clients : AcceptOne(c)
      <3>1. UNCHANGED <<client_fd, consumed, recv_fd, buffer, forwarded>>
        BY <2>3 DEF AcceptRefuse, AcceptClose, AcceptSetTimeout, AcceptOne, clientVars,
                    readVars
      <3>2. ASSUME NEW c \in Clients, Past(c) PROVE Past(c)'
        <4>1. CASE AcceptRefuse
          BY <1>1, <3>2, <4>1 DEF AcceptRefuse, Past, TypeOK
        <4>2. CASE AcceptClose
          BY <1>1, <3>2, <4>2 DEF AcceptClose, Past, TypeOK
        <4>3. CASE AcceptSetTimeout
          BY <1>1, <3>2, <4>3 DEF AcceptSetTimeout, Past, TypeOK, acceptVars
        <4>4. CASE \E d \in Clients : AcceptOne(d)
          BY <1>1, <3>2, <4>4 DEF AcceptOne, Past, TypeOK
        <4>5. QED
          BY <2>3, <4>1, <4>2, <4>3, <4>4
      <3>3. QED
        BY <1>3, <3>1, <3>2
    <2>4. QED
      BY <1>8, <2>1, <2>2, <2>3 DEF Accept
  <1>9. QED
    BY <1>4, <1>5, <1>6, <1>7, <1>8 DEF Next

\* A head that a client left behind meets nothing but the first part of the client
\* after it; otherwise a message that is forwarded is one a client has sent.
THEOREM OnlyFirstPartIsMixed == Spec => []MixedWithFirstOnly
  <1>1. HeadInv /\ IInv /\ [Next]_vars => HeadInv'
    <2> SUFFICES ASSUME HeadInv, IInv, [Next]_vars PROVE HeadInv'
      OBVIOUS
    <2>1. CASE UNCHANGED vars
      BY <2>1 DEF vars, clientVars, netVars, readVars, acceptVars, HeadInv, Past,
                  MixedWithFirstOnly
    <2>2. QED
      BY <2>1, HeadStep
  <1>2. HeadInv => MixedWithFirstOnly
    BY DEF HeadInv
  <1>3. QED
    BY <1>1, <1>2, HeadInit, Invariance, PTL DEF Spec
=============================================================================
