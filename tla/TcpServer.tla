------------------------------ MODULE TcpServer ------------------------------
(***************************************************************************)
(* TcpServer, the proxy's end of the signalling connection that a client   *)
(* opens.  Three threads share the descriptor of the one client:           *)
(*   run     takes messages from own_queue and sends each as a header and  *)
(*           a body;                                                       *)
(*   read    receives, cuts the stream into messages and forwards them; it *)
(*           sleeps on a condition variable while there is no client;      *)
(*   accept  installs a new client when the present one is marked in       *)
(*           error and refuses it otherwise.                               *)
(* They are tied together by two atomics, client_fd and client_error.      *)
(*                                                                         *)
(* A descriptor is named after the client it connects to and is not used   *)
(* again.  A frame on the stream is two parts, its head (the delimiter,    *)
(* the length and what came with them) and its tail: part n of a client is *)
(* a head when n is odd.                                                   *)
(***************************************************************************)
EXTENDS Naturals, SequencesExt

CONSTANTS
  Clients,       \* the connections that clients may open
  NoClient,      \* the descriptor -1
  MaxMessages,   \* bound on the messages put on own_queue
  MaxParts       \* bound on the parts a client sends

ASSUME ClientsAssumption == NoClient \notin Clients
ASSUME BoundsAssumption == MaxMessages \in Nat /\ MaxParts \in Nat

VARIABLES
  main,            \* the main thread: "stopped", "running" or "joining"
  stop_condition,  \* SimpleBlock::stop_condition
  pc,              \* where each of the block's threads is
  client_fd,       \* the installed client
  client_error,    \* there is no client or a call on it has failed
  peer,            \* each client's end: "away", "up" or "down"
  fd,              \* this end: "none", "backlog", "accepted", "open" (its
                   \* receive timeout is set) or "closed"
  offered,         \* messages enqueued on own_queue so far
  own_queue,       \* Sink::own_queue
  msg,             \* run's local: the message taken last (0: none)
  send_fd,         \* run: the descriptor send() is called with
  sent,            \* the writes that succeeded, in order
  produced,        \* parts each client has put into its stream
  consumed,        \* parts read has received from each client
  recv_fd,         \* read: the descriptor recv() is called with
  buffer,          \* read's local: a head whose tail has not come, if any
  forwarded,       \* the messages forwarded, in order
  ret,             \* accept's local: the connection just accepted
  old              \* accept's local: the client just replaced

mainVars   == <<main, stop_condition>>
clientVars == <<client_fd, client_error>>
netVars    == <<peer, fd, produced>>
inputVars  == <<offered, own_queue>>
runVars    == <<msg, send_fd, sent>>
readVars   == <<consumed, recv_fd, buffer, forwarded>>
acceptVars == <<ret, old>>
vars == <<mainVars, pc, clientVars, netVars, inputVars, runVars, readVars, acceptVars>>

Threads == {"run", "read", "accept"}

Goto(t, from, to) == pc[t] = from /\ pc' = [pc EXCEPT ![t] = to]

\* A step of t that changes nothing but its place.
Move(t, from, to) ==
  /\ Goto(t, from, to)
  /\ UNCHANGED <<mainVars, clientVars, netVars, inputVars, runVars, readVars,
                 acceptVars>>

\* The store of true to client_error after a call of t has failed.
Report(t, from, to) ==
  /\ Goto(t, from, to)
  /\ client_error' = TRUE
  /\ UNCHANGED <<mainVars, client_fd, netVars, inputVars, runVars, readVars,
                 acceptVars>>

\* The descriptors this end holds.
Held == {c \in Clients : fd[c] \in {"accepted", "open"}}

\* read_cv.notify_all(): the reader wakes if it waits, and checks again.
Notified(p) == IF p["read"] = "waiting" THEN [p EXCEPT !["read"] = "predicate"] ELSE p

-----------------------------------------------------------------------------
\* SimpleBlock::start and SimpleBlock::stop, by the main thread.

Start ==
  /\ main = "stopped"
  /\ main' = "running"
  /\ stop_condition' = FALSE
  /\ Goto("run", "off", "spawn")
  /\ UNCHANGED <<clientVars, netVars, inputVars, runVars, readVars, acceptVars>>

Stop ==
  /\ main = "running"
  /\ main' = "joining"
  /\ stop_condition' = TRUE
  /\ UNCHANGED <<pc, clientVars, netVars, inputVars, runVars, readVars, acceptVars>>

\* thread.join() in stop() returns.
Join ==
  /\ main = "joining"
  /\ pc["run"] = "done"
  /\ main' = "stopped"
  /\ pc' = [t \in Threads |-> "off"]
  /\ UNCHANGED <<stop_condition, clientVars, netVars, inputVars, runVars, readVars,
                 acceptVars>>

-----------------------------------------------------------------------------
\* The peers and the block that fills own_queue.

\* A client connects; the kernel keeps the connection until it is accepted.
PeerConnect(c) ==
  /\ peer[c] = "away"
  /\ peer' = [peer EXCEPT ![c] = "up"]
  /\ fd' = [fd EXCEPT ![c] = "backlog"]
  /\ UNCHANGED <<mainVars, pc, clientVars, produced, inputVars, runVars, readVars,
                 acceptVars>>

PeerSend(c) ==
  /\ peer[c] = "up"
  /\ produced[c] < MaxParts
  /\ produced' = [produced EXCEPT ![c] = @ + 1]
  /\ UNCHANGED <<mainVars, pc, clientVars, peer, fd, inputVars, runVars, readVars,
                 acceptVars>>

PeerClose(c) ==
  /\ peer[c] = "up"
  /\ peer' = [peer EXCEPT ![c] = "down"]
  /\ UNCHANGED <<mainVars, pc, clientVars, fd, produced, inputVars, runVars, readVars,
                 acceptVars>>

Offer ==
  /\ offered < MaxMessages
  /\ offered' = offered + 1
  /\ own_queue' = Append(own_queue, offered + 1)
  /\ UNCHANGED <<mainVars, pc, clientVars, netVars, runVars, readVars, acceptVars>>

Environment ==
  Offer \/ \E c \in Clients : PeerConnect(c) \/ PeerSend(c) \/ PeerClose(c)

-----------------------------------------------------------------------------
\* TcpServer::run

\* run starts the read and the accept thread; read's buffer is empty.
RunSpawn ==
  /\ pc["run"] = "spawn"
  /\ pc' = [t \in Threads |-> "top"]
  /\ buffer' = <<>>
  /\ UNCHANGED <<mainVars, clientVars, netVars, inputVars, runVars, consumed,
                 recv_fd, forwarded, acceptVars>>

RunTop == Move("run", "top", IF stop_condition THEN "joinAccept" ELSE "dequeue")

\* wait_dequeue_timed finds nothing within WAIT_TIMEOUT_DELAY.
RunTimeout == own_queue = <<>> /\ Move("run", "dequeue", "top")

RunDequeue ==
  /\ Goto("run", "dequeue", "check")
  /\ own_queue # <<>>
  /\ msg' = Head(own_queue)
  /\ own_queue' = Tail(own_queue)
  /\ UNCHANGED <<mainVars, clientVars, netVars, offered, send_fd, sent, readVars,
                 acceptVars>>

\* Mutant: client_error is not looked at.
RunCheckAlwaysSends == Move("run", "check", "loadHeader")

\* Without a client the message is dropped.
RunCheck == Move("run", "check", IF client_error THEN "top" ELSE "loadHeader")

\* send() gets the value client_fd has when the call is made.
RunLoad(from, to) ==
  /\ Goto("run", from, to)
  /\ send_fd' = client_fd
  /\ UNCHANGED <<mainVars, clientVars, netVars, inputVars, msg, sent, readVars,
                 acceptVars>>

\* The peer does not read and the kernel has no room for the bytes: send()
\* waits, without a timeout.
RunSendWaits(from, to) ==
  /\ send_fd \in Held
  /\ peer[send_fd] = "up"
  /\ Move("run", from, to)

\* The bytes are taken by the kernel; when the peer is gone they are lost.  A
\* call that waits goes on when accept closes the descriptor.
RunSend(from, part, to) ==
  /\ Goto("run", from, to)
  /\ from \in {"header", "body"} => send_fd \in Held
  /\ sent' = Append(sent, [fd |-> send_fd, msg |-> msg, part |-> part])
  /\ send_fd' = NoClient
  /\ UNCHANGED <<mainVars, clientVars, netVars, inputVars, msg, readVars,
                 acceptVars>>

\* send() fails: the peer is gone, or the descriptor was closed before the call.
RunSendFails(from) ==
  /\ Goto("run", from, "failed")
  /\ \/ peer[send_fd] = "down"
     \/ fd[send_fd] = "closed" /\ from \in {"header", "body"}
  /\ send_fd' = NoClient
  /\ UNCHANGED <<mainVars, clientVars, netVars, inputVars, msg, sent, readVars,
                 acceptVars>>

\* Mutant: the message is put back to be sent again.
RunReportAndRetry ==
  /\ Goto("run", "failed", "top")
  /\ client_error' = TRUE
  /\ own_queue' = <<msg>> \o own_queue
  /\ UNCHANGED <<mainVars, client_fd, netVars, offered, runVars, readVars,
                 acceptVars>>

RunReport == Report("run", "failed", "top")

RunHeader ==
  \/ RunLoad("loadHeader", "header")
  \/ RunSend("header", "header", "loadBody")
  \/ RunSendWaits("header", "headerWaits")

RunBody ==
  \/ RunLoad("loadBody", "body")
  \/ RunSend("body", "body", "top")
  \/ RunSendWaits("body", "bodyWaits")

\* The peer has read and the kernel takes the bytes of the call that waited.
RunGoesOn ==
  \/ RunSend("headerWaits", "header", "loadBody")
  \/ RunSend("bodyWaits", "body", "top")

RunJoinAccept == pc["accept"] = "done" /\ Move("run", "joinAccept", "notify")

\* read_cv.notify_all(), without read_m.
RunNotify ==
  /\ pc["run"] = "notify"
  /\ pc' = Notified([pc EXCEPT !["run"] = "joinRead"])
  /\ UNCHANGED <<mainVars, clientVars, netVars, inputVars, runVars, readVars,
                 acceptVars>>

RunJoinRead == pc["read"] = "done" /\ Move("run", "joinRead", "done")

Run ==
  \/ RunSpawn \/ RunTop \/ RunTimeout \/ RunDequeue \/ RunCheck
  \/ RunHeader \/ RunBody
  \/ RunReport
  \/ \E call \in {"header", "body", "headerWaits", "bodyWaits"} : RunSendFails(call)
  \/ RunJoinAccept \/ RunNotify \/ RunJoinRead

-----------------------------------------------------------------------------
\* TcpServer::read

ReadTop == Move("read", "top", IF stop_condition THEN "done" ELSE "check")

ReadCheck == Move("read", "check", IF client_error THEN "predicate" ELSE "load")

\* wait's predicate; read_m is held, but no one else ever takes it.
ReadPredicate ==
  Move("read", "predicate",
       IF ~client_error \/ stop_condition THEN "top" ELSE "block")

\* wait found its predicate false and now starts to wait.
ReadBlock == Move("read", "block", "waiting")

ReadSpuriousWakeup == Move("read", "waiting", "predicate")

\* recv() gets the value client_fd has when the call is made; on a descriptor
\* that has no receive timeout yet it waits until there is data.
ReadLoad(to) ==
  /\ Goto("read", "load", to)
  /\ to = "recvForever" => fd[client_fd] = "accepted"
  /\ recv_fd' = client_fd
  /\ UNCHANGED <<mainVars, clientVars, netVars, inputVars, runVars, consumed,
                 buffer, forwarded, acceptVars>>

\* recv returns without data.
ReadReturn(from, to) ==
  /\ Goto("read", from, to)
  /\ recv_fd' = NoClient
  /\ UNCHANGED <<mainVars, clientVars, netVars, inputVars, runVars, consumed,
                 buffer, forwarded, acceptVars>>

\* It times out.
ReadNothing ==
  /\ ReadReturn("recv", "top")
  /\ produced[recv_fd] = consumed[recv_fd]
  /\ peer[recv_fd] = "up"

\* Mutant: a return of 0 is not taken for a disconnection.
ReadFailsOnErrorOnly(from) ==
  /\ ReadReturn(from, IF fd[recv_fd] = "closed" THEN "failed" ELSE "top")
  /\ peer[recv_fd] = "down" \/ fd[recv_fd] = "closed"

\* The peer has closed or reset the connection, or this end has closed it.
ReadFails(from) ==
  /\ ReadReturn(from, "failed")
  /\ peer[recv_fd] = "down" \/ fd[recv_fd] = "closed"

ReadReport == Report("read", "failed", "top")

IsHead(part) == part.n % 2 = 1

\* Mutant: the message that is complete stays in the buffer.
ReadRecvKeepsBuffer(from) ==
  LET part == [from |-> recv_fd, n |-> consumed[recv_fd] + 1] IN
  /\ Goto("read", from, "top")
  /\ consumed[recv_fd] < produced[recv_fd]
  /\ consumed' = [consumed EXCEPT ![recv_fd] = @ + 1]
  /\ buffer' = IF buffer = <<>> /\ IsHead(part) THEN <<part>> ELSE buffer
  /\ forwarded' = IF buffer = <<>> THEN forwarded
                  ELSE Append(forwarded, [head |-> buffer[1], tail |-> part])
  /\ recv_fd' = NoClient
  /\ UNCHANGED <<mainVars, clientVars, netVars, inputVars, runVars, acceptVars>>

\* recv returns the next part (a call that has begun goes on when accept
\* closes the descriptor).  Without a head in the buffer anything else is
\* skipped; a part that follows a head is taken for its tail.
ReadRecv(from) ==
  LET part == [from |-> recv_fd, n |-> consumed[recv_fd] + 1] IN
  /\ Goto("read", from, "top")
  /\ consumed[recv_fd] < produced[recv_fd]
  /\ consumed' = [consumed EXCEPT ![recv_fd] = @ + 1]
  /\ buffer' = IF buffer = <<>> /\ IsHead(part) THEN <<part>> ELSE <<>>
  /\ forwarded' = IF buffer = <<>> THEN forwarded
                  ELSE Append(forwarded, [head |-> buffer[1], tail |-> part])
  /\ recv_fd' = NoClient
  /\ UNCHANGED <<mainVars, clientVars, netVars, inputVars, runVars, acceptVars>>

Read ==
  \/ ReadTop \/ ReadCheck \/ ReadPredicate \/ ReadBlock
  \/ ReadNothing \/ ReadReport
  \/ \E call \in {"recv", "recvForever"} :
       ReadLoad(call) \/ ReadFails(call) \/ ReadRecv(call)

-----------------------------------------------------------------------------
\* TcpServer::accept_client

\* Mutant: the thread never looks at stop_condition.
AcceptTopNeverEnds == Move("accept", "top", "accept")

AcceptTop == Move("accept", "top", IF stop_condition THEN "done" ELSE "accept")

\* accept times out; only then is the stop condition looked at.
AcceptNone ==
  /\ \A c \in Clients : fd[c] # "backlog"
  /\ Move("accept", "accept", "top")

AcceptOne(c) ==
  /\ Goto("accept", "accept", "check")
  /\ fd[c] = "backlog"
  /\ fd' = [fd EXCEPT ![c] = "accepted"]
  /\ ret' = c
  /\ UNCHANGED <<mainVars, clientVars, peer, produced, inputVars, runVars, readVars,
                 old>>

AcceptCheck ==
  Move("accept", "check", IF client_error THEN "exchange" ELSE "refuse")

AcceptRefuse ==
  /\ Goto("accept", "refuse", "accept")
  /\ fd' = [fd EXCEPT ![ret] = "closed"]
  /\ ret' = NoClient
  /\ UNCHANGED <<mainVars, clientVars, peer, produced, inputVars, runVars, readVars,
                 old>>

\* Mutant: the descriptor that is replaced is forgotten.
AcceptExchangeLeaks ==
  /\ Goto("accept", "exchange", "timeout")
  /\ client_fd' = ret
  /\ ret' = NoClient
  /\ UNCHANGED <<mainVars, client_error, netVars, inputVars, runVars, readVars, old>>

AcceptExchange ==
  /\ Goto("accept", "exchange", IF client_fd = NoClient THEN "timeout" ELSE "close")
  /\ old' = client_fd
  /\ client_fd' = ret
  /\ ret' = NoClient
  /\ UNCHANGED <<mainVars, client_error, netVars, inputVars, runVars, readVars>>

\* Mutant: client_fd is closed after the exchange instead of its old value.
AcceptCloseInstalled ==
  /\ Goto("accept", "close", "timeout")
  /\ fd' = [fd EXCEPT ![client_fd] = "closed"]
  /\ old' = NoClient
  /\ UNCHANGED <<mainVars, clientVars, peer, produced, inputVars, runVars, readVars,
                 ret>>

AcceptClose ==
  /\ Goto("accept", "close", "timeout")
  /\ fd' = [fd EXCEPT ![old] = "closed"]
  /\ old' = NoClient
  /\ UNCHANGED <<mainVars, clientVars, peer, produced, inputVars, runVars, readVars,
                 ret>>

\* setsockopt(client_fd, SOL_SOCKET, SO_RCVTIMEO, ...); a failure is logged.
AcceptSetTimeout ==
  /\ Goto("accept", "timeout", "clear")
  /\ fd' = [fd EXCEPT ![client_fd] = IF @ = "accepted" THEN "open" ELSE @]
  /\ UNCHANGED <<mainVars, clientVars, peer, produced, inputVars, runVars, readVars,
                 acceptVars>>

AcceptClear ==
  /\ Goto("accept", "clear", "notify")
  /\ client_error' = FALSE
  /\ UNCHANGED <<mainVars, client_fd, netVars, inputVars, runVars, readVars,
                 acceptVars>>

\* read_cv.notify_all(), without read_m.
AcceptNotify ==
  /\ pc["accept"] = "notify"
  /\ pc' = Notified([pc EXCEPT !["accept"] = "accept"])
  /\ UNCHANGED <<mainVars, clientVars, netVars, inputVars, runVars, readVars,
                 acceptVars>>

Accept ==
  \/ AcceptTop \/ AcceptNone \/ AcceptCheck \/ AcceptRefuse \/ AcceptExchange
  \/ AcceptClose \/ AcceptSetTimeout \/ AcceptClear \/ AcceptNotify
  \/ \E c \in Clients : AcceptOne(c)

-----------------------------------------------------------------------------
Init ==
  /\ main = "stopped" /\ stop_condition = TRUE
  /\ pc = [t \in Threads |-> "off"]
  /\ client_fd = NoClient /\ client_error = TRUE
  /\ peer = [c \in Clients |-> "away"]
  /\ fd = [c \in Clients |-> "none"]
  /\ produced = [c \in Clients |-> 0] /\ consumed = [c \in Clients |-> 0]
  /\ offered = 0 /\ own_queue = <<>>
  /\ msg = 0 /\ send_fd = NoClient /\ sent = <<>>
  /\ recv_fd = NoClient /\ buffer = <<>> /\ forwarded = <<>>
  /\ ret = NoClient /\ old = NoClient

Next ==
  \/ Start \/ Stop \/ Join \/ Environment
  \/ Run \/ RunGoesOn \/ Read \/ ReadSpuriousWakeup \/ Accept

Spec == Init /\ [][Next]_vars

\* Each thread is scheduled; no one owes the reader a spurious wakeup, and no
\* client owes run that it reads.
Fairness == WF_vars(Run) /\ WF_vars(Read) /\ WF_vars(Accept) /\ WF_vars(Join)

LiveSpec == Spec /\ Fairness

-----------------------------------------------------------------------------
\* Properties

RunLabels ==
  {"off", "spawn", "top", "dequeue", "check", "loadHeader", "header",
   "headerWaits", "loadBody", "body", "bodyWaits", "failed", "joinAccept", "notify",
   "joinRead", "done"}
ReadLabels ==
  {"off", "top", "check", "predicate", "block", "waiting", "load", "recv",
   "recvForever", "failed", "done"}
AcceptLabels ==
  {"off", "top", "accept", "check", "refuse", "exchange", "close", "timeout",
   "clear", "notify", "done"}

\* The type invariant; a descriptor is passed to send or recv only when there
\* is one.
TypeOK ==
  /\ main \in {"stopped", "running", "joining"}
  /\ stop_condition \in BOOLEAN
  /\ pc \in [Threads -> RunLabels \cup ReadLabels \cup AcceptLabels]
  /\ pc["run"] \in RunLabels
  /\ pc["read"] \in ReadLabels
  /\ pc["accept"] \in AcceptLabels
  /\ client_fd \in Clients \cup {NoClient}
  /\ client_error \in BOOLEAN
  /\ peer \in [Clients -> {"away", "up", "down"}]
  /\ fd \in [Clients -> {"none", "backlog", "accepted", "open", "closed"}]
  /\ offered \in 0..MaxMessages
  /\ own_queue \in Seq(1..MaxMessages)
  /\ msg \in 0..MaxMessages
  /\ send_fd \in Clients \cup {NoClient}
  /\ pc["run"] \in {"header", "headerWaits", "body", "bodyWaits"} => send_fd \in Clients
  /\ produced \in [Clients -> 0..MaxParts]
  /\ consumed \in [Clients -> 0..MaxParts]
  /\ recv_fd \in Clients \cup {NoClient}
  /\ pc["read"] \in {"recv", "recvForever"} => recv_fd \in Clients
  /\ buffer \in Seq([from : Clients, n : 1..MaxParts])
  /\ ret \in Clients \cup {NoClient}
  /\ old \in Clients \cup {NoClient}

\* No descriptor leaks and none in use is closed: the open ones are the
\* installed client's, the one accept has just got and the one it replaced.
DescriptorsOwned ==
  Held = {client_fd, ret, old} \ {NoClient}

\* While no error is known there is a client, its descriptor is open and has
\* its receive timeout.
NoErrorMeansClient ==
  ~client_error => client_fd \in Clients /\ fd[client_fd] = "open"

\* A message taken from own_queue is written at most once, header before body
\* and in queue order, whatever client is there; after an error it is not
\* written again to the next one.
WritesInOrder ==
  \A i, j \in 1..Len(sent) : i < j =>
    \/ sent[i].msg < sent[j].msg
    \/ sent[i].msg = sent[j].msg /\ sent[i].part = "header" /\ sent[j].part = "body"

\* What a client sends is forwarded in the order it was sent, no part twice.
PartsForwardedOnce ==
  LET parts == [i \in 1..2 * Len(forwarded) |->
                  IF i % 2 = 1 THEN forwarded[(i + 1) \div 2].head
                  ELSE forwarded[i \div 2].tail]
  IN \A i, j \in DOMAIN parts :
       i < j /\ parts[i].from = parts[j].from => parts[i].n < parts[j].n

\* A head that one client left in the buffer can only meet the first part of the
\* next client; every other message that is forwarded is one a client has sent.
MixedWithFirstOnly ==
  \A i \in 1..Len(forwarded) :
    LET head == forwarded[i].head
        tail == forwarded[i].tail
    IN IF head.from = tail.from THEN tail.n = head.n + 1 ELSE tail.n = 1

\* run has taken a message and may still write it.
Writing ==
  pc["run"] \in {"check", "loadHeader", "header", "headerWaits", "loadBody", "body",
                 "bodyWaits"}

\* The messages whose body is among the writes in s, in their order.
Whole(s) ==
  LET upto[n \in 0..Len(s)] ==
        IF n = 0 THEN <<>>
        ELSE IF s[n].part = "body" THEN Append(upto[n - 1], s[n].msg)
        ELSE upto[n - 1]
  IN upto[Len(s)]

Written == Whole(sent)

\* The block takes messages to its clients as a carrier does: each is written to
\* its end at most once and in its turn, or given up for good, whatever clients
\* come and go and however often the block is stopped and started.
Carrying == INSTANCE Carrier WITH
  Senders <- {1..MaxMessages},
  kept    <- {1..MaxMessages},
  sent    <- 1..offered,
  arrived <- Written,
  gone    <- {m \in 1..msg : /\ m = msg => ~Writing
                             /\ \A i \in DOMAIN Written : Written[i] # m}
CarrierSpec == Carrying!Spec

\* run waits in send() for a client that does not read.
SendWaits == pc["run"] \in {"headerWaits", "bodyWaits"}

\* stop() returns, unless run waits for ever for a client that does not read, or
\* the reader blocks: it went to sleep after the last notification, or received
\* from a client that had just been installed and had no timeout yet.
StopsUnlessBlocked ==
  []<>~SendWaits =>
    (main = "joining" ~> (main = "stopped" \/ pc["read"] \in {"waiting", "recvForever"}))

\* When the installed client goes away this is noticed, whether or not there
\* is anything to send, unless the reader has missed the notification that
\* the client was there.
DeadClientNoticed ==
  \A c \in Clients :
    client_fd = c /\ peer[c] = "down"
      ~> (client_error \/ client_fd # c \/ stop_condition \/ pc["read"] = "waiting")

\* main_server.cpp, line 201: "stop all blocks".  stop() returns.
StopReturns == main = "joining" ~> main = "stopped"

\* README.md, line 17: the flows are "just transferred untouched".  A message
\* that is forwarded is one a client has sent.
MessagesUntouched ==
  \A i \in 1..Len(forwarded) :
    /\ forwarded[i].head.from = forwarded[i].tail.from
    /\ forwarded[i].tail.n = forwarded[i].head.n + 1

\* tcp_server.cpp, line 192: "if already one client connected just close
\* incoming connection".  A client is replaced only after it has gone.
HealthyClientKept ==
  [][\A c \in Clients : client_fd = c /\ client_fd' # c => peer[c] = "down"]_vars
=============================================================================
