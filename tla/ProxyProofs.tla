---------------------------- MODULE ProxyProofs ----------------------------
(***************************************************************************)
(* Proofs about Proxy, for any number of messages and requests: the types, *)
(* and that what the two programs and the network do to the receiver is    *)
(* what ScreamClient says may happen to it, so that what is proved of it   *)
(* holds in the composition.  In the second part, the routes: a message is *)
(* only where the wiring of the two programs leads its flow.  What comes   *)
(* out at an end therefore belongs there, and audio and the game client's  *)
(* input never meet a block with nowhere to send them.                     *)
(***************************************************************************)
EXTENDS Proxy, ScreamClientProofs

Types    == {"RAW", "RTP_PACKET", "BITRATE_REQUEST"}
Messages == [type : Types, body : Bodies]
PacketMessages == [type : Types, body : Packets]

\* The blocks that handle packets of the game and no bitrate requests.
PacketBlocks == QueueBlocks \ (TcpBlocks \cup {BrmConverter})

\* Queues with messages in them, only packets where only packets belong.
QueuesTyped(q) ==
  /\ q \in [QueueBlocks -> Seq(Messages)]
  /\ \A b \in PacketBlocks : q[b] \in Seq(PacketMessages)

Datagrams  == [host : Hosts, port : Nat, body : Packets]
Deliveries == [host : Ends, port : Nat, body : Bodies]

\* A TcpServer as the model sees it.
ServerStates == [client_error : BOOLEAN, failing : SUBSET Calls,
                 reader : {"reading", "deciding", "asleep"}, stale : BOOLEAN]

\* Everything outside ScreamClient has its type.
RelayTyped ==
  /\ flow \in Flows
  /\ offered \in 0..MaxPackets /\ requested \in 0..MaxRequests
  /\ QueuesTyped(queue)
  /\ net \subseteq Datagrams
  /\ stream \in [Streams -> Seq(Bodies)]
  /\ connected \subseteq Connections
  /\ server \in [Servers -> ServerStates]
  /\ delivered \in Seq(Deliveries)
  /\ lost \subseteq Bodies /\ dropped \subseteq Bodies

\* What a step has to do: keep the types, and to the receiver only what may
\* happen to it.
Safe == RelayTyped' /\ [ClientNext]_clientVars

-----------------------------------------------------------------------------
\* The wiring.

\* A block of each kind is a pair of a program and a name in its table.
LEMMA BlockNames ==
  /\ \A b \in UdpBlocks : /\ b = <<b[1], b[2]>> /\ b[1] \in Proxies
                          /\ b[2] \in DOMAIN Sockets[b[1]] \ {"scream"}
  /\ \A b \in TcpBlocks : /\ b = <<b[1], b[2]>> /\ b[1] \in Proxies
                          /\ b[2] \in DOMAIN Tcp[b[1]]
  /\ \A b \in QueueBlocks : b = <<b[1], b[2]>>
  BY DEF UdpBlocks, TcpBlocks, QueueBlocks, BlocksOf, ServerScream, ServerConverter,
         BrmConverter

\* Every port is a number and every remote host exists.
LEMMA SocketFields ==
  \A b \in UdpBlocks \cup {ServerScream} :
    Socket(b).host \in Hosts /\ Socket(b).remote \in Nat
  <1>1. \A n \in DOMAIN ServerSockets :
          ServerSockets[n].host \in Hosts /\ ServerSockets[n].remote \in Nat
    BY DEF ServerSockets, To, Hosts, Proxies, Ends
  <1>2. \A n \in DOMAIN ClientSockets :
          ClientSockets[n].host \in Hosts /\ ClientSockets[n].remote \in Nat
    BY DEF ClientSockets, To, Hosts, Proxies, Ends
  <1>3. Sockets["proxy_server"] = ServerSockets /\ Sockets["proxy_client"] = ClientSockets
    BY DEF Sockets
  <1>4. "scream" \in DOMAIN ServerSockets
    BY DEF ServerSockets
  <1>5. QED
    BY <1>1, <1>2, <1>3, <1>4, BlockNames DEF Socket, ServerScream, Proxies

\* The TCP blocks by name.
LEMMA TcpNames ==
  TcpBlocks = {<<"proxy_server", "tcp_server">>, <<"proxy_server", "tcp_client">>,
               <<"proxy_client", "client_side_command_stream">>,
               <<"proxy_client", "server_side_command_stream">>}
  BY DEF TcpBlocks, BlocksOf, Tcp, ServerTcp, ClientTcp, Proxies

\* What goes into the command streams stays there: TCP blocks and the bitrate
\* converter feed TCP blocks, and a bitrate request goes to that converter.
LEMMA CommandsApart ==
  /\ \A b \in TcpBlocks \cup {BrmConverter} : Registered(b, "RAW") \subseteq TcpBlocks
  /\ Registered(ServerScream, "BITRATE_REQUEST") \subseteq {BrmConverter}
  <1>1. ASSUME NEW b \in TcpBlocks \cup {BrmConverter}, NEW c \in Registered(b, "RAW")
        PROVE  c \in TcpBlocks
    <2>1. c = <<b[1], c[2]>> /\ <<b[2], "RAW", c[2]>> \in Queues[b[1]]
      BY <1>1, BlockNames DEF Registered
    <2>2. QED
      BY <1>1, <2>1, TcpNames DEF Queues, ServerQueues, ClientQueues, BrmConverter
  <1>2. ASSUME NEW c \in Registered(ServerScream, "BITRATE_REQUEST")
        PROVE  c = BrmConverter
    <2>1. c = <<"proxy_server", c[2]>>
          /\ <<"scream", "BITRATE_REQUEST", c[2]>> \in Queues["proxy_server"]
      BY <1>2, BlockNames DEF Registered, ServerScream
    <2>2. QED
      BY <2>1 DEF Queues, ServerQueues, BrmConverter
  <1>3. QED
    BY <1>1, <1>2

\* Every TCP block, and every end, reads and writes a stream that exists.
LEMMA StreamNames ==
  /\ \A b \in TcpBlocks : ReadsOf(b) \in Streams /\ WritesOf(b) \in Streams
  /\ \A end \in Ends : EndReads(end) \in Streams /\ EndReads(end)[1][2] \in Nat
  /\ \A end \in Ends : EndWrites(end) \in Streams
  <1>1. \A b \in TcpBlocks : ReadsOf(b) \in Streams /\ WritesOf(b) \in Streams
    BY DEF ReadsOf, WritesOf, Streams, Connections
  <1>2. Connection(<<"proxy_server", "tcp_client">>) = <<"game_server", 9999>>
    BY DEF Connection, Accepting, Tcp, ServerTcp, To
  <1>3. Connection(<<"proxy_client", "client_side_command_stream">>)
          = <<"proxy_client", 19999>>
    BY DEF Connection, Accepting, Tcp, ClientTcp, To
  <1>4. <<"game_server", 9999>> \in Connections /\ <<"proxy_client", 19999>> \in Connections
    BY <1>2, <1>3, TcpNames DEF Connections
  <1>5. QED
    BY <1>1, <1>4 DEF EndReads, EndWrites, Streams, Ends

\* Every flow starts at a port of the program next to its source.
LEMMA FlowFields ==
  \A f \in Flows : /\ Near(f.from) \in Hosts /\ f.entry \in Nat
                   /\ f.name = "commands" => f.from \in Ends
  BY DEF Flows, Flow, Near, Hosts, Proxies, Ends
-----------------------------------------------------------------------------
\* Queues.

\* What a block forwards finds its way into queues of its type.
LEMMA ForwardTyped ==
  ASSUME NEW q, QueuesTyped(q), NEW b, NEW type \in Types, NEW x \in Bodies,
         x \in Packets \/ Registered(b, type) \cap PacketBlocks = {}
  PROVE  QueuesTyped(ForwardInto(q, b, type, x))
  <1> DEFINE m == [type |-> type, body |-> x]
             r == ForwardInto(q, b, type, x)
  <1>1. m \in Messages /\ (x \in Packets => m \in PacketMessages)
    BY DEF Messages, PacketMessages
  <1>2. \A c \in QueueBlocks :
          r[c] = IF c \in Registered(b, type) THEN Append(q[c], m) ELSE q[c]
    BY DEF ForwardInto
  <1>3. r \in [QueueBlocks -> Seq(Messages)]
    <2>1. ASSUME NEW c \in QueueBlocks PROVE r[c] \in Seq(Messages)
      <3>1. q[c] \in Seq(Messages)
        BY DEF QueuesTyped
      <3>2. Append(q[c], m) \in Seq(Messages)
        BY <1>1, <3>1
      <3>3. QED
        BY <1>2, <3>1, <3>2
    <2>2. QED
      BY <2>1 DEF ForwardInto
  <1>4. ASSUME NEW c \in PacketBlocks PROVE r[c] \in Seq(PacketMessages)
    <2>1. q[c] \in Seq(PacketMessages) /\ c \in QueueBlocks
      BY DEF QueuesTyped, PacketBlocks
    <2>2. CASE c \in Registered(b, type)
      <3>1. x \in Packets
        BY <2>2
      <3>2. Append(q[c], m) \in Seq(PacketMessages)
        BY <1>1, <2>1, <3>1
      <3>3. QED
        BY <1>2, <2>1, <2>2, <3>2
    <2>3. CASE c \notin Registered(b, type)
      BY <1>2, <2>1, <2>3
    <2>4. QED
      BY <2>2, <2>3
  <1>5. QED
    BY <1>3, <1>4 DEF QueuesTyped

\* What a block takes is a message, a packet if it handles packets.
LEMMA TakenTyped ==
  ASSUME QueuesTyped(queue), NEW b \in QueueBlocks, queue[b] # <<>>
  PROVE  /\ QueuesTyped(Taken(b))
         /\ Head(queue[b]).type \in Types
         /\ Head(queue[b]).body \in Bodies
         /\ b \in PacketBlocks => Head(queue[b]).body \in Packets
  <1>1. queue \in [QueueBlocks -> Seq(Messages)] /\ queue[b] \in Seq(Messages)
    BY DEF QueuesTyped
  <1>2. Head(queue[b]) \in Messages /\ Tail(queue[b]) \in Seq(Messages)
    BY <1>1
  <1>3. ASSUME b \in PacketBlocks
        PROVE  /\ Head(queue[b]) \in PacketMessages
               /\ Tail(queue[b]) \in Seq(PacketMessages)
    <2>1. queue[b] \in Seq(PacketMessages)
      BY <1>3 DEF QueuesTyped
    <2>2. QED
      BY <2>1
  <1>4. Taken(b) \in [QueueBlocks -> Seq(Messages)]
    BY <1>1, <1>2 DEF Taken
  <1>5. ASSUME NEW c \in PacketBlocks
        PROVE  Taken(b)[c] \in Seq(PacketMessages)
    <2>1. c \in QueueBlocks /\ queue[c] \in Seq(PacketMessages)
      BY DEF QueuesTyped, PacketBlocks
    <2>2. Taken(b)[c] = IF c = b THEN Tail(queue[b]) ELSE queue[c]
      BY <1>1, <2>1 DEF Taken
    <2>3. QED
      BY <1>3, <1>5, <2>1, <2>2
  <1>6. QED
    BY <1>2, <1>3, <1>4, <1>5 DEF QueuesTyped, Messages, PacketMessages
-----------------------------------------------------------------------------
\* The numbers of packets and of requests are bodies.
LEMMA BodyFacts ==
  /\ Packets \subseteq Bodies
  /\ RelayTyped /\ offered < MaxPackets => offered + 1 \in Packets \cap 0..MaxPackets
  /\ RelayTyped /\ requested < MaxRequests =>
       MaxPackets + requested + 1 \in Bodies /\ requested + 1 \in 0..MaxRequests
  BY ClientAssumption, RequestsAssumption DEF Packets, Requests, Bodies, RelayTyped

\* A datagram for the receiver is an arrival; every other is on its way.
LEMMA SendTyped ==
  ASSUME net \subseteq Datagrams, NEW host \in Hosts, NEW port \in Nat,
         NEW x \in Packets, SendTo(host, port, x)
  PROVE  /\ net' \subseteq Datagrams
         /\ inbound' = inbound \/ inbound' = inbound \cup {x}
  BY DEF SendTo, Datagrams

LEMMA ArrivalRefines ==
  ASSUME NEW x \in Packets, UNCHANGED <<innerVars, out>>,
         inbound' = inbound \/ inbound' = inbound \cup {x}
  PROVE  [ClientNext]_clientVars
  BY DEF innerVars, clientVars, mainVars, packetVars, receiver, ClientNext, Arrive

\* What is forwarded or has nowhere to go keeps its type.
LEMMA ForwardKeeps ==
  ASSUME NEW q, QueuesTyped(q), NEW b, NEW type \in Types, NEW x \in Bodies,
         dropped \subseteq Bodies, Forward(q, b, type, x),
         x \in Packets \/ Registered(b, type) \cap PacketBlocks = {}
  PROVE  QueuesTyped(queue') /\ dropped' \subseteq Bodies
  BY ForwardTyped DEF Forward

\* Blocks for the game's packets, of any kind.
LEMMA PacketBlockFacts ==
  /\ UdpBlocks \cup {ServerScream, ServerConverter} \subseteq PacketBlocks
  /\ UdpBlocks \cup TcpBlocks \cup {ServerScream, ServerConverter, BrmConverter}
       \subseteq QueueBlocks
  <1>1. UdpBlocks \cap TcpBlocks = {}
    BY TcpNames, BlockNames DEF Sockets, ServerSockets, ClientSockets
  <1>2. BrmConverter \notin UdpBlocks
    BY BlockNames DEF Sockets, ServerSockets, BrmConverter
  <1>3. /\ ServerScream \notin TcpBlocks /\ ServerConverter \notin TcpBlocks
        /\ ServerScream # BrmConverter /\ ServerConverter # BrmConverter
    BY TcpNames DEF ServerScream, ServerConverter, BrmConverter
  <1>4. QED
    BY <1>1, <1>2, <1>3 DEF PacketBlocks, QueueBlocks

-----------------------------------------------------------------------------
\* The steps.

LEMMA UdpStep ==
  ASSUME RelayTyped, inbound \subseteq Packets, NEW b \in UdpBlocks,
         UdpRead(b) \/ UdpRun(b)
  PROVE  Safe
  <1>1. CASE UdpRead(b)
    <2>1. PICK d \in net : net' = net \ {d} /\ Forward(queue, b, "RAW", d.body)
      BY <1>1 DEF UdpRead
    <2>2. d.body \in Packets /\ d.body \in Bodies
      BY BodyFacts DEF RelayTyped, Datagrams
    <2>3. QueuesTyped(queue') /\ dropped' \subseteq Bodies
      BY <2>1, <2>2, ForwardKeeps DEF RelayTyped, Types
    <2>4. RelayTyped'
      BY <1>1, <2>1, <2>3 DEF UdpRead, RelayTyped
    <2>5. QED
      BY <1>1, <2>4
         DEF Safe, UdpRead, innerVars, clientVars, mainVars, packetVars, receiver
  <1>2. CASE UdpRun(b)
    <2> DEFINE x == Head(queue[b]).body
    <2>1. QueuesTyped(Taken(b)) /\ x \in Packets /\ x \in Bodies
      BY <1>2, TakenTyped, PacketBlockFacts, BodyFacts DEF UdpRun, RelayTyped
    <2>2. /\ net' \subseteq Datagrams
          /\ inbound' = inbound \/ inbound' = inbound \cup {x}
          /\ dropped' \subseteq Bodies
      <3>1. CASE Socket(b).remote = 0
        BY <1>2, <2>1, <3>1 DEF UdpRun, RelayTyped
      <3>2. CASE Socket(b).remote # 0
        <4>1. SendTo(Socket(b).host, Socket(b).remote, x) /\ dropped' = dropped
          BY <1>2, <3>2 DEF UdpRun
        <4>2. QED
          BY <2>1, <4>1, SendTyped, SocketFields DEF RelayTyped
      <3>3. QED
        BY <3>1, <3>2
    <2>3. RelayTyped'
      BY <1>2, <2>1, <2>2 DEF UdpRun, RelayTyped
    <2>4. [ClientNext]_clientVars
      BY <1>2, <2>1, <2>2, ArrivalRefines DEF UdpRun
    <2>5. QED
      BY <2>3, <2>4 DEF Safe
  <1>3. QED
    BY <1>1, <1>2

LEMMA ConverterStep ==
  ASSUME RelayTyped, out \in Seq(Packets),
         ConvertToRtp \/ ConvertToCommand \/ ConvertToRaw
  PROVE  Safe
  <1>1. ASSUME NEW b \in {ServerConverter, BrmConverter}, NEW U, NEW V \in Types,
               Convert(b, U, V),
               b \in PacketBlocks \/ Registered(b, V) \cap PacketBlocks = {}
        PROVE  Safe
    <2> DEFINE m == Head(queue[b])
    <2>1. /\ QueuesTyped(Taken(b)) /\ m.body \in Bodies
          /\ b \in PacketBlocks => m.body \in Packets
      BY <1>1, TakenTyped, PacketBlockFacts DEF Convert, RelayTyped
    <2>2. QueuesTyped(queue') /\ dropped' \subseteq Bodies
      <3>1. CASE m.type = U
        <4>1. Forward(Taken(b), b, V, m.body)
          BY <1>1, <3>1 DEF Convert
        <4>2. QED
          BY <1>1, <2>1, <4>1, ForwardKeeps DEF RelayTyped
      <3>2. CASE m.type # U
        BY <1>1, <2>1, <3>2 DEF Convert, RelayTyped
      <3>3. QED
        BY <3>1, <3>2
    <2>3. UNCHANGED <<clientVars, flow, offered, requested, net, stream, connected, server,
                      delivered, lost>>
      BY <1>1 DEF Convert
    <2>4. QED
      BY <2>2, <2>3 DEF Safe, RelayTyped
  <1>2. CASE ConvertToRtp
    BY <1>1, <1>2, PacketBlockFacts DEF ConvertToRtp, Types
  <1>3. CASE ConvertToCommand
    BY <1>1, <1>3, CommandsApart DEF ConvertToCommand, Types, PacketBlocks
  <1>4. CASE ConvertToRaw
    <2>1. Take /\ Forward(queue, ClientConverter, "RAW", Head(out))
          /\ UNCHANGED <<flow, offered, requested, net, stream, connected, server, delivered,
                         lost>>
      BY <1>4 DEF ConvertToRaw
    <2>2. Head(out) \in Packets /\ Head(out) \in Bodies
      BY <2>1, BodyFacts DEF Take
    <2>3. QueuesTyped(queue') /\ dropped' \subseteq Bodies
      BY <2>1, <2>2, ForwardKeeps DEF RelayTyped, Types
    <2>4. QED
      BY <2>1, <2>3 DEF Safe, RelayTyped, ClientNext
  <1>5. QED
    BY <1>2, <1>3, <1>4

LEMMA ScreamStep ==
  ASSUME RelayTyped, ScreamSend \/ ScreamRequest \/ ScreamDiscard PROVE Safe
  <1>1. CASE ScreamSend
    <2> DEFINE b == ServerScream
               x == Head(queue[b]).body
    <2>1. QueuesTyped(Taken(b)) /\ x \in Packets
      BY <1>1, TakenTyped, PacketBlockFacts DEF ScreamSend, RelayTyped
    <2>2. SendTo(Socket(b).host, Socket(b).remote, x)
      BY <1>1 DEF ScreamSend
    <2>3. net' \subseteq Datagrams /\ (inbound' = inbound \/ inbound' = inbound \cup {x})
      BY <2>1, <2>2, SendTyped, SocketFields DEF RelayTyped
    <2>4. RelayTyped'
      BY <1>1, <2>1, <2>3 DEF ScreamSend, RelayTyped
    <2>5. [ClientNext]_clientVars
      BY <1>1, <2>1, <2>3, ArrivalRefines DEF ScreamSend
    <2>6. QED
      BY <2>4, <2>5 DEF Safe
  <1>2. CASE ScreamRequest
    <2>1. /\ requested < MaxRequests /\ requested' = requested + 1
          /\ Forward(queue, ServerScream, "BITRATE_REQUEST", MaxPackets + requested + 1)
          /\ UNCHANGED <<clientVars, flow, offered, net, stream, connected, server, delivered,
                         lost>>
      BY <1>2 DEF ScreamRequest
    <2>2. MaxPackets + requested + 1 \in Bodies /\ requested' \in 0..MaxRequests
      BY <2>1, BodyFacts
    <2>3. Registered(ServerScream, "BITRATE_REQUEST") \cap PacketBlocks = {}
      BY CommandsApart DEF PacketBlocks
    <2>4. QueuesTyped(queue') /\ dropped' \subseteq Bodies
      BY <2>1, <2>2, <2>3, ForwardKeeps DEF RelayTyped, Types
    <2>5. QED
      BY <2>1, <2>2, <2>4 DEF Safe, RelayTyped
  <1>3. CASE ScreamDiscard
    <2> DEFINE b == ServerScream
               x == Head(queue[b]).body
    <2>1. QueuesTyped(Taken(b)) /\ x \in Bodies
      BY <1>3, TakenTyped, PacketBlockFacts DEF ScreamDiscard, RelayTyped
    <2>2. QED
      BY <1>3, <2>1 DEF ScreamDiscard, Safe, RelayTyped
  <1>4. QED
    BY <1>1, <1>2, <1>3

\* Streams and ends, message by message.
LEMMA WriteTyped ==
  ASSUME RelayTyped, NEW s \in Streams, NEW x \in Bodies, WriteTo(s, x)
  PROVE  stream' \in [Streams -> Seq(Bodies)] /\ lost' \subseteq Bodies
  <1>1. stream \in [Streams -> Seq(Bodies)] /\ lost \subseteq Bodies
    BY DEF RelayTyped
  <1>2. Append(stream[s], x) \in Seq(Bodies)
    BY <1>1
  <1>3. QED
    BY <1>1, <1>2 DEF WriteTo

LEMMA ReadTyped ==
  ASSUME RelayTyped, NEW s \in Streams, stream[s] # <<>>,
         stream' = [stream EXCEPT ![s] = Tail(@)]
  PROVE  Head(stream[s]) \in Bodies /\ stream' \in [Streams -> Seq(Bodies)]
  <1>1. stream \in [Streams -> Seq(Bodies)] /\ stream[s] \in Seq(Bodies)
    BY DEF RelayTyped
  <1>2. Head(stream[s]) \in Bodies /\ Tail(stream[s]) \in Seq(Bodies)
    BY <1>1
  <1>3. QED
    BY <1>1, <1>2

LEMMA DeliverTyped ==
  ASSUME delivered \in Seq(Deliveries), NEW end \in Ends, NEW port \in Nat,
         NEW x \in Bodies, Deliver(end, port, x)
  PROVE  delivered' \in Seq(Deliveries)
  <1>1. [host |-> end, port |-> port, body |-> x] \in Deliveries
    BY DEF Deliveries
  <1>2. QED
    BY <1>1 DEF Deliver

\* A TcpServer of which one thing has changed has its type.
LEMMA ServerTyped ==
  ASSUME server \in [Servers -> ServerStates], NEW b \in Servers
  PROVE  /\ \A call \in Calls :
              [server EXCEPT ![b].failing = @ \cup {call}] \in [Servers -> ServerStates]
         /\ \A call \in Calls :
              [server EXCEPT ![b].failing = @ \ {call}, ![b].client_error = TRUE]
                \in [Servers -> ServerStates]
         /\ \A more \in BOOLEAN :
              [server EXCEPT ![b].stale = more] \in [Servers -> ServerStates]
         /\ \A to \in {"reading", "deciding", "asleep"} :
              [server EXCEPT ![b].reader = to] \in [Servers -> ServerStates]
  <1>1. server[b] \in ServerStates
    OBVIOUS
  <1>2. ASSUME NEW call \in Calls
        PROVE  [server EXCEPT ![b].failing = @ \cup {call}] \in [Servers -> ServerStates]
    BY <1>1 DEF ServerStates
  <1>3. ASSUME NEW call \in Calls
        PROVE  [server EXCEPT ![b].failing = @ \ {call}, ![b].client_error = TRUE]
                 \in [Servers -> ServerStates]
    BY <1>1 DEF ServerStates
  <1>4. ASSUME NEW more \in BOOLEAN
        PROVE  [server EXCEPT ![b].stale = more] \in [Servers -> ServerStates]
    BY <1>1 DEF ServerStates
  <1>5. ASSUME NEW to \in {"reading", "deciding", "asleep"}
        PROVE  [server EXCEPT ![b].reader = to] \in [Servers -> ServerStates]
    BY <1>1 DEF ServerStates
  <1>6. QED
    BY <1>2, <1>3, <1>4, <1>5

\* What a TCP block does with the message it takes from its queue: it writes it, or
\* drops it.
WritesOrDrops(b) ==
  LET x == Head(queue[b]).body
  IN  /\ queue[b] # <<>> /\ queue' = Taken(b)
      /\ \/ WriteTo(WritesOf(b), x) /\ dropped' = dropped
         \/ dropped' = dropped \cup {x} /\ stream' = stream /\ lost' = lost
      /\ UNCHANGED <<clientVars, flow, offered, requested, net, connected, delivered>>

\* What it does with the next message on its stream: it forwards it, or drops it.
ForwardsOrDrops(b) ==
  LET s == ReadsOf(b)
  IN  /\ stream[s] # <<>> /\ stream' = [stream EXCEPT ![s] = Tail(@)]
      /\ \/ Forward(queue, b, "RAW", Head(stream[s]))
         \/ dropped' = dropped \cup {Head(stream[s])} /\ queue' = queue
      /\ UNCHANGED <<clientVars, flow, offered, requested, net, connected, delivered, lost>>

LEMMA TcpSteps ==
  /\ \A b \in TcpClients : TcpClientRun(b) => WritesOrDrops(b) /\ server' = server
  /\ \A b \in TcpClients : TcpClientRead(b) => ForwardsOrDrops(b) /\ server' = server
  /\ \A b \in Servers : TcpServerRun(b) => WritesOrDrops(b)
  /\ \A b \in Servers : TcpServerRead(b) => ForwardsOrDrops(b)
  <1>1. \A b \in TcpClients : TcpClientRun(b) => WritesOrDrops(b) /\ server' = server
    BY DEF TcpClientRun, WritesOrDrops
  <1>2. \A b \in TcpClients : TcpClientRead(b) => ForwardsOrDrops(b) /\ server' = server
    BY DEF TcpClientRead, ForwardsOrDrops
  <1>3. \A b \in Servers : TcpServerRun(b) => WritesOrDrops(b)
    BY DEF TcpServerRun, WritesOrDrops
  <1>4. \A b \in Servers : TcpServerRead(b) => ForwardsOrDrops(b)
    BY DEF TcpServerRead, ForwardsOrDrops
  <1>5. QED
    BY <1>1, <1>2, <1>3, <1>4

LEMMA TcpKinds == Servers \subseteq TcpBlocks /\ TcpClients \subseteq TcpBlocks
  BY DEF Servers, TcpClients

\* Every step of a TCP block with a message keeps the types.
LEMMA TcpStep ==
  ASSUME RelayTyped, NEW b \in TcpBlocks, WritesOrDrops(b) \/ ForwardsOrDrops(b),
         server' \in [Servers -> ServerStates]
  PROVE  Safe
  <1>1. CASE WritesOrDrops(b)
    <2> DEFINE x == Head(queue[b]).body
    <2>0. /\ queue[b] # <<>> /\ queue' = Taken(b)
          /\ \/ WriteTo(WritesOf(b), x) /\ dropped' = dropped
             \/ dropped' = dropped \cup {x} /\ stream' = stream /\ lost' = lost
          /\ UNCHANGED <<clientVars, flow, offered, requested, net, connected, delivered>>
      BY <1>1 DEF WritesOrDrops
    <2>1. QueuesTyped(Taken(b)) /\ x \in Bodies
      BY <2>0, TakenTyped, PacketBlockFacts DEF RelayTyped
    <2>2. /\ stream' \in [Streams -> Seq(Bodies)]
          /\ lost' \subseteq Bodies /\ dropped' \subseteq Bodies
      BY <2>0, <2>1, WriteTyped, StreamNames DEF RelayTyped
    <2>3. QED
      BY <2>0, <2>1, <2>2 DEF Safe, RelayTyped
  <1>2. CASE ForwardsOrDrops(b)
    <2> DEFINE s == ReadsOf(b)
    <2>1. /\ stream[s] # <<>> /\ stream' = [stream EXCEPT ![s] = Tail(@)]
          /\ \/ Forward(queue, b, "RAW", Head(stream[s]))
             \/ dropped' = dropped \cup {Head(stream[s])} /\ queue' = queue
          /\ UNCHANGED <<clientVars, flow, offered, requested, net, connected, delivered,
                         lost>>
      BY <1>2 DEF ForwardsOrDrops
    <2>2. Head(stream[s]) \in Bodies /\ stream' \in [Streams -> Seq(Bodies)]
      BY <2>1, ReadTyped, StreamNames DEF RelayTyped
    <2>3. QueuesTyped(queue') /\ dropped' \subseteq Bodies
      <3>1. CASE Forward(queue, b, "RAW", Head(stream[s]))
        BY <2>2, <3>1, CommandsApart, ForwardKeeps DEF RelayTyped, Types, PacketBlocks
      <3>2. CASE dropped' = dropped \cup {Head(stream[s])} /\ queue' = queue
        BY <2>2, <3>2 DEF RelayTyped
      <3>3. QED
        BY <2>1, <3>1, <3>2
    <2>4. QED
      BY <2>1, <2>2, <2>3 DEF Safe, RelayTyped
  <1>3. QED
    BY <1>1, <1>2

\* So do the steps of a TcpServer.
LEMMA TcpServerStep ==
  ASSUME RelayTyped, NEW b \in Servers, TcpServerRun(b) \/ TcpServerRead(b)
  PROVE  Safe
  <1>1. server' \in [Servers -> ServerStates]
    <2>1. CASE server' = server
      BY <2>1 DEF RelayTyped
    <2>2. CASE CallFails(b, "run")
      BY <2>2, ServerTyped DEF RelayTyped, Calls, CallFails
    <2>3. ASSUME NEW more \in BOOLEAN, server' = [server EXCEPT ![b].stale = more]
          PROVE  server' \in [Servers -> ServerStates]
      <3>1. [server EXCEPT ![b].stale = more] \in [Servers -> ServerStates]
        BY ServerTyped DEF RelayTyped
      <3>2. QED
        BY <2>3, <3>1, Zenon
    <2>4. CASE TcpServerRun(b)
      <3>1. server' = server \/ CallFails(b, "run")
        BY <2>4 DEF TcpServerRun
      <3>2. QED
        BY <2>1, <2>2, <3>1
    <2>5. CASE TcpServerRead(b)
      <3>1. server' = server \/ \E more \in BOOLEAN : server' = [server EXCEPT ![b].stale = more]
        BY <2>5 DEF TcpServerRead
      <3>2. QED
        BY <2>1, <2>3, <3>1
    <2>6. QED
      BY <2>4, <2>5
  <1>2. QED
    BY <1>1, TcpSteps, TcpStep, TcpKinds

\* What its threads do between messages is seen in server only.
LEMMA ReaderSteps ==
  ASSUME RelayTyped, NEW b \in Servers,
         Reader(b) \/ TcpServerReport(b, "run") \/ ReaderSpuriousWakeup(b)
  PROVE  ServerOnly /\ server' \in [Servers -> ServerStates]
  <1>1. ServerOnly
    BY DEF Reader, TcpServerReport, ReaderSpuriousWakeup, ReaderDecides, ReaderSleeps,
           ReaderGoes, TcpServerReadFails
  <1> DEFINE typed == server' \in [Servers -> ServerStates]
  <1>2. CASE ReaderDecides(b) \/ ReaderSleeps(b) \/ ReaderSpuriousWakeup(b)
    <2>1. PICK to \in {"reading", "deciding", "asleep"} :
            server' = [server EXCEPT ![b].reader = to]
      BY <1>2 DEF ReaderDecides, ReaderSleeps, ReaderSpuriousWakeup, ReaderGoes
    <2>2. [server EXCEPT ![b].reader = to] \in [Servers -> ServerStates]
      BY ServerTyped DEF RelayTyped
    <2>3. QED
      BY <1>1, <2>1, <2>2, Zenon

  <1>3. CASE TcpServerReadFails(b)
    <2>1. server' = [server EXCEPT ![b].failing = @ \cup {"read"}] /\ "read" \in Calls
      BY <1>3 DEF TcpServerReadFails, CallFails, Calls
    <2>2. QED
      BY <1>1, <2>1, ServerTyped DEF RelayTyped
  <1>4. ASSUME NEW call \in Calls, TcpServerReport(b, call) PROVE typed
    <2>1. server' = [server EXCEPT ![b].failing = @ \ {call}, ![b].client_error = TRUE]
      BY <1>4 DEF TcpServerReport
    <2>2. QED
      BY <2>1, ServerTyped DEF RelayTyped
  <1>5. "run" \in Calls /\ "read" \in Calls
    BY DEF Calls
  <1>6. QED
    BY <1>1, <1>2, <1>3, <1>4, <1>5 DEF Reader

LEMMA ReaderStep ==
  ASSUME RelayTyped, NEW b \in Servers,
         Reader(b) \/ TcpServerReport(b, "run") \/ ReaderSpuriousWakeup(b)
  PROVE  Safe
  BY ReaderSteps DEF ServerOnly, Safe, RelayTyped

\* The ends of the game.
LEMMA EndStep ==
  ASSUME RelayTyped, GameSend \/ GameReceive \/ \E end \in Ends : GameRead(end)
  PROVE  Safe
  <1>1. CASE GameSend
    <2> DEFINE x == offered + 1
    <2>1. offered < MaxPackets /\ offered' = x /\ x \in Packets \cap 0..MaxPackets
      BY <1>1, BodyFacts DEF GameSend
    <2>2. UNCHANGED <<innerVars, out, flow, requested, queue, connected, server, delivered,
                      dropped>>
      BY <1>1 DEF GameSend
    <2>3. /\ net' \subseteq Datagrams
          /\ inbound' = inbound \/ inbound' = inbound \cup {x}
          /\ stream' \in [Streams -> Seq(Bodies)] /\ lost' \subseteq Bodies
      <3>1. CASE flow.name = "commands"
        <4>1. WriteTo(EndWrites(flow.from), x) /\ UNCHANGED <<net, inbound>>
          BY <1>1, <2>1, <3>1 DEF GameSend
        <4>2. EndWrites(flow.from) \in Streams
          BY <3>1, FlowFields, StreamNames DEF RelayTyped
        <4>3. QED
          BY <2>1, <4>1, <4>2, WriteTyped, BodyFacts DEF RelayTyped
      <3>2. CASE flow.name # "commands"
        <4>1. SendTo(Near(flow.from), flow.entry, x) /\ UNCHANGED <<stream, lost>>
          BY <1>1, <2>1, <3>2 DEF GameSend
        <4>2. Near(flow.from) \in Hosts /\ flow.entry \in Nat
          BY FlowFields DEF RelayTyped
        <4>3. QED
          BY <2>1, <4>1, <4>2, SendTyped DEF RelayTyped
      <3>3. QED
        BY <3>1, <3>2
    <2>4. RelayTyped'
      BY <2>1, <2>2, <2>3 DEF RelayTyped
    <2>5. [ClientNext]_clientVars
      BY <2>1, <2>2, <2>3, ArrivalRefines
    <2>6. QED
      BY <2>4, <2>5 DEF Safe
  <1>2. CASE GameReceive
    <2>1. PICK d \in net : d.host \in Ends /\ net' = net \ {d} /\ Deliver(d.host, d.port, d.body)
      BY <1>2 DEF GameReceive
    <2>2. d.host \in Ends /\ d.port \in Nat /\ d.body \in Bodies
      BY <2>1, BodyFacts DEF RelayTyped, Datagrams
    <2>3. delivered' \in Seq(Deliveries)
      BY <2>1, <2>2, DeliverTyped DEF RelayTyped
    <2>4. QED
      BY <1>2, <2>1, <2>3 DEF Safe, GameReceive, RelayTyped
  <1>3. ASSUME NEW end \in Ends, GameRead(end) PROVE Safe
    <2> DEFINE s == EndReads(end)
    <2>1. /\ stream[s] # <<>> /\ stream' = [stream EXCEPT ![s] = Tail(@)]
          /\ Deliver(end, s[1][2], Head(stream[s]))
          /\ UNCHANGED <<clientVars, flow, offered, requested, queue, net, connected, server,
                         lost, dropped>>
      BY <1>3 DEF GameRead
    <2>2. Head(stream[s]) \in Bodies /\ stream' \in [Streams -> Seq(Bodies)]
      BY <2>1, ReadTyped, StreamNames DEF RelayTyped
    <2>3. delivered' \in Seq(Deliveries)
      BY <2>1, <2>2, DeliverTyped, StreamNames DEF RelayTyped
    <2>4. QED
      BY <2>1, <2>2, <2>3 DEF Safe, RelayTyped
  <1>4. QED
    BY <1>1, <1>2, <1>3

\* What the network does.
LEMMA NetworkStep ==
  ASSUME RelayTyped, inbound \subseteq Packets,
         LoseDatagram \/ Reconnect \/ \E c \in Connections : Break(c)
  PROVE  Safe
  <1>1. CASE LoseDatagram
    <2>1. UNCHANGED <<flow, offered, requested, queue, stream, connected, server, delivered,
                      dropped>>
      BY <1>1 DEF LoseDatagram
    <2>2. CASE \E d \in net : /\ net' = net \ {d} /\ lost' = lost \cup {d.body}
                              /\ UNCHANGED clientVars
      BY <2>1, <2>2, BodyFacts DEF Safe, RelayTyped, Datagrams
    <2>3. CASE \E p \in inbound : Lose(p) /\ lost' = lost \cup {p} /\ UNCHANGED net
      <3>1. PICK p \in Packets : Lose(p) /\ lost' = lost \cup {p} /\ UNCHANGED net
        BY <2>3
      <3>2. QED
        BY <2>1, <3>1, BodyFacts DEF Safe, RelayTyped, ClientNext
    <2>4. QED
      BY <1>1, <2>2, <2>3 DEF LoseDatagram
  <1>2. CASE Reconnect
    <2> DEFINE b == <<"proxy_client", "client_side_command_stream">>
    <2>1. b \in Servers /\ Connection(b) \in Connections
      BY TcpNames DEF Servers, Connections, Accepting, Tcp, ClientTcp, To
    <2>2. connected' = connected \cup {Connection(b)}
      BY <1>2 DEF Reconnect
    <2>3. server[b] \in ServerStates
      BY <2>1 DEF RelayTyped
    <2>4. PICK to \in {"reading", "deciding", "asleep"}, part \in BOOLEAN :
            server' = [server EXCEPT ![b].client_error = FALSE, ![b].reader = to,
                                     ![b].stale = part]
      <3>1. PICK part \in BOOLEAN :
              server' = [server EXCEPT
                ![b].client_error = FALSE,
                ![b].reader = IF @ = "asleep" THEN "reading" ELSE @,
                ![b].stale = @ \/ part]
        BY <1>2 DEF Reconnect
      <3>2. (server[b].stale \/ part) \in BOOLEAN
            /\ (IF server[b].reader = "asleep" THEN "reading" ELSE server[b].reader)
                 \in {"reading", "deciding", "asleep"}
        BY <2>3 DEF ServerStates
      <3>3. QED
        BY <3>1, <3>2
    <2>5. server' \in [Servers -> ServerStates]
      BY <2>1, <2>3, <2>4 DEF RelayTyped, ServerStates
    <2>6. QED
      BY <1>2, <2>1, <2>2, <2>5 DEF Reconnect, Safe, RelayTyped
  <1>3. ASSUME NEW c \in Connections, Break(c) PROVE Safe
    <2>1. /\ connected' = connected \ {c}
          /\ stream' = [s \in Streams |-> IF s[1] = c THEN <<>> ELSE stream[s]]
          /\ lost' = lost \cup ToSet(stream[<<c, "to">>]) \cup ToSet(stream[<<c, "back">>])
          /\ UNCHANGED <<clientVars, flow, offered, requested, queue, net, server, delivered,
                         dropped>>
      BY <1>3 DEF Break
    <2>2. stream' \in [Streams -> Seq(Bodies)]
      <3>1. <<>> \in Seq(Bodies)
        OBVIOUS
      <3>2. QED
        BY <2>1, <3>1 DEF RelayTyped
    <2>3. <<c, "to">> \in Streams /\ <<c, "back">> \in Streams
      BY DEF Streams
    <2>4. ASSUME NEW s \in Streams PROVE ToSet(stream[s]) \subseteq Bodies
      <3>1. stream[s] \in Seq(Bodies)
        BY DEF RelayTyped
      <3>2. QED
        BY <3>1 DEF ToSet
    <2>5. QED
      BY <2>1, <2>2, <2>3, <2>4 DEF Safe, RelayTyped
  <1>4. QED
    BY <1>1, <1>2, <1>3

\* ScreamClient's own steps.
LEMMA ReceiverStep ==
  ASSUME RelayTyped, Receiver, UNCHANGED <<flow, relayVars>> PROVE Safe
  BY DEF Receiver, Ending, Looping, Feedback, Clock, relayVars, Safe, RelayTyped, ClientNext,
         ClientStep

-----------------------------------------------------------------------------
\* The composition.

LEMMA ProxyInit == Init => IInv /\ RelayTyped
  <1> SUFFICES ASSUME Init PROVE IInv /\ RelayTyped
    OBVIOUS
  <1>1. offered \in 0..MaxPackets /\ requested \in 0..MaxRequests
    BY ClientAssumption, RequestsAssumption DEF Init
  <1>2. /\ <<>> \in Seq(Messages) /\ <<>> \in Seq(PacketMessages)
        /\ <<>> \in Seq(Bodies) /\ <<>> \in Seq(Deliveries)
    OBVIOUS
  <1>3. QueuesTyped(queue)
    BY <1>2 DEF Init, QueuesTyped, PacketBlocks
  <1>4. server \in [Servers -> ServerStates]
    BY DEF Init, AtWork, ServerStates
  <1>5. QED
    BY <1>1, <1>2, <1>3, <1>4, InitInv DEF Init, RelayTyped

LEMMA ProxyInductive ==
  ASSUME IInv, RelayTyped, [Next]_proxyVars
  PROVE  IInv' /\ RelayTyped' /\ [ClientNext]_clientVars
  <1>1. inbound \subseteq Packets /\ out \in Seq(Packets)
    BY DEF IInv, ClientTypeOK
  <1>2. Safe
    <2>1. CASE UNCHANGED proxyVars
      BY <2>1 DEF proxyVars, relayVars, Safe, RelayTyped
    <2>2. CASE Receiver /\ UNCHANGED <<flow, relayVars>>
      BY <2>2, ReceiverStep
    <2>3. CASE Relay
      <3>1. ASSUME NEW b \in TcpClients, TcpClientRun(b) \/ TcpClientRead(b) PROVE Safe
        BY <3>1, TcpSteps, TcpStep, TcpKinds DEF RelayTyped
      <3>2. QED
        BY <1>1, <2>3, <3>1, UdpStep, ConverterStep, ScreamStep, TcpServerStep, EndStep
           DEF Relay
    <2>4. CASE Environment
      BY <1>1, <2>4, EndStep, ScreamStep, NetworkStep, ReaderStep DEF Environment
    <2>5. CASE \E b \in Servers : Reader(b) \/ TcpServerReport(b, "run")
      BY <2>5, ReaderStep
    <2>6. QED
      BY <2>1, <2>2, <2>3, <2>4, <2>5 DEF Next
  <1>3. QED
    BY <1>2, ClientInductive DEF Safe

LEMMA ProxyInvariance == Spec => [](IInv /\ RelayTyped)
  BY ProxyInit, ProxyInductive, PTL DEF Spec

\* Every variable of the composition keeps its type: no block is handed a kind
\* of message it was not made for, however many there are.
THEOREM ProxyTypeCorrect == Spec => []TypeOK
  <1>1. IInv /\ RelayTyped => TypeOK
    BY DEF IInv, RelayTyped, TypeOK, QueuesTyped, Messages, Types, Datagrams, Deliveries,
           ServerStates
  <1>2. QED
    BY <1>1, ProxyInvariance, PTL

\* The programs and the network do to the receiver only what ScreamClient says
\* may happen to it: the composition implements its specification.
LEMMA Refines == Spec => ClientSpec
  <1>1. Init => ClientInit
    BY DEF Init
  <1>2. QED
    BY <1>1, ProxyInvariance, ProxyInductive, PTL DEF Spec, ClientSpec

\* In the composition, too, no packet waits too long for its report, and a
\* feedback that reports nothing is sent only after one of run's.
THEOREM FeedbackInComposition ==
  Spec => []ReportedInTime /\ []NothingNewOnlyIfOvertaken
  BY Refines, InTime, NothingNew, PTL

-----------------------------------------------------------------------------
\* The routes: where the messages of a flow may be.

\* The blocks whose queue the messages of each flow pass, by the flow's name
\* and source.
QueueRoutes == {
  <<"video_rtp", "game_server", ServerConverter>>,
  <<"video_rtp", "game_server", ServerScream>>,
  <<"video_rtp", "game_server", <<"proxy_client", "client_side_video_rtp">>>>,
  <<"video_rtcp", "game_server", <<"proxy_server", "client_side_video_rtcp">>>>,
  <<"audio_rtp", "game_server", <<"proxy_server", "client_side_audio_rtp">>>>,
  <<"audio_rtp", "game_server", <<"proxy_client", "client_side_audio_rtp">>>>,
  <<"audio_rtcp", "game_server", <<"proxy_server", "client_side_audio_rtcp">>>>,
  <<"input", "game_server", <<"proxy_server", "client_side_input_stream">>>>,
  <<"commands", "game_server", <<"proxy_server", "tcp_server">>>>,
  <<"commands", "game_server", <<"proxy_client", "client_side_command_stream">>>>,
  <<"video_rtcp", "game_client", <<"proxy_client", "server_side_video_rtcp">>>>,
  <<"video_rtcp", "game_client", <<"proxy_server", "server_side_video_rtcp">>>>,
  <<"audio_rtcp", "game_client", <<"proxy_client", "server_side_audio_rtcp">>>>,
  <<"audio_rtcp", "game_client", <<"proxy_server", "server_side_audio_rtcp">>>>,
  <<"input", "game_client", <<"proxy_client", "server_side_input_stream">>>>,
  <<"input", "game_client", <<"proxy_server", "server_side_input_stream">>>>,
  <<"commands", "game_client", <<"proxy_client", "server_side_command_stream">>>>,
  <<"commands", "game_client", <<"proxy_server", "tcp_client">>>>,
  <<"commands", "game_client", BrmConverter>>}

\* The addresses its datagrams are sent to, that of ScreamClient's socket apart.
AddressRoutes == {
  <<"video_rtp", "game_server", <<"proxy_server", 10002>>>>,
  <<"video_rtp", "game_server", <<"game_client", 10002>>>>,
  <<"video_rtcp", "game_server", <<"proxy_server", 10003>>>>,
  <<"video_rtcp", "game_server", <<"proxy_client", 30003>>>>,
  <<"audio_rtp", "game_server", <<"proxy_server", 10000>>>>,
  <<"audio_rtp", "game_server", <<"proxy_client", 30000>>>>,
  <<"audio_rtp", "game_server", <<"game_client", 10000>>>>,
  <<"audio_rtcp", "game_server", <<"proxy_server", 10001>>>>,
  <<"audio_rtcp", "game_server", <<"proxy_client", 30001>>>>,
  <<"input", "game_server", <<"proxy_server", 19999>>>>,
  <<"input", "game_server", <<"proxy_client", 29999>>>>,
  <<"video_rtcp", "game_client", <<"proxy_client", 20003>>>>,
  <<"video_rtcp", "game_client", <<"proxy_server", 30003>>>>,
  <<"audio_rtcp", "game_client", <<"proxy_client", 20001>>>>,
  <<"audio_rtcp", "game_client", <<"proxy_server", 30001>>>>,
  <<"input", "game_client", <<"proxy_client", 19999>>>>,
  <<"input", "game_client", <<"proxy_server", 29999>>>>,
  <<"input", "game_client", <<"game_server", 9999>>>>}

QueuesOf(f)    == {b \in QueueBlocks : <<f.name, f.from, b>> \in QueueRoutes}
AddressesOf(f) == {a \in Hosts \X Nat : <<f.name, f.from, a>> \in AddressRoutes}
StreamsOf(f)   ==
  IF f.name = "commands"
  THEN Connections \X {IF f.from = "game_server" THEN "back" ELSE "to"}
  ELSE {}

\* The type of the messages each block is handed.
TypeFor(b) ==
  IF b = ServerScream THEN "RTP_PACKET"
  ELSE IF b = BrmConverter THEN "BITRATE_REQUEST" ELSE "RAW"

\* ScreamClient's socket.
ScreamAddress == <<"proxy_client", 30002>>

\* Queues with messages only in the blocks on the route, of the type for them.
QueuesRouted(q, f) ==
  \A b \in QueueBlocks :
    /\ q[b] # <<>> => b \in QueuesOf(f)
    /\ \A i \in DOMAIN q[b] : q[b][i].type = TypeFor(b)

\* Datagrams only at addresses on the route.
NetRouted(f) ==
  /\ \A d \in net : <<d.host, d.port>> \in AddressesOf(f)
  /\ inbound # {} \/ out # <<>> => f.name \in ThroughScream

\* Messages only on streams of the route.
StreamsRouted(st, f) == \A s \in Streams : st[s] # <<>> => s \in StreamsOf(f)

\* No message is off its route, and what has come out or has been dropped is as
\* FlowsApart and NeverDropped say.
RouteInv ==
  /\ QueuesRouted(queue, flow)
  /\ NetRouted(flow)
  /\ StreamsRouted(stream, flow)
  /\ FlowsApart
  /\ NeverDropped

-----------------------------------------------------------------------------
\* The wiring.

\* A queue is registered for messages of one type, and a block has one queue to
\* forward messages of a type to.
LEMMA Registrations ==
  ASSUME NEW b, NEW type, NEW c \in Registered(b, type)
  PROVE  /\ type = TypeFor(c)
         /\ \A d \in Registered(b, type) : d = c
  <1>1. ASSUME NEW d \in Registered(b, type)
        PROVE  /\ d \in QueueBlocks /\ d = <<b[1], d[2]>>
               /\ <<b[2], type, d[2]>> \in Queues[b[1]]
               /\ b[1] \in Proxies
    <2>1. d \in QueueBlocks /\ d = <<b[1], d[2]>> /\ <<b[2], type, d[2]>> \in Queues[b[1]]
      BY <1>1, BlockNames DEF Registered
    <2>2. d[1] \in Proxies
      BY <2>1, BlockNames DEF QueueBlocks, ServerScream, ServerConverter, BrmConverter, Proxies
    <2>3. QED
      BY <2>1, <2>2
  <1>2. CASE b[1] = "proxy_server"
    <2>1. \A d \in Registered(b, type) : /\ d = <<"proxy_server", d[2]>>
                                         /\ <<b[2], type, d[2]>> \in ServerQueues
      BY <1>1, <1>2 DEF Queues
    <2>2. QED
      BY <2>1 DEF ServerQueues, TypeFor, ServerScream, BrmConverter
  <1>3. CASE b[1] = "proxy_client"
    <2>1. \A d \in Registered(b, type) : /\ d = <<"proxy_client", d[2]>>
                                         /\ <<b[2], type, d[2]>> \in ClientQueues
      BY <1>1, <1>3 DEF Queues
    <2>2. QED
      BY <2>1 DEF ClientQueues, TypeFor, ServerScream, BrmConverter
  <1>4. QED
    BY <1>1, <1>2, <1>3 DEF Proxies

\* A socket that reads a flow's datagrams forwards them along the flow's route, and
\* finds a queue registered for them if the flow is wired.
LEMMA UdpReadRoute ==
  ASSUME NEW f \in Flows, NEW b \in UdpBlocks,
         <<b[1], Socket(b).local>> \in AddressesOf(f)
  PROVE  /\ Registered(b, "RAW") \subseteq QueuesOf(f)
         /\ f \in Wired => Registered(b, "RAW") # {}
  <1>1. /\ b = <<b[1], b[2]>> /\ b[1] \in Proxies
        /\ b[2] \in DOMAIN Sockets[b[1]] \ {"scream"}
    BY BlockNames
  <1>2. <<f.name, f.from, <<b[1], Socket(b).local>>>> \in AddressRoutes
    BY DEF AddressesOf
  <1>3. CASE b[1] = "proxy_server"
    <2>1. Socket(b) = ServerSockets[b[2]] /\ b[2] \in DOMAIN ServerSockets
      BY <1>1, <1>3 DEF Socket, Sockets
    <2>2. <<f.name, f.from, b[2]>> \in {
            <<"video_rtp", "game_server", "server_side_video_rtp">>,
            <<"video_rtcp", "game_server", "server_side_video_rtcp">>,
            <<"audio_rtp", "game_server", "server_side_audio_rtp">>,
            <<"audio_rtcp", "game_server", "server_side_audio_rtcp">>,
            <<"input", "game_server", "server_side_input_stream">>,
            <<"video_rtcp", "game_client", "client_side_video_rtcp">>,
            <<"audio_rtcp", "game_client", "client_side_audio_rtcp">>,
            <<"input", "game_client", "client_side_input_stream">>}
      BY <1>1, <1>2, <1>3, <2>1 DEF AddressRoutes, ServerSockets, To
    <2>3. ASSUME NEW c \in Registered(b, "RAW") PROVE c \in QueuesOf(f)
      <3>1. c \in QueueBlocks /\ c = <<"proxy_server", c[2]>>
            /\ <<b[2], "RAW", c[2]>> \in ServerQueues
        BY <1>3, <2>3, BlockNames DEF Registered, Queues
      <3>2. QED
        BY <2>2, <3>1 DEF ServerQueues, QueuesOf, QueueRoutes, ServerConverter
    <2>4. ASSUME f \in Wired PROVE Registered(b, "RAW") # {}
      <3>1. b[2] \in {"server_side_video_rtp", "server_side_audio_rtp",
                      "client_side_input_stream"}
        BY <2>2, <2>4 DEF Wired
      <3>2. PICK n \in {"video_rtp_converter", "client_side_audio_rtp",
                        "server_side_input_stream"} :
              <<b[2], "RAW", n>> \in Queues["proxy_server"]
        BY <3>1 DEF Queues, ServerQueues
      <3>3. <<"proxy_server", n>> \in QueueBlocks
        BY DEF QueueBlocks, UdpBlocks, BlocksOf, Sockets, ServerSockets, Proxies,
               ServerConverter
      <3>4. QED
        BY <1>3, <3>2, <3>3 DEF Registered
    <2>5. QED
      BY <2>3, <2>4
  <1>4. CASE b[1] = "proxy_client"
    <2>1. Socket(b) = ClientSockets[b[2]] /\ b[2] \in DOMAIN ClientSockets
      BY <1>1, <1>4 DEF Socket, Sockets
    <2>2. <<f.name, f.from, b[2]>> \in {
            <<"video_rtcp", "game_server", "server_side_video_rtcp">>,
            <<"audio_rtp", "game_server", "server_side_audio_rtp">>,
            <<"audio_rtcp", "game_server", "server_side_audio_rtcp">>,
            <<"input", "game_server", "server_side_input_stream">>,
            <<"video_rtcp", "game_client", "client_side_video_rtcp">>,
            <<"audio_rtcp", "game_client", "client_side_audio_rtcp">>,
            <<"input", "game_client", "client_side_input_stream">>}
      BY <1>1, <1>2, <1>4, <2>1 DEF AddressRoutes, ClientSockets, To
    <2>3. ASSUME NEW c \in Registered(b, "RAW") PROVE c \in QueuesOf(f)
      <3>1. c \in QueueBlocks /\ c = <<"proxy_client", c[2]>>
            /\ <<b[2], "RAW", c[2]>> \in ClientQueues
        BY <1>4, <2>3, BlockNames DEF Registered, Queues
      <3>2. QED
        BY <2>2, <3>1 DEF ClientQueues, QueuesOf, QueueRoutes
    <2>4. ASSUME f \in Wired PROVE Registered(b, "RAW") # {}
      <3>1. b[2] \in {"server_side_audio_rtp", "client_side_input_stream"}
        BY <2>2, <2>4 DEF Wired
      <3>2. PICK n \in {"client_side_audio_rtp", "server_side_input_stream"} :
              <<b[2], "RAW", n>> \in Queues["proxy_client"]
        BY <3>1 DEF Queues, ClientQueues
      <3>3. <<"proxy_client", n>> \in QueueBlocks
        BY DEF QueueBlocks, UdpBlocks, BlocksOf, Sockets, ClientSockets, Proxies
      <3>4. QED
        BY <1>4, <3>2, <3>3 DEF Registered
    <2>5. QED
      BY <2>3, <2>4
  <1>5. QED
    BY <1>1, <1>3, <1>4 DEF Proxies

\* A socket that is handed a flow's messages sends them along its route, never
\* to ScreamClient's socket; it has nowhere to send them only if the flow is not
\* wired.
LEMMA UdpRunRoute ==
  ASSUME NEW f \in Flows, NEW b \in UdpBlocks \cap QueuesOf(f)
  PROVE  IF Socket(b).remote = 0 THEN f \notin Wired
         ELSE /\ <<Socket(b).host, Socket(b).remote>> \in AddressesOf(f)
              /\ <<Socket(b).host, Socket(b).remote>> # ScreamAddress
  <1>1. /\ b = <<b[1], b[2]>> /\ b[1] \in Proxies
        /\ b[2] \in DOMAIN Sockets[b[1]] \ {"scream"}
        /\ <<f.name, f.from, b>> \in QueueRoutes
    BY BlockNames DEF QueuesOf
  <1>2. Socket(b).host \in Hosts /\ Socket(b).remote \in Nat
    BY SocketFields
  <1>3. CASE b[1] = "proxy_server"
    <2>1. Socket(b) = ServerSockets[b[2]] /\ b[2] \in DOMAIN ServerSockets
      BY <1>1, <1>3 DEF Socket, Sockets
    <2>2. <<f.name, f.from, b[2]>> \in {
            <<"video_rtcp", "game_server", "client_side_video_rtcp">>,
            <<"audio_rtp", "game_server", "client_side_audio_rtp">>,
            <<"audio_rtcp", "game_server", "client_side_audio_rtcp">>,
            <<"input", "game_server", "client_side_input_stream">>,
            <<"video_rtcp", "game_client", "server_side_video_rtcp">>,
            <<"audio_rtcp", "game_client", "server_side_audio_rtcp">>,
            <<"input", "game_client", "server_side_input_stream">>}
      BY <1>1, <1>3, <2>1
         DEF QueueRoutes, ServerConverter, ServerScream, BrmConverter, ServerSockets
    <2>3. QED
      BY <1>2, <2>1, <2>2
         DEF ServerSockets, To, AddressesOf, AddressRoutes, ScreamAddress, Wired
  <1>4. CASE b[1] = "proxy_client"
    <2>1. Socket(b) = ClientSockets[b[2]] /\ b[2] \in DOMAIN ClientSockets
      BY <1>1, <1>4 DEF Socket, Sockets
    <2>2. <<f.name, f.from, b[2]>> \in {
            <<"video_rtp", "game_server", "client_side_video_rtp">>,
            <<"audio_rtp", "game_server", "client_side_audio_rtp">>,
            <<"video_rtcp", "game_client", "server_side_video_rtcp">>,
            <<"audio_rtcp", "game_client", "server_side_audio_rtcp">>,
            <<"input", "game_client", "server_side_input_stream">>}
      BY <1>1, <1>4, <2>1
         DEF QueueRoutes, ServerConverter, ServerScream, BrmConverter, ClientSockets
    <2>3. QED
      BY <1>2, <2>1, <2>2
         DEF ClientSockets, To, AddressesOf, AddressRoutes, ScreamAddress, Wired
  <1>5. QED
    BY <1>1, <1>3, <1>4 DEF Proxies

\* The way of the video flow through the two SCReAM blocks.
LEMMA ScreamRoute ==
  ASSUME NEW f \in Flows
  PROVE  /\ ServerConverter \in QueuesOf(f) =>
              /\ Registered(ServerConverter, "RTP_PACKET") # {}
              /\ Registered(ServerConverter, "RTP_PACKET") \subseteq QueuesOf(f)
         /\ ServerScream \in QueuesOf(f) => f.name \in ThroughScream
         /\ <<Socket(ServerScream).host, Socket(ServerScream).remote>> = ScreamAddress
         /\ f.name = "video_rtp" =>
              /\ Registered(ClientConverter, "RAW") # {}
              /\ Registered(ClientConverter, "RAW") \subseteq QueuesOf(f)
  <1>1. ASSUME ServerConverter \in QueuesOf(f)
        PROVE  /\ Registered(ServerConverter, "RTP_PACKET") # {}
               /\ Registered(ServerConverter, "RTP_PACKET") \subseteq QueuesOf(f)
    <2>1. f.name = "video_rtp" /\ f.from = "game_server"
      BY <1>1 DEF QueuesOf, QueueRoutes, ServerConverter, ServerScream, BrmConverter
    <2>2. ServerScream \in Registered(ServerConverter, "RTP_PACKET")
      BY DEF Registered, Queues, ServerQueues, QueueBlocks, ServerScream, ServerConverter
    <2>3. ServerScream \in QueuesOf(f)
      BY <2>1 DEF QueuesOf, QueueRoutes, QueueBlocks
    <2>4. QED
      BY <2>2, <2>3, Registrations
  <1>2. ServerScream \in QueuesOf(f) => f.name \in ThroughScream
    BY DEF QueuesOf, QueueRoutes, ServerConverter, ServerScream, BrmConverter, ThroughScream
  <1>3. <<Socket(ServerScream).host, Socket(ServerScream).remote>> = ScreamAddress
    BY DEF Socket, Sockets, ServerSockets, To, ServerScream, ScreamAddress
  <1>4. ASSUME f.name = "video_rtp"
        PROVE  /\ Registered(ClientConverter, "RAW") # {}
               /\ Registered(ClientConverter, "RAW") \subseteq QueuesOf(f)
    <2> DEFINE c == <<"proxy_client", "client_side_video_rtp">>
    <2>1. c \in QueueBlocks
      BY DEF QueueBlocks, UdpBlocks, BlocksOf, Sockets, ClientSockets, Proxies
    <2>2. c \in Registered(ClientConverter, "RAW")
      BY <2>1 DEF Registered, Queues, ClientQueues, ClientConverter
    <2>3. f.from = "game_server"
      BY <1>4 DEF Flows, Flow
    <2>4. c \in QueuesOf(f)
      BY <1>4, <2>1, <2>3 DEF QueuesOf, QueueRoutes
    <2>5. QED
      BY <2>2, <2>4, Registrations
  <1>5. QED
    BY <1>1, <1>2, <1>3, <1>4

\* The way of the bitrate requests to the queue they share with the commands of
\* the game client.
LEMMA RequestRoute ==
  ASSUME NEW f \in Flows, f.name = "commands", f.from = "game_client"
  PROVE  /\ Registered(ServerScream, "BITRATE_REQUEST") # {}
         /\ Registered(ServerScream, "BITRATE_REQUEST") \subseteq QueuesOf(f)
         /\ Registered(BrmConverter, "RAW") # {}
         /\ Registered(BrmConverter, "RAW") \subseteq QueuesOf(f)
  <1> DEFINE c == <<"proxy_server", "tcp_client">>
  <1>1. c \in QueueBlocks /\ BrmConverter \in QueueBlocks
    BY TcpNames DEF QueueBlocks
  <1>2. c \in Registered(BrmConverter, "RAW")
        /\ BrmConverter \in Registered(ServerScream, "BITRATE_REQUEST")
    BY <1>1 DEF Registered, Queues, ServerQueues, BrmConverter, ServerScream
  <1>3. c \in QueuesOf(f) /\ BrmConverter \in QueuesOf(f)
    BY <1>1 DEF QueuesOf, QueueRoutes
  <1>4. QED
    BY <1>2, <1>3, Registrations

\* Only requests, with the game client's commands, come to their converter.
LEMMA BrmRoute ==
  ASSUME NEW f \in Flows, BrmConverter \in QueuesOf(f)
  PROVE  f.name = "commands" /\ f.from = "game_client"
  BY DEF QueuesOf, QueueRoutes, ServerConverter, ServerScream, BrmConverter

\* A TCP block that reads a flow forwards it, and one that is handed it writes it,
\* along its route; what an end reads is where the flow ends.
LEMMA TcpRoute ==
  ASSUME NEW f \in Flows
  PROVE  /\ \A b \in TcpBlocks : ReadsOf(b) \in StreamsOf(f) =>
              /\ Registered(b, "RAW") # {}
              /\ Registered(b, "RAW") \subseteq QueuesOf(f)
         /\ \A b \in TcpBlocks \cap QueuesOf(f) : WritesOf(b) \in StreamsOf(f)
         /\ f.name = "commands" => EndWrites(f.from) \in StreamsOf(f)
         /\ \A end \in Ends : EndReads(end) \in StreamsOf(f) =>
              f \in Wired /\ end = Other(f.from) /\ EndReads(end)[1][2] = f.exit
  <1>1. f.name = "commands" => f.from \in Ends
    BY FlowFields
  <1>2. ASSUME NEW b \in TcpBlocks, ReadsOf(b) \in StreamsOf(f)
        PROVE  Registered(b, "RAW") # {} /\ Registered(b, "RAW") \subseteq QueuesOf(f)
    <2>1. f.name = "commands" /\ f.from \in {"game_server", "game_client"}
          /\ (Accepting(b) <=> f.from = "game_client")
      BY <1>1, <1>2 DEF StreamsOf, ReadsOf, Ends
    <2>2. PICK c \in TcpBlocks : c \in Registered(b, "RAW") /\ c \in QueuesOf(f)
      <3>1. CASE b = <<"proxy_server", "tcp_server">>
        <4>1. Accepting(b)
          BY <3>1 DEF Accepting, Tcp, ServerTcp, To
        <4>2. <<"proxy_server", "tcp_client">> \in TcpBlocks
          BY TcpNames
        <4>3. QED
          BY <2>1, <3>1, <4>1, <4>2
             DEF Registered, Queues, ServerQueues, QueuesOf, QueueRoutes, QueueBlocks
      <3>2. CASE b = <<"proxy_server", "tcp_client">>
        <4>1. ~Accepting(b)
          BY <3>2 DEF Accepting, Tcp, ServerTcp, To
        <4>2. <<"proxy_server", "tcp_server">> \in TcpBlocks
          BY TcpNames
        <4>3. QED
          BY <2>1, <3>2, <4>1, <4>2
             DEF Registered, Queues, ServerQueues, QueuesOf, QueueRoutes, QueueBlocks
      <3>3. CASE b = <<"proxy_client", "client_side_command_stream">>
        <4>1. Accepting(b)
          BY <3>3 DEF Accepting, Tcp, ClientTcp, To
        <4>2. <<"proxy_client", "server_side_command_stream">> \in TcpBlocks
          BY TcpNames
        <4>3. QED
          BY <2>1, <3>3, <4>1, <4>2
             DEF Registered, Queues, ClientQueues, QueuesOf, QueueRoutes, QueueBlocks
      <3>4. CASE b = <<"proxy_client", "server_side_command_stream">>
        <4>1. ~Accepting(b)
          BY <3>4 DEF Accepting, Tcp, ClientTcp, To
        <4>2. <<"proxy_client", "client_side_command_stream">> \in TcpBlocks
          BY TcpNames
        <4>3. QED
          BY <2>1, <3>4, <4>1, <4>2
             DEF Registered, Queues, ClientQueues, QueuesOf, QueueRoutes, QueueBlocks
      <3>5. QED
        BY <3>1, <3>2, <3>3, <3>4, TcpNames
    <2>3. QED
      BY <2>2, Registrations
  <1>3. ASSUME NEW b \in TcpBlocks \cap QueuesOf(f)
        PROVE  WritesOf(b) \in StreamsOf(f)
    <2>1. f.name = "commands" /\ (Accepting(b) <=> f.from = "game_server")
      BY <1>3, TcpNames
         DEF QueuesOf, QueueRoutes, ServerConverter, ServerScream, BrmConverter,
             Accepting, Tcp, ServerTcp, ClientTcp, To
    <2>2. Connection(b) \in Connections
      BY DEF Connections
    <2>3. QED
      BY <2>1, <2>2 DEF WritesOf, StreamsOf
  <1>4. ASSUME f.name = "commands" PROVE EndWrites(f.from) \in StreamsOf(f)
    BY <1>1, <1>4, StreamNames DEF EndWrites, StreamsOf, Streams, Ends
  <1>5. ASSUME NEW end \in Ends, EndReads(end) \in StreamsOf(f)
        PROVE  f \in Wired /\ end = Other(f.from) /\ EndReads(end)[1][2] = f.exit
    <2>1. f.name = "commands" /\ end = Other(f.from)
      BY <1>1, <1>5 DEF EndReads, StreamsOf, Ends, Other
    <2>2. f.exit = IF f.from = "game_server" THEN 19999 ELSE 9999
      BY <2>1 DEF Flows, Flow
    <2>3. QED
      BY <1>1, <2>1, <2>2 DEF EndReads, Ends, Other, Wired
  <1>6. QED
    BY <1>2, <1>3, <1>4, <1>5

\* A flow enters at its first address, and the address of an end is where it ends.
LEMMA EndRoute ==
  ASSUME NEW f \in Flows
  PROVE  /\ f.name # "commands" =>
              IF <<Near(f.from), f.entry>> = ScreamAddress THEN f.name \in ThroughScream
              ELSE <<Near(f.from), f.entry>> \in AddressesOf(f)
         /\ \A a \in AddressesOf(f) : a[1] \in Ends =>
              f \in Wired /\ a[1] = Other(f.from) /\ a[2] = f.exit
         /\ f.name \in ThroughScream => f \in Wired \/ f.name = "feedback"
  <1>1. Near(f.from) \in Hosts /\ f.entry \in Nat
    BY FlowFields
  <1>2. f.name # "commands" =>
          IF <<Near(f.from), f.entry>> = ScreamAddress THEN f.name \in ThroughScream
          ELSE <<Near(f.from), f.entry>> \in AddressesOf(f)
    BY <1>1 DEF Flows, Flow, Near, ScreamAddress, ThroughScream, AddressesOf, AddressRoutes
  <1>3. ASSUME NEW a \in AddressesOf(f), a[1] \in Ends
        PROVE  f \in Wired /\ a[1] = Other(f.from) /\ a[2] = f.exit
    <2>1. \/ f.name = "video_rtp" /\ f.from = "game_server" /\ a = <<"game_client", 10002>>
          \/ f.name = "audio_rtp" /\ f.from = "game_server" /\ a = <<"game_client", 10000>>
          \/ f.name = "input" /\ f.from = "game_client" /\ a = <<"game_server", 9999>>
      BY <1>3 DEF AddressesOf, AddressRoutes, Ends
    <2>2. QED
      BY <2>1 DEF Flows, Flow, Wired, Other
  <1>4. f.name \in ThroughScream => f \in Wired \/ f.name = "feedback"
    BY DEF ThroughScream, Wired
  <1>5. QED
    BY <1>2, <1>3, <1>4

-----------------------------------------------------------------------------
\* Queues, datagrams and deliveries.

\* What is forwarded along the route stays on it; it is dropped only where no
\* queue is registered.
LEMMA ForwardRouted ==
  ASSUME NEW f, NEW q, QueuesTyped(q), QueuesRouted(q, f), NEW b, NEW type, NEW x,
         Forward(q, b, type, x), Registered(b, type) \subseteq QueuesOf(f)
  PROVE  /\ QueuesRouted(queue', f)
         /\ Registered(b, type) # {} => dropped' = dropped
  <1> DEFINE m == [type |-> type, body |-> x]
  <1>1. queue' = ForwardInto(q, b, type, x)
        /\ (Registered(b, type) # {} => dropped' = dropped)
    BY DEF Forward
  <1>2. ASSUME NEW c \in QueueBlocks
        PROVE  /\ queue'[c] # <<>> => c \in QueuesOf(f)
               /\ \A i \in DOMAIN queue'[c] : queue'[c][i].type = TypeFor(c)
    <2>1. q[c] \in Seq(Messages)
      BY DEF QueuesTyped
    <2>2. queue'[c] = IF c \in Registered(b, type) THEN Append(q[c], m) ELSE q[c]
      BY <1>1 DEF ForwardInto
    <2>3. CASE c \in Registered(b, type)
      <3>1. type = TypeFor(c) /\ c \in QueuesOf(f)
        BY <2>3, Registrations
      <3>2. ASSUME NEW i \in DOMAIN queue'[c] PROVE queue'[c][i].type = TypeFor(c)
        <4>1. queue'[c] = Append(q[c], m) /\ i \in 1..Len(q[c]) + 1
          BY <2>1, <2>2, <2>3, <3>2
        <4>2. CASE i = Len(q[c]) + 1
          BY <2>1, <3>1, <4>1, <4>2
        <4>3. CASE i \in 1..Len(q[c])
          <5>1. queue'[c][i] = q[c][i] /\ i \in DOMAIN q[c]
            BY <2>1, <4>1, <4>3
          <5>2. QED
            BY <5>1 DEF QueuesRouted
        <4>4. QED
          BY <2>1, <4>1, <4>2, <4>3
      <3>3. QED
        BY <3>1, <3>2
    <2>4. CASE c \notin Registered(b, type)
      BY <2>2, <2>4 DEF QueuesRouted
    <2>5. QED
      BY <2>3, <2>4
  <1>3. QED
    BY <1>1, <1>2 DEF QueuesRouted

\* A block takes messages of its type, and only those of flows it is on the route
\* of; the others stay where they are.
LEMMA TakenRouted ==
  ASSUME NEW f, QueuesTyped(queue), QueuesRouted(queue, f),
         NEW b \in QueueBlocks, queue[b] # <<>>
  PROVE  /\ QueuesRouted(Taken(b), f)
         /\ Head(queue[b]).type = TypeFor(b)
         /\ b \in QueuesOf(f)
  <1>1. queue \in [QueueBlocks -> Seq(Messages)] /\ queue[b] \in Seq(Messages)
    BY DEF QueuesTyped
  <1>2. 1 \in DOMAIN queue[b] /\ Head(queue[b]) = queue[b][1]
    BY <1>1
  <1>3. Head(queue[b]).type = TypeFor(b) /\ b \in QueuesOf(f)
    BY <1>2 DEF QueuesRouted
  <1>4. ASSUME NEW c \in QueueBlocks
        PROVE  /\ Taken(b)[c] # <<>> => c \in QueuesOf(f)
               /\ \A i \in DOMAIN Taken(b)[c] : Taken(b)[c][i].type = TypeFor(c)
    <2>1. CASE c = b
      <3>1. Taken(b)[c] = Tail(queue[b])
        BY <1>1, <2>1 DEF Taken
      <3>2. ASSUME NEW i \in DOMAIN Tail(queue[b])
            PROVE  Tail(queue[b])[i].type = TypeFor(b)
        <4>1. i + 1 \in DOMAIN queue[b] /\ Tail(queue[b])[i] = queue[b][i + 1]
          BY <1>1, <3>2
        <4>2. QED
          BY <4>1 DEF QueuesRouted
      <3>3. QED
        BY <1>3, <2>1, <3>1, <3>2
    <2>2. CASE c # b
      <3>1. Taken(b)[c] = queue[c]
        BY <1>1, <2>2 DEF Taken
      <3>2. QED
        BY <3>1 DEF QueuesRouted
    <2>3. QED
      BY <2>1, <2>2
  <1>5. QED
    BY <1>3, <1>4 DEF QueuesRouted

\* A datagram sent to an address on the route is on the route.
LEMMA SendRouted ==
  ASSUME NEW f, NetRouted(f), out' = out, NEW host, NEW port, NEW x,
         SendTo(host, port, x),
         IF <<host, port>> = ScreamAddress THEN f.name \in ThroughScream
         ELSE <<host, port>> \in AddressesOf(f)
  PROVE  NetRouted(f)'
  <1>1. ClientSockets.scream.local = 30002
    BY DEF ClientSockets, To
  <1>2. QED
    BY <1>1 DEF SendTo, NetRouted, ScreamAddress

\* What an end is handed where its flow ends leaves FlowsApart true.
LEMMA DeliverRouted ==
  ASSUME delivered \in Seq(Deliveries), FlowsApart, flow' = flow, NEW x,
         Deliver(Other(flow.from), flow.exit, x)
  PROVE  FlowsApart'
  <1> DEFINE m == [host |-> Other(flow.from), port |-> flow.exit, body |-> x]
  <1>1. delivered' = Append(delivered, m)
    BY DEF Deliver
  <1>2. ASSUME NEW i \in DOMAIN delivered'
        PROVE  delivered'[i].host = Other(flow.from) /\ delivered'[i].port = flow.exit
    <2>1. i \in 1..Len(delivered) + 1
      BY <1>1, <1>2
    <2>2. CASE i = Len(delivered) + 1
      BY <1>1, <2>2
    <2>3. CASE i \in 1..Len(delivered)
      <3>1. delivered'[i] = delivered[i] /\ i \in DOMAIN delivered
        BY <1>1, <2>3
      <3>2. QED
        BY <3>1 DEF FlowsApart
    <2>4. QED
      BY <2>1, <2>2, <2>3
  <1>3. QED
    BY <1>2 DEF FlowsApart

-----------------------------------------------------------------------------
\* The steps.

\* Sockets: what they read goes on along the route, or is dropped where the route
\* of a flow that is not wired ends.
LEMMA UdpKeepsRoute ==
  ASSUME RelayTyped, RouteInv, NEW b \in UdpBlocks, UdpRead(b) \/ UdpRun(b)
  PROVE  RouteInv'
  <1>1. CASE UdpRead(b)
    <2>1. PICK d \in net : /\ d.host = b[1] /\ d.port = Socket(b).local
                           /\ net' = net \ {d} /\ Forward(queue, b, "RAW", d.body)
      BY <1>1 DEF UdpRead
    <2>2. <<b[1], Socket(b).local>> \in AddressesOf(flow)
      BY <2>1 DEF RouteInv, NetRouted
    <2>3. /\ Registered(b, "RAW") \subseteq QueuesOf(flow)
          /\ flow \in Wired => Registered(b, "RAW") # {}
      BY <2>2, UdpReadRoute DEF RelayTyped
    <2>4. /\ QueuesRouted(queue', flow)
          /\ flow \in Wired => dropped' = dropped
      BY <2>1, <2>3, ForwardRouted DEF RelayTyped, RouteInv
    <2>5. flow' = flow /\ UNCHANGED <<inbound, out, stream, delivered>>
      BY <1>1 DEF UdpRead
    <2>6. QED
      BY <2>1, <2>4, <2>5 DEF RouteInv, NetRouted, FlowsApart, NeverDropped
  <1>2. CASE UdpRun(b)
    <2> DEFINE x == Head(queue[b]).body
    <2>1. /\ queue[b] # <<>> /\ queue' = Taken(b) /\ flow' = flow
          /\ UNCHANGED <<out, stream, delivered>>
          /\ IF Socket(b).remote = 0
             THEN dropped' = dropped \cup {x} /\ UNCHANGED <<net, inbound>>
             ELSE SendTo(Socket(b).host, Socket(b).remote, x) /\ UNCHANGED dropped
      BY <1>2 DEF UdpRun
    <2>2. b \in QueuesOf(flow) /\ QueuesRouted(queue', flow)
      BY <2>1, TakenRouted, PacketBlockFacts DEF RelayTyped, RouteInv
    <2>3. IF Socket(b).remote = 0 THEN flow \notin Wired
          ELSE /\ <<Socket(b).host, Socket(b).remote>> \in AddressesOf(flow)
               /\ <<Socket(b).host, Socket(b).remote>> # ScreamAddress
      BY <2>2, UdpRunRoute DEF RelayTyped
    <2>4. NetRouted(flow)' /\ (flow \in Wired => dropped' = dropped)
      <3>1. CASE Socket(b).remote = 0
        BY <2>1, <2>3, <3>1 DEF RouteInv, NetRouted
      <3>2. CASE Socket(b).remote # 0
        BY <2>1, <2>3, <3>2, SendRouted DEF RouteInv
      <3>3. QED
        BY <3>1, <3>2
    <2>5. QED
      BY <2>1, <2>2, <2>4 DEF RouteInv, FlowsApart, NeverDropped
  <1>3. QED
    BY <1>1, <1>2

\* The converters are handed what they convert, and have somewhere to send it.
LEMMA ConverterKeepsRoute ==
  ASSUME RelayTyped, RouteInv, ConvertToRtp \/ ConvertToCommand \/ ConvertToRaw
  PROVE  RouteInv'
  <1>1. ASSUME NEW b \in QueueBlocks, NEW V, Convert(b, TypeFor(b), V),
               b \in QueuesOf(flow) => /\ Registered(b, V) # {}
                                       /\ Registered(b, V) \subseteq QueuesOf(flow)
        PROVE  RouteInv'
    <2>1. /\ queue[b] # <<>>
          /\ UNCHANGED <<clientVars, flow, net, stream, delivered>>
      BY <1>1 DEF Convert
    <2>2. /\ QueuesRouted(Taken(b), flow) /\ Head(queue[b]).type = TypeFor(b)
          /\ b \in QueuesOf(flow) /\ QueuesTyped(Taken(b))
      BY <2>1, TakenRouted, TakenTyped DEF RelayTyped, RouteInv
    <2>3. Forward(Taken(b), b, V, Head(queue[b]).body)
      BY <1>1, <2>2 DEF Convert
    <2>4. QueuesRouted(queue', flow) /\ dropped' = dropped
      BY <1>1, <2>2, <2>3, ForwardRouted
    <2>5. QED
      BY <2>1, <2>4
         DEF RouteInv, NetRouted, FlowsApart, NeverDropped, clientVars, packetVars
  <1>2. CASE ConvertToRtp
    <2>1. TypeFor(ServerConverter) = "RAW" /\ ServerConverter \in QueueBlocks
      BY PacketBlockFacts DEF TypeFor, ServerConverter, ServerScream, BrmConverter
    <2>2. QED
      BY <1>1, <1>2, <2>1, ScreamRoute DEF ConvertToRtp, RelayTyped
  <1>3. CASE ConvertToCommand
    <2>1. TypeFor(BrmConverter) = "BITRATE_REQUEST" /\ BrmConverter \in QueueBlocks
      BY PacketBlockFacts DEF TypeFor, ServerScream, BrmConverter
    <2>2. QED
      BY <1>1, <1>3, <2>1, BrmRoute, RequestRoute DEF ConvertToCommand, RelayTyped
  <1>4. CASE ConvertToRaw
    <2>1. /\ flow.name # "feedback" /\ out # <<>>
          /\ Forward(queue, ClientConverter, "RAW", Head(out))
          /\ UNCHANGED <<flow, net, inbound, stream, delivered>>
      BY <1>4 DEF ConvertToRaw, Take
    <2>2. flow.name = "video_rtp"
      BY <2>1 DEF RouteInv, NetRouted, ThroughScream
    <2>3. QueuesRouted(queue', flow) /\ dropped' = dropped
      BY <2>1, <2>2, ScreamRoute, ForwardRouted DEF RelayTyped, RouteInv
    <2>4. QED
      BY <2>1, <2>2, <2>3
         DEF RouteInv, NetRouted, ThroughScream, FlowsApart, NeverDropped
  <1>5. QED
    BY <1>2, <1>3, <1>4

\* The controller sends the video flow, and its requests go with the commands.
LEMMA ScreamKeepsRoute ==
  ASSUME RelayTyped, RouteInv, ScreamSend \/ ScreamRequest \/ ScreamDiscard PROVE RouteInv'
  <1>1. CASE ScreamSend
    <2> DEFINE b == ServerScream
    <2>1. /\ queue[b] # <<>> /\ queue' = Taken(b)
          /\ SendTo(Socket(b).host, Socket(b).remote, Head(queue[b]).body)
          /\ UNCHANGED <<out, flow, stream, delivered, dropped>>
      BY <1>1 DEF ScreamSend
    <2>2. b \in QueuesOf(flow) /\ QueuesRouted(queue', flow)
      BY <2>1, TakenRouted, PacketBlockFacts DEF RelayTyped, RouteInv
    <2>3. NetRouted(flow)'
      BY <2>1, <2>2, ScreamRoute, SendRouted DEF RelayTyped, RouteInv
    <2>4. QED
      BY <2>1, <2>2, <2>3 DEF RouteInv, FlowsApart, NeverDropped
  <1>2. CASE ScreamRequest
    <2>1. /\ flow.name = "commands" /\ flow.from = "game_client"
          /\ Forward(queue, ServerScream, "BITRATE_REQUEST", MaxPackets + requested + 1)
          /\ UNCHANGED <<clientVars, flow, net, stream, delivered>>
      BY <1>2 DEF ScreamRequest
    <2>2. QueuesRouted(queue', flow) /\ dropped' = dropped
      BY <2>1, RequestRoute, ForwardRouted DEF RelayTyped, RouteInv
    <2>3. QED
      BY <2>1, <2>2
         DEF RouteInv, NetRouted, FlowsApart, NeverDropped, clientVars, packetVars
  <1>3. CASE ScreamDiscard
    <2> DEFINE b == ServerScream
    <2>1. /\ queue[b] # <<>> /\ queue' = Taken(b)
          /\ UNCHANGED <<clientVars, flow, net, stream, delivered>>
      BY <1>3 DEF ScreamDiscard
    <2>2. b \in QueuesOf(flow) /\ QueuesRouted(queue', flow)
      BY <2>1, TakenRouted, PacketBlockFacts DEF RelayTyped, RouteInv
    <2>3. flow \notin Wired \/ flow.name \in MayBeDropped
      BY <2>2, ScreamRoute DEF RelayTyped, ThroughScream, Wired, MayBeDropped
    <2>4. QED
      BY <2>1, <2>2, <2>3
         DEF RouteInv, NetRouted, FlowsApart, NeverDropped, clientVars, packetVars
  <1>4. QED
    BY <1>1, <1>2, <1>3

\* What is written to a stream on the route is on it.
LEMMA WriteRouted ==
  ASSUME NEW f, RelayTyped, StreamsRouted(stream, f), NEW s \in StreamsOf(f), NEW x,
         WriteTo(s, x)
  PROVE  StreamsRouted(stream', f)
  <1>1. stream \in [Streams -> Seq(Bodies)]
    BY DEF RelayTyped
  <1>2. ASSUME NEW t \in Streams, stream'[t] # <<>> PROVE t \in StreamsOf(f)
    <2>1. t = s \/ stream'[t] = stream[t]
      BY <1>1, <1>2 DEF WriteTo
    <2>2. QED
      BY <1>2, <2>1 DEF StreamsRouted
  <1>3. QED
    BY <1>2 DEF StreamsRouted

\* What is left of the streams when one is read is on the route.
LEMMA ReadRouted ==
  ASSUME NEW f, RelayTyped, StreamsRouted(stream, f), NEW s \in Streams, stream[s] # <<>>,
         stream' = [stream EXCEPT ![s] = Tail(@)]
  PROVE  StreamsRouted(stream', f) /\ s \in StreamsOf(f)
  <1>1. stream \in [Streams -> Seq(Bodies)] /\ s \in StreamsOf(f)
    BY DEF RelayTyped, StreamsRouted
  <1>2. ASSUME NEW t \in Streams, stream'[t] # <<>> PROVE t \in StreamsOf(f)
    <2>1. t = s \/ stream'[t] = stream[t]
      BY <1>1
    <2>2. QED
      BY <1>1, <1>2, <2>1 DEF StreamsRouted
  <1>3. QED
    BY <1>1, <1>2 DEF StreamsRouted

\* The TCP blocks read from and write to streams of the route.
LEMMA TcpKeepsRoute ==
  ASSUME RelayTyped, RouteInv, NEW b \in TcpBlocks, WritesOrDrops(b) \/ ForwardsOrDrops(b)
  PROVE  RouteInv'
  <1>0. /\ TypeFor(b) = "RAW" /\ b \in QueueBlocks
        /\ ReadsOf(b) \in Streams /\ WritesOf(b) \in Streams
    BY TcpNames, StreamNames, PacketBlockFacts DEF TypeFor, ServerScream, BrmConverter
  <1>1. UNCHANGED <<clientVars, flow, net, delivered>>
    BY DEF WritesOrDrops, ForwardsOrDrops
  <1>2. CASE WritesOrDrops(b)
    <2> DEFINE m == Head(queue[b])
    <2>1. /\ queue[b] # <<>> /\ queue' = Taken(b)
          /\ WriteTo(WritesOf(b), m.body) \/ stream' = stream
      BY <1>2 DEF WritesOrDrops
    <2>2. b \in QueuesOf(flow) /\ QueuesRouted(queue', flow)
      BY <1>0, <2>1, TakenRouted DEF RelayTyped, RouteInv
    <2>3. WritesOf(b) \in StreamsOf(flow)
      BY <2>2, TcpRoute DEF RelayTyped
    <2>4. StreamsRouted(stream', flow) /\ flow.name = "commands"
      BY <2>1, <2>3, WriteRouted DEF RelayTyped, RouteInv, StreamsOf
    <2>5. QED
      BY <1>1, <2>2, <2>4 DEF RouteInv, NetRouted, FlowsApart, NeverDropped, MayBeDropped,
         clientVars, packetVars
  <1>3. CASE ForwardsOrDrops(b)
    <2> DEFINE s == ReadsOf(b)
    <2>1. /\ stream[s] # <<>> /\ stream' = [stream EXCEPT ![s] = Tail(@)]
          /\ Forward(queue, b, "RAW", Head(stream[s])) \/ queue' = queue
      BY <1>3 DEF ForwardsOrDrops
    <2>2. StreamsRouted(stream', flow) /\ s \in StreamsOf(flow)
      BY <1>0, <2>1, ReadRouted DEF RouteInv
    <2>3. Registered(b, "RAW") \subseteq QueuesOf(flow)
      BY <2>2, TcpRoute DEF RelayTyped
    <2>4. QueuesRouted(queue', flow) /\ flow.name = "commands"
      BY <2>1, <2>2, <2>3, ForwardRouted DEF RelayTyped, RouteInv, StreamsOf
    <2>5. QED
      BY <1>1, <2>2, <2>4 DEF RouteInv, NetRouted, FlowsApart, NeverDropped, MayBeDropped,
         clientVars, packetVars
  <1>4. QED
    BY <1>2, <1>3

\* The ends: messages enter where their flow begins and come out where it ends.
LEMMA EndKeepsRoute ==
  ASSUME RelayTyped, RouteInv,
         GameSend \/ GameReceive \/ \E end \in Ends : GameRead(end)
  PROVE  RouteInv'
  <1>1. CASE GameSend
    <2>1. UNCHANGED <<out, flow, queue, delivered, dropped>>
      BY <1>1 DEF GameSend
    <2>2. CASE flow.name = "commands"
      <3>1. PICK x : WriteTo(EndWrites(flow.from), x) /\ UNCHANGED <<net, inbound>>
        BY <1>1, <2>2 DEF GameSend
      <3>2. StreamsRouted(stream', flow)
        BY <2>2, <3>1, TcpRoute, WriteRouted DEF RelayTyped, RouteInv
      <3>3. QED
        BY <2>1, <3>1, <3>2 DEF RouteInv, NetRouted, FlowsApart, NeverDropped
    <2>3. CASE flow.name # "commands"
      <3>1. PICK x : SendTo(Near(flow.from), flow.entry, x) /\ stream' = stream
        BY <1>1, <2>3 DEF GameSend
      <3>2. NetRouted(flow)'
        BY <2>1, <2>3, <3>1, EndRoute, SendRouted DEF RelayTyped, RouteInv
      <3>3. QED
        BY <2>1, <3>1, <3>2 DEF RouteInv, FlowsApart, NeverDropped
    <2>4. QED
      BY <2>2, <2>3
  <1>2. CASE GameReceive
    <2>1. PICK d \in net : /\ d.host \in Ends /\ net' = net \ {d}
                           /\ Deliver(d.host, d.port, d.body)
      BY <1>2 DEF GameReceive
    <2>2. UNCHANGED <<clientVars, flow, queue, stream, dropped>>
      BY <1>2 DEF GameReceive
    <2>3. <<d.host, d.port>> \in AddressesOf(flow)
      BY <2>1 DEF RouteInv, NetRouted
    <2>4. flow \in Wired /\ d.host = Other(flow.from) /\ d.port = flow.exit
      BY <2>1, <2>3, EndRoute DEF RelayTyped
    <2>5. FlowsApart'
      BY <2>1, <2>2, <2>4, DeliverRouted DEF RelayTyped, RouteInv
    <2>6. QED
      BY <2>1, <2>2, <2>4, <2>5
         DEF RouteInv, NetRouted, NeverDropped, clientVars, packetVars
  <1>3. ASSUME NEW end \in Ends, GameRead(end) PROVE RouteInv'
    <2> DEFINE s == EndReads(end)
    <2>1. /\ stream[s] # <<>> /\ stream' = [stream EXCEPT ![s] = Tail(@)]
          /\ Deliver(end, s[1][2], Head(stream[s]))
          /\ UNCHANGED <<clientVars, flow, queue, net, dropped>>
      BY <1>3 DEF GameRead
    <2>2. StreamsRouted(stream', flow) /\ s \in StreamsOf(flow)
      BY <2>1, StreamNames, ReadRouted DEF RouteInv
    <2>3. flow \in Wired /\ end = Other(flow.from) /\ s[1][2] = flow.exit
      BY <2>2, TcpRoute DEF RelayTyped
    <2>4. FlowsApart'
      BY <2>1, <2>3, DeliverRouted DEF RelayTyped, RouteInv
    <2>5. QED
      BY <2>1, <2>2, <2>3, <2>4
         DEF RouteInv, NetRouted, NeverDropped, clientVars, packetVars
  <1>4. QED
    BY <1>1, <1>2, <1>3

\* The network takes messages away and brings none.
LEMMA NetworkKeepsRoute ==
  ASSUME RelayTyped, RouteInv,
         LoseDatagram \/ Reconnect \/ \E c \in Connections : Break(c)
  PROVE  RouteInv'
  <1>1. CASE LoseDatagram
    <2>1. UNCHANGED <<flow, queue, stream, delivered, dropped>>
          /\ net' \subseteq net /\ inbound' \subseteq inbound /\ out' = out
      BY <1>1 DEF LoseDatagram, Lose, clientVars, packetVars
    <2>2. QED
      BY <2>1 DEF RouteInv, NetRouted, StreamsRouted, FlowsApart, NeverDropped
  <1>2. CASE Reconnect
    BY <1>2 DEF Reconnect, RouteInv, NetRouted, StreamsRouted, FlowsApart,
                NeverDropped, clientVars, packetVars
  <1>3. ASSUME NEW c \in Connections, Break(c) PROVE RouteInv'
    <2>1. /\ stream' = [s \in Streams |-> IF s[1] = c THEN <<>> ELSE stream[s]]
          /\ UNCHANGED <<clientVars, flow, queue, net, delivered, dropped>>
      BY <1>3 DEF Break
    <2>2. StreamsRouted(stream', flow)
      BY <2>1 DEF RouteInv, StreamsRouted
    <2>3. QED
      BY <2>1, <2>2
         DEF RouteInv, NetRouted, FlowsApart, NeverDropped, clientVars, packetVars
  <1>4. QED
    BY <1>1, <1>2, <1>3

\* ScreamClient moves packets from its socket to its queue, and none into them.
LEMMA ReceiverKeepsRoute ==
  ASSUME RouteInv, Receiver, UNCHANGED <<flow, relayVars>> PROVE RouteInv'
  <1>1. UNCHANGED <<flow, queue, net, stream, delivered, dropped>>
    BY DEF relayVars
  <1>2. inbound' # {} \/ out' # <<>> => inbound # {} \/ out # <<>>
    BY DEF Receiver, Ending, Looping, Feedback, Clock, Start, Stop, Run, RunSpawn, RunTop,
           RunNothing, RunReceive, 
RunFeedback, RunNoFeedback, RunEnd, RunRecv, Rtcp, RtcpTop,
           RtcpClock, RtcpIsFeedback, RtcpFlush, RtcpInterval, RtcpFeedback,
           RtcpNoFeedback, Tick, Move, packetVars
  <1>3. QED
    BY <1>1, <1>2 DEF RouteInv, NetRouted, StreamsRouted, FlowsApart, NeverDropped

-----------------------------------------------------------------------------
\* The theorems.

\* At first nothing is anywhere.
LEMMA RouteInit == Init => RouteInv
  BY DEF Init, ClientInit, RouteInv, QueuesRouted, NetRouted, StreamsRouted, FlowsApart,
         NeverDropped

\* No step takes a message off its route.
LEMMA RouteStep == RelayTyped /\ RouteInv /\ [Next]_proxyVars => RouteInv'
  <1> SUFFICES ASSUME RelayTyped, RouteInv, [Next]_proxyVars PROVE RouteInv'
    OBVIOUS
  <1>1. CASE UNCHANGED proxyVars
    BY <1>1 DEF proxyVars, relayVars, clientVars, packetVars, RouteInv, NetRouted,
                StreamsRouted, FlowsApart, NeverDropped
  <1>2. CASE Receiver /\ UNCHANGED <<flow, relayVars>>
    BY <1>2, ReceiverKeepsRoute
  <1>3. CASE Relay
    <2>1. ASSUME NEW b \in TcpClients, TcpClientRun(b) \/ TcpClientRead(b) PROVE RouteInv'
      BY <2>1, TcpSteps, TcpKeepsRoute, TcpKinds
    <2>2. ASSUME NEW b \in Servers, TcpServerRun(b) \/ TcpServerRead(b) PROVE RouteInv'
      BY <2>2, TcpSteps, TcpKeepsRoute, TcpKinds
    <2>3. QED
      BY <1>3, <2>1, <2>2, UdpKeepsRoute, ConverterKeepsRoute, ScreamKeepsRoute,
         EndKeepsRoute DEF Relay
  <1>4. ASSUME NEW b \in Servers,
               Reader(b) \/ TcpServerReport(b, "run") \/ ReaderSpuriousWakeup(b)
        PROVE  RouteInv'
    BY <1>4, ReaderSteps DEF ServerOnly, clientVars, packetVars, RouteInv, NetRouted,
       StreamsRouted, FlowsApart, NeverDropped
  <1>5. CASE Environment
    BY <1>4, <1>5, EndKeepsRoute, ScreamKeepsRoute, NetworkKeepsRoute DEF Environment
  <1>6. QED
    BY <1>1, <1>2, <1>3, <1>4, <1>5 DEF Next

\* So no message ever is.
LEMMA OnRoute == Spec => []RouteInv
  BY RouteInit, RouteStep, ProxyInvariance, PTL DEF Spec

\* Whatever the two programs carry comes out at the other end of the game, at the
\* port its flow has there, and at no other.
THEOREM FlowsStayApart == Spec => []FlowsApart
  <1>1. RouteInv => FlowsApart
    BY DEF RouteInv
  <1>2. QED
    BY <1>1, OnRoute, PTL

\* Audio and the game client's input never meet a block that has nowhere to send
\* them; what is dropped of video and commands the controller or a TcpServer drops.
THEOREM WiredNeverDropped == Spec => []NeverDropped
  <1>1. RouteInv => NeverDropped
    BY DEF RouteInv
  <1>2. QED
    BY <1>1, OnRoute, PTL
=============================================================================
