------------------------------- MODULE Proxy -------------------------------
(***************************************************************************)
(* proxy_server and proxy_client as main_server.cpp and main_client.cpp    *)
(* wire them, carrying one flow from one end of the game to the other.     *)
(* The ends and the network are the environment.  UdpSocket,               *)
(* MsgTypeConverter and the TCP blocks are here message by message;        *)
(* ScreamClientSingle is the whole of ScreamClient.  ScreamV2ServerSingle  *)
(* is a queue from which the controller may discard; the pop that finds    *)
(* nothing after that and sends an old packet again is in ScreamServer     *)
(* only.  On a connection messages stay whole, as Framing shows; what      *)
(* TcpServer does to them when its client is replaced is here message by   *)
(* message: the two sends of a frame are one step, and a message that its  *)
(* reader puts together out of two clients' bytes is not followed.         *)
(* TcpServer shows both in detail.                                         *)
(*                                                                         *)
(* Flows meet only in the queue of proxy_server's TcpClient, which takes   *)
(* commands and bitrate requests, so a behaviour carries one flow, chosen  *)
(* at the start, and the requests go with the commands of the game client. *)
(* What a flow does not meet is left out of its behaviours: time, feedback *)
(* and the receiver's loop where no packet passes it, and stopping         *)
(* proxy_client from those that carry commands.                            *)
(* A message is its number, and its type while it is in a queue.           *)
(***************************************************************************)
EXTENDS ScreamClient, SequencesExt

CONSTANTS
  MaxRequests,   \* bound on the bitrate requests
  MaxMessages,   \* bound on packets and requests together
  MaxDown        \* bound on the connections that are down at a time

ASSUME RequestsAssumption == MaxRequests \in Nat /\ MaxMessages \in Nat /\ MaxDown \in Nat

VARIABLES
  flow,        \* the flow carried
  offered,     \* messages the flow's source has sent so far
  requested,   \* bitrate requests the controller has made so far
  queue,       \* Sink::own_queue of each block that has one
  net,         \* datagrams on their way; inbound has those for ScreamClient
  stream,      \* each direction of each TCP connection
  connected,   \* the TCP connections that are up
  server,      \* client_error and the threads of each TcpServer
  delivered,   \* what has come out at the ends, in order
  lost,        \* what the network or a connection has lost
  dropped      \* what a block had nowhere to send

relayVars == <<offered, requested, queue, net, stream, connected, server, delivered,
               lost, dropped>>
proxyVars == <<clientVars, flow, relayVars>>

-----------------------------------------------------------------------------
\* The wiring.  A socket has a local port and sends to a port of a host; a
\* missing remote_port stays 0, and "0" is what the server's side is given.

To(local, host, remote) == [local |-> local, host |-> host, remote |-> remote]

ServerSockets == [
  server_side_video_rtp    |-> To(10002, "game_server", 0),
  scream                   |-> To(30002, "proxy_client", 30002),
  server_side_video_rtcp   |-> To(10003, "game_server", 0),
  client_side_video_rtcp   |-> To(30003, "proxy_client", 30003),
  server_side_audio_rtp    |-> To(10000, "game_server", 0),
  client_side_audio_rtp    |-> To(30000, "proxy_client", 30000),
  server_side_audio_rtcp   |-> To(10001, "game_server", 0),
  client_side_audio_rtcp   |-> To(30001, "proxy_client", 30001),
  server_side_input_stream |-> To(19999, "game_server", 9999),
  client_side_input_stream |-> To(29999, "proxy_client", 29999)]

ClientSockets == [
  client_side_video_rtp    |-> To(20002, "game_client", 10002),
  scream                   |-> To(30002, "proxy_server", 30002),
  client_side_video_rtcp   |-> To(20003, "game_client", 10003),
  server_side_video_rtcp   |-> To(30003, "proxy_server", 30003),
  server_side_audio_rtp    |-> To(30000, "proxy_server", 0),
  client_side_audio_rtp    |-> To(20000, "game_client", 10000),
  client_side_audio_rtcp   |-> To(20001, "game_client", 10001),
  server_side_audio_rtcp   |-> To(30001, "proxy_server", 30001),
  client_side_input_stream |-> To(19999, "game_client", 9999),
  server_side_input_stream |-> To(29999, "proxy_server", 29999)]

\* The TCP blocks: a server listens on its local port, a client connects to
\* its remote one.
ServerTcp == [
  tcp_server |-> To(29999, "none", 0),
  tcp_client |-> To(19999, "game_server", 9999)]

ClientTcp == [
  client_side_command_stream |-> To(19999, "none", 0),
  server_side_command_stream |-> To(29999, "proxy_server", 29999)]

\* registerQueue: source, message type, sink.
ServerQueues == {
  <<"server_side_video_rtp", "RAW", "video_rtp_converter">>,
  <<"video_rtp_converter", "RTP_PACKET", "scream">>,
  <<"server_side_video_rtcp", "RAW", "client_side_video_rtcp">>,
  <<"client_side_video_rtcp", "RAW", "server_side_video_rtcp">>,
  <<"server_side_audio_rtp", "RAW", "client_side_audio_rtp">>,
  <<"client_side_audio_rtp", "RAW", "server_side_audio_rtp">>,
  <<"server_side_audio_rtcp", "RAW", "client_side_audio_rtcp">>,
  <<"client_side_audio_rtcp", "RAW", "server_side_audio_rtcp">>,
  <<"server_side_input_stream", "RAW", "client_side_input_stream">>,
  <<"client_side_input_stream", "RAW", "server_side_input_stream">>,
  <<"tcp_server", "RAW", "tcp_client">>,
  <<"tcp_client", "RAW", "tcp_server">>,
  <<"scream", "BITRATE_REQUEST", "brm_converter">>,
  <<"brm_converter", "RAW", "tcp_client">>}

\* The queue registered with scream for RTP_PACKET is ScreamClient's out.
ClientQueues == {
  <<"video_rtp_converter", "RAW", "client_side_video_rtp">>,
  <<"client_side_video_rtcp", "RAW", "server_side_video_rtcp">>,
  <<"server_side_audio_rtp", "RAW", "client_side_audio_rtp">>,
  <<"client_side_audio_rtcp", "RAW", "server_side_audio_rtcp">>,
  <<"client_side_input_stream", "RAW", "server_side_input_stream">>,
  <<"client_side_command_stream", "RAW", "server_side_command_stream">>,
  <<"server_side_command_stream", "RAW", "client_side_command_stream">>}

Sockets == [proxy_server |-> ServerSockets, proxy_client |-> ClientSockets]
Tcp     == [proxy_server |-> ServerTcp, proxy_client |-> ClientTcp]
Queues  == [proxy_server |-> ServerQueues, proxy_client |-> ClientQueues]

Proxies == {"proxy_server", "proxy_client"}
Ends    == {"game_server", "game_client"}
Hosts   == Proxies \cup Ends

\* A block is named by its program and its variable in main.
BlocksOf(table, others) ==
  UNION {{p} \X (DOMAIN table[p] \ others) : p \in Proxies}

UdpBlocks == BlocksOf(Sockets, {"scream"})
TcpBlocks == BlocksOf(Tcp, {})

ServerScream    == <<"proxy_server", "scream">>
ClientScream    == <<"proxy_client", "scream">>
ServerConverter == <<"proxy_server", "video_rtp_converter">>
BrmConverter    == <<"proxy_server", "brm_converter">>
ClientConverter == <<"proxy_client", "video_rtp_converter">>

\* The blocks with a queue; that of ClientConverter is out.
QueueBlocks == UdpBlocks \cup TcpBlocks \cup {ServerScream, ServerConverter, BrmConverter}

\* Mutant: remote_port is given the value of local_port.
SocketToOwnPort(b) == [Sockets[b[1]][b[2]] EXCEPT !.remote = Sockets[b[1]][b[2]].local]

Socket(b) == Sockets[b[1]][b[2]]

\* A connection is named by the address its accepting end listens at and has
\* two streams, towards that end and back.
Accepting(b)  == Tcp[b[1]][b[2]].host = "none"
Connection(b) ==
  IF Accepting(b) THEN <<b[1], Tcp[b[1]][b[2]].local>>
  ELSE <<Tcp[b[1]][b[2]].host, Tcp[b[1]][b[2]].remote>>
Connections == {Connection(b) : b \in TcpBlocks}
Streams     == Connections \X {"to", "back"}
ReadsOf(b)  == <<Connection(b), IF Accepting(b) THEN "to" ELSE "back">>
WritesOf(b) == <<Connection(b), IF Accepting(b) THEN "back" ELSE "to">>

\* The flows: who sends, to which port of its proxy, and the port where the
\* other end expects it (0: an end's port that no proxy knows).
Flow(name, from, entry, exit) ==
  [name |-> name, from |-> from, entry |-> entry, exit |-> exit]

Flows == {
  Flow("video_rtp", "game_server", 10002, 10002),
  Flow("video_rtcp", "game_server", 10003, 10003),
  Flow("audio_rtp", "game_server", 10000, 10000),
  Flow("audio_rtcp", "game_server", 10001, 10001),
  Flow("input", "game_server", 19999, 9999),
  Flow("commands", "game_server", 9999, 19999),
  Flow("video_rtcp", "game_client", 20003, 0),
  Flow("audio_rtcp", "game_client", 20001, 0),
  Flow("input", "game_client", 19999, 9999),
  Flow("commands", "game_client", 19999, 9999),
  Flow("feedback", "proxy_server", 30002, 0)}

Near(end)  == IF end = "game_server" THEN "proxy_server" ELSE "proxy_client"
Other(end) == IF end = "game_server" THEN "game_client" ELSE "game_server"

\* The blocks of each class; the calls of a TcpServer that may fail.
Servers    == {b \in TcpBlocks : Accepting(b)}
TcpClients == TcpBlocks \ Servers
Calls      == {"run", "read"}

\* A client is connected, and all of TcpServer's threads are at work:
\*   client_error  there is no client or a call on it has failed;
\*   failing       calls that have failed and are about to set client_error;
\*   reader        "reading", "deciding" to wait for a client, or "asleep";
\*   stale         the buffer begins with a part of a former client's frame.
AtWork == [client_error |-> FALSE, failing |-> {}, reader |-> "reading", stale |-> FALSE]

\* The stream an end of the game writes to; it reads the other of the two.
EndWrites(end) ==
  IF end = "game_server" THEN <<<<"game_server", 9999>>, "back">>
  ELSE <<<<"proxy_client", 19999>>, "to">>
EndReads(end) ==
  IF end = "game_server" THEN <<<<"game_server", 9999>>, "to">>
  ELSE <<<<"proxy_client", 19999>>, "back">>

Requests == MaxPackets + 1..MaxPackets + MaxRequests
Bodies   == Packets \cup Requests

-----------------------------------------------------------------------------
\* Source::forward: the message goes to every queue registered for its type.
Registered(b, type) == {c \in QueueBlocks : c[1] = b[1] /\ <<b[2], type, c[2]>> \in Queues[b[1]]}

\* Mutant: the message's type is left at NONE.
ForwardIntoUntyped(q, b, type, x) ==
  [c \in QueueBlocks |-> IF c \in Registered(b, type)
                         THEN Append(q[c], [type |-> "NONE", body |-> x]) ELSE q[c]]

ForwardInto(q, b, type, x) ==
  [c \in QueueBlocks |-> IF c \in Registered(b, type)
                         THEN Append(q[c], [type |-> type, body |-> x]) ELSE q[c]]

Forward(q, b, type, x) ==
  /\ queue' = ForwardInto(q, b, type, x)
  /\ dropped' = IF Registered(b, type) = {} THEN dropped \cup {x} ELSE dropped

\* What is left of the queues when b has taken its next message.
Taken(b) == [queue EXCEPT ![b] = Tail(@)]

\* A datagram for a port: ScreamClient's socket has its own place.
SendTo(host, port, x) ==
  IF host = "proxy_client" /\ port = ClientSockets.scream.local
  THEN inbound' = inbound \cup {x} /\ net' = net
  ELSE net' = net \cup {[host |-> host, port |-> port, body |-> x]} /\ inbound' = inbound

\* A message on a stream, lost when the connection is not there.
WriteTo(s, x) ==
  IF s[1] \in connected
  THEN stream' = [stream EXCEPT ![s] = Append(@, x)] /\ lost' = lost
  ELSE lost' = lost \cup {x} /\ stream' = stream

\* main_client starts all its blocks and stops the others before it stops
\* scream, which takes the process down.  proxy_server stays.
Up(b) ==
  \/ b[1] = "proxy_server"
  \/ main = "running"
  \/ main = "joining" /\ b[2] \in {"video_rtp_converter", "client_side_video_rtp"}

\* What ScreamClient's own steps leave alone, and what the others leave of it.
innerVars == <<mainVars, pc, lock, hand, receiver, held, overtaken>>

-----------------------------------------------------------------------------
\* UdpSocket::read and UdpSocket::run

\* Mutant: the message gets the type that only the video packets have.
UdpReadTyped(b) ==
  /\ Up(b)
  /\ \E d \in net :
       /\ d.host = b[1] /\ d.port = Socket(b).local
       /\ net' = net \ {d}
       /\ Forward(queue, b, "RTP_PACKET", d.body)
  /\ UNCHANGED <<innerVars, inbound, out, flow, offered, requested, stream,
                 connected, server, delivered, lost>>

UdpRead(b) ==
  /\ Up(b)
  /\ \E d \in net :
       /\ d.host = b[1] /\ d.port = Socket(b).local
       /\ net' = net \ {d}
       /\ Forward(queue, b, "RAW", d.body)
  /\ UNCHANGED <<innerVars, inbound, out, flow, offered, requested, stream,
                 connected, server, delivered, lost>>

\* sendto on port 0 fails (EINVAL).
UdpRun(b) ==
  /\ Up(b)
  /\ queue[b] # <<>>
  /\ queue' = Taken(b)
  /\ LET x == Head(queue[b]).body
     IN  IF Socket(b).remote = 0
         THEN dropped' = dropped \cup {x} /\ UNCHANGED <<net, inbound>>
         ELSE SendTo(Socket(b).host, Socket(b).remote, x) /\ UNCHANGED dropped
  /\ UNCHANGED <<innerVars, out, flow, offered, requested, stream, connected, server,
                 delivered, lost>>

-----------------------------------------------------------------------------
\* MsgTypeConverter<U, V>::run: messages of another type are discarded.
Convert(b, U, V) ==
  /\ queue[b] # <<>>
  /\ LET m == Head(queue[b])
     IN  IF m.type = U THEN Forward(Taken(b), b, V, m.body)
         ELSE queue' = Taken(b) /\ dropped' = dropped \cup {m.body}
  /\ UNCHANGED <<clientVars, flow, offered, requested, net, stream, connected, server,
                 delivered, lost>>

ConvertToRtp     == Convert(ServerConverter, "RAW", "RTP_PACKET")
ConvertToCommand == Convert(BrmConverter, "BITRATE_REQUEST", "RAW")

\* The converter behind ScreamClient takes from out.
ConvertToRaw ==
  /\ Up(ClientConverter) /\ flow.name # "feedback"
  /\ Take
  /\ Forward(queue, ClientConverter, "RAW", Head(out))
  /\ UNCHANGED <<flow, offered, requested, net, stream, connected, server, delivered, lost>>

-----------------------------------------------------------------------------
\* ScreamV2ServerSingle: the oldest packet goes out; a request is forwarded.

ScreamSend ==
  /\ queue[ServerScream] # <<>>
  /\ queue' = Taken(ServerScream)
  /\ SendTo(Socket(ServerScream).host, Socket(ServerScream).remote,
            Head(queue[ServerScream]).body)
  /\ UNCHANGED <<innerVars, out, flow, offered, requested, stream, connected, server,
                 delivered, lost, dropped>>

\* The controller gives up the oldest packet of the queue it has been given.
ScreamDiscard ==
  /\ queue[ServerScream] # <<>>
  /\ queue' = Taken(ServerScream)
  /\ dropped' = dropped \cup {Head(queue[ServerScream]).body}
  /\ UNCHANGED <<clientVars, flow, offered, requested, net, stream, connected, server,
                 delivered, lost>>

\* Mutant: the request is typed IFRAME_REQUEST, which has no queue.
ScreamRequestIframe ==
  /\ flow.name = "commands" /\ flow.from = "game_client"
  /\ main # "ready"
  /\ requested < MaxRequests /\ offered + requested < MaxMessages
  /\ requested' = requested + 1
  /\ Forward(queue, ServerScream, "IFRAME_REQUEST", MaxPackets + requested + 1)
  /\ UNCHANGED <<clientVars, flow, offered, net, stream, connected, server, delivered, lost>>

ScreamRequest ==
  /\ flow.name = "commands" /\ flow.from = "game_client"
  /\ main # "ready"
  /\ requested < MaxRequests /\ offered + requested < MaxMessages
  /\ requested' = requested + 1
  /\ Forward(queue, ServerScream, "BITRATE_REQUEST", MaxPackets + requested + 1)
  /\ UNCHANGED <<clientVars, flow, offered, net, stream, connected, server, delivered, lost>>

-----------------------------------------------------------------------------
\* TcpClient: run writes what is RAW, read forwards.  Nothing is written
\* again, and a TcpClient never connects again.

\* Mutant: what could not be written is reported lost and kept for a retry.
TcpClientRunRetries(b) ==
  /\ Up(b)
  /\ queue[b] # <<>>
  /\ queue' = IF Connection(b) \in connected THEN Taken(b) ELSE queue
  /\ WriteTo(WritesOf(b), Head(queue[b]).body)
  /\ UNCHANGED <<clientVars, flow, offered, requested, net, connected, server, delivered,
                 dropped>>

TcpClientRun(b) ==
  /\ Up(b)
  /\ queue[b] # <<>>
  /\ queue' = Taken(b)
  /\ LET m == Head(queue[b])
     IN  IF m.type = "RAW" THEN WriteTo(WritesOf(b), m.body) /\ UNCHANGED dropped
         ELSE dropped' = dropped \cup {m.body} /\ UNCHANGED <<stream, lost>>
  /\ UNCHANGED <<clientVars, flow, offered, requested, net, connected, server, delivered>>

TcpClientRead(b) ==
  /\ Up(b)
  /\ stream[ReadsOf(b)] # <<>>
  /\ stream' = [stream EXCEPT ![ReadsOf(b)] = Tail(@)]
  /\ Forward(queue, b, "RAW", Head(stream[ReadsOf(b)]))
  /\ UNCHANGED <<clientVars, flow, offered, requested, net, connected, server, delivered,
                 lost>>

-----------------------------------------------------------------------------
\* TcpServer

\* A call finds the connection gone; it sets client_error in a step of its own.
CallFails(b, call) ==
  /\ Connection(b) \notin connected
  /\ server' = [server EXCEPT ![b].failing = @ \cup {call}]

\* Mutant: without a client the message goes to the end of the queue.
TcpServerRunRequeues(b) ==
  /\ Up(b)
  /\ queue[b] # <<>> /\ "run" \notin server[b].failing
  /\ LET m == Head(queue[b])
     IN  IF ~server[b].client_error
         THEN queue' = Taken(b) /\ WriteTo(WritesOf(b), m.body)
         ELSE queue' = [Taken(b) EXCEPT ![b] = Append(@, m)] /\ UNCHANGED <<stream, lost>>
  /\ UNCHANGED <<clientVars, flow, offered, requested, net, connected, server, delivered,
                 dropped>>

\* run drops what it takes while client_error is set, whoever is connected.
TcpServerRun(b) ==
  /\ Up(b)
  /\ queue[b] # <<>> /\ "run" \notin server[b].failing
  /\ queue' = Taken(b)
  /\ LET m == Head(queue[b])
     IN  IF m.type = "RAW" /\ ~server[b].client_error
         THEN /\ WriteTo(WritesOf(b), m.body)
              /\ UNCHANGED server \/ CallFails(b, "run")
              /\ UNCHANGED dropped
         ELSE dropped' = dropped \cup {m.body} /\ UNCHANGED <<stream, lost, server>>
  /\ UNCHANGED <<clientVars, flow, offered, requested, net, connected, delivered>>

\* The reader has seen client_error clear and is in recv.
Receives(b) ==
  /\ Up(b)
  /\ server[b].reader = "reading" /\ "read" \notin server[b].failing
  /\ ~server[b].client_error

\* A message that comes behind a part of a former client's frame is taken for
\* the rest of that frame, as a whole or in part; more may be missing then.
TcpServerRead(b) ==
  /\ Receives(b)
  /\ stream[ReadsOf(b)] # <<>>
  /\ stream' = [stream EXCEPT ![ReadsOf(b)] = Tail(@)]
  /\ LET x == Head(stream[ReadsOf(b)])
     IN  IF server[b].stale
         THEN /\ dropped' = dropped \cup {x} /\ UNCHANGED queue
              /\ \E more \in BOOLEAN : server' = [server EXCEPT ![b].stale = more]
         ELSE Forward(queue, b, "RAW", x) /\ UNCHANGED server
  /\ UNCHANGED <<clientVars, flow, offered, requested, net, connected, delivered, lost>>

\* What leaves the messages alone.
ServerOnly ==
  UNCHANGED <<clientVars, flow, offered, requested, queue, net, stream, connected,
              delivered, lost, dropped>>

TcpServerReadFails(b) == Receives(b) /\ CallFails(b, "read") /\ ServerOnly

\* A failed call sets client_error, of whatever client there is by then.
TcpServerReport(b, call) ==
  /\ Up(b) /\ call \in server[b].failing
  /\ server' = [server EXCEPT ![b].failing = @ \ {call}, ![b].client_error = TRUE]
  /\ ServerOnly

\* The reader finds no client; it begins to wait in a second step, and does not
\* hear of a client that comes in between.
ReaderGoes(b, from, to) ==
  /\ Up(b) /\ server[b].reader = from
  /\ server' = [server EXCEPT ![b].reader = to]
  /\ ServerOnly

ReaderDecides(b) ==
  /\ server[b].client_error /\ "read" \notin server[b].failing
  /\ ReaderGoes(b, "reading", "deciding")

ReaderSleeps(b)         == ReaderGoes(b, "deciding", "asleep")
ReaderSpuriousWakeup(b) == ReaderGoes(b, "asleep", "reading")

\* TcpServer's threads between two messages.
Reader(b) ==
  ReaderDecides(b) \/ ReaderSleeps(b) \/ TcpServerReadFails(b) \/ TcpServerReport(b, "read")

-----------------------------------------------------------------------------
\* The ends of the game and the network

\* The ends begin when proxy_client has been started.
GameSend ==
  /\ main # "ready"
  /\ offered < MaxPackets /\ offered + requested < MaxMessages
  /\ offered' = offered + 1
  /\ IF flow.name = "commands"
     THEN /\ EndWrites(flow.from)[1] \in connected
          /\ WriteTo(EndWrites(flow.from), offered')
          /\ UNCHANGED <<net, inbound>>
     ELSE SendTo(Near(flow.from), flow.entry, offered') /\ UNCHANGED <<stream, lost>>
  /\ UNCHANGED <<innerVars, out, flow, requested, queue, connected, server, delivered, dropped>>

Deliver(end, port, x) ==
  delivered' = Append(delivered, [host |-> end, port |-> port, body |-> x])

GameReceive ==
  /\ \E d \in net : d.host \in Ends /\ net' = net \ {d} /\ Deliver(d.host, d.port, d.body)
  /\ UNCHANGED <<clientVars, flow, offered, requested, queue, stream, connected, server,
                 lost, dropped>>

GameRead(end) ==
  LET s == EndReads(end)
  IN  /\ stream[s] # <<>>
      /\ stream' = [stream EXCEPT ![s] = Tail(@)]
      /\ Deliver(end, s[1][2], Head(stream[s]))
      /\ UNCHANGED <<clientVars, flow, offered, requested, queue, net, connected, server,
                     lost, dropped>>

LoseDatagram ==
  /\ flow.name # "feedback"
  /\ \/ \E d \in net :
          net' = net \ {d} /\ lost' = lost \cup {d.body} /\ UNCHANGED clientVars
     \/ \E p \in inbound : Lose(p) /\ lost' = lost \cup {p} /\ UNCHANGED net
  /\ UNCHANGED <<flow, offered, requested, queue, stream, connected, server, delivered, dropped>>

\* A connection goes away with what is on it.
Break(c) ==
  /\ flow.name = "commands"
  /\ c \in connected /\ Cardinality(Connections \ connected) < MaxDown
  /\ connected' = connected \ {c}
  /\ stream' = [s \in Streams |-> IF s[1] = c THEN <<>> ELSE stream[s]]
  /\ lost' = lost \cup ToSet(stream[<<c, "to">>]) \cup ToSet(stream[<<c, "back">>])
  /\ UNCHANGED <<clientVars, flow, offered, requested, queue, net, server, delivered,
                 dropped>>

\* TcpServer::accept_client: the game client connects again.  It is refused until
\* the end of the former connection has been noticed, and a part of a frame that
\* came on that one may still be in the buffer.
Reconnect ==
  LET b == <<"proxy_client", "client_side_command_stream">>
  IN  /\ flow.name = "commands"
      /\ Up(b) /\ Connection(b) \notin connected
      /\ server[b].client_error
      /\ connected' = connected \cup {Connection(b)}
      /\ \E part \in BOOLEAN :
           server' = [server EXCEPT
             ![b].client_error = FALSE,
             ![b].reader = IF @ = "asleep" THEN "reading" ELSE @,
             ![b].stale = @ \/ part]
      /\ UNCHANGED <<clientVars, flow, offered, requested, queue, net, stream, delivered,
                     lost, dropped>>

-----------------------------------------------------------------------------
Init ==
  /\ ClientInit
  /\ flow \in Flows
  /\ offered = 0 /\ requested = 0
  /\ queue = [b \in QueueBlocks |-> <<>>]
  /\ net = {}
  /\ stream = [s \in Streams |-> <<>>]
  /\ connected = Connections
  /\ server = [b \in Servers |-> AtWork]
  /\ delivered = <<>> /\ lost = {} /\ dropped = {}

\* The threads of both programs, ScreamClient's apart, with a message.
Relay ==
  \/ \E b \in UdpBlocks : UdpRead(b) \/ UdpRun(b)
  \/ ConvertToRtp \/ ConvertToCommand \/ ConvertToRaw
  \/ ScreamSend
  \/ \E b \in TcpClients : TcpClientRun(b) \/ TcpClientRead(b)
  \/ \E b \in Servers : TcpServerRun(b) \/ TcpServerRead(b)
  \/ GameReceive
  \/ \E end \in Ends : GameRead(end)

Environment ==
  \/ GameSend \/ ScreamRequest \/ ScreamDiscard \/ LoseDatagram \/ Reconnect
  \/ \E c \in Connections : Break(c)
  \/ \E b \in Servers : ReaderSpuriousWakeup(b)

\* ScreamClient's steps, and the flows that meet them.
ThroughScream == {"video_rtp", "feedback"}

Ending   == flow.name # "commands" /\ Stop
Looping  == Run /\ (flow.name \in ThroughScream \/ stop_condition \/ pc["run"] = "spawn")
Feedback == flow.name = "feedback" /\ Rtcp
Clock    == flow.name = "feedback" /\ Tick

Receiver == Start \/ Ending \/ Looping \/ Feedback \/ Clock

Next ==
  \/ Receiver /\ UNCHANGED <<flow, relayVars>>
  \/ Relay
  \/ \E b \in Servers : Reader(b) \/ TcpServerReport(b, "run")
  \/ Environment

Spec == Init /\ [][Next]_proxyVars

Fairness ==
  /\ WF_clientVars(Start) /\ WF_clientVars(Clock)
  /\ SF_clientVars(Looping) /\ SF_clientVars(Feedback)
  /\ SF_clientVars(\E p \in Packets : RunRecv(p))
  /\ WF_proxyVars(Relay)
  /\ \A b \in Servers :
       WF_proxyVars(Reader(b)) /\ WF_proxyVars(TcpServerReport(b, "run"))

LiveSpec == Spec /\ Fairness

-----------------------------------------------------------------------------
\* Properties

\* The flows both proxies have a way for.  RTCP ends in the other proxy in both
\* directions (RtcpForwarded), and so does input from the game server.
Wired == {f \in Flows : \/ f.name \in {"video_rtp", "audio_rtp", "commands"}
                        \/ f.name = "input" /\ f.from = "game_client"}

TypeOK ==
  /\ ClientTypeOK
  /\ flow \in Flows
  /\ offered \in 0..MaxPackets /\ requested \in 0..MaxRequests
  /\ queue \in [QueueBlocks -> Seq([type : {"RAW", "RTP_PACKET", "BITRATE_REQUEST"},
                                    body : Bodies])]
  /\ net \subseteq [host : Hosts, port : Nat, body : Packets]
  /\ stream \in [Streams -> Seq(Bodies)]
  /\ connected \subseteq Connections
  /\ server \in [Servers -> [client_error : BOOLEAN, failing : SUBSET Calls,
                            reader : {"reading", "deciding", "asleep"}, stale : BOOLEAN]]
  /\ delivered \in Seq([host : Ends, port : Nat, body : Bodies])
  /\ lost \subseteq Bodies /\ dropped \subseteq Bodies

\* Where message x is, with multiplicity.
PlacesOf(x) ==
  {d \in net : d.body = x}
    \cup {<<"inbound">> : p \in inbound \cap {x}}
    \cup {<<"out", i>> : i \in {i \in DOMAIN out : out[i] = x}}
    \cup (UNION {{<<b, i>> : i \in {i \in DOMAIN queue[b] : queue[b][i].body = x}} :
                 b \in QueueBlocks})
    \cup (UNION {{<<s, i>> : i \in {i \in DOMAIN stream[s] : stream[s][i] = x}} :
                 s \in Streams})
    \cup {<<"delivered", i>> : i \in {i \in DOMAIN delivered : delivered[i].body = x}}
    \cup {<<"lost">> : p \in lost \cap {x}}
    \cup {<<"dropped">> : p \in dropped \cap {x}}

\* The messages sent so far.
Sent == 1..offered \cup MaxPackets + 1..MaxPackets + requested

\* No proxy loses or doubles a message: each one sent is in exactly one place.
OnePlace == \A x \in Sent : Cardinality(PlacesOf(x)) = 1

\* A message comes out where its flow belongs and nowhere else.
FlowsApart ==
  \A i \in DOMAIN delivered :
    delivered[i].host = Other(flow.from) /\ delivered[i].port = flow.exit

\* README.md says of the flows beside video and commands that they "are just
\* transferred untouched to the corresponding socket of the client": no block
\* drops an RTCP packet.
RtcpForwarded == flow.name \in {"video_rtcp", "audio_rtcp"} => dropped = {}

\* The controller may discard video, and TcpServer drops commands; of the other
\* flows that both proxies have a way for, no block drops anything.
MayBeDropped == {"video_rtp", "commands"}
NeverDropped == flow \in Wired /\ flow.name \notin MayBeDropped => dropped = {}

InOrder(S) ==
  \A i, j \in DOMAIN delivered :
    i < j /\ {delivered[i].body, delivered[j].body} \subseteq S
      => delivered[i].body < delivered[j].body

\* Commands and bitrate requests share the queue of proxy_server's TcpClient;
\* each kind arrives in its own order.
OrderPerProducer == flow.name = "commands" => InOrder(Packets) /\ InOrder(Requests)

\* The bodies of a sequence of records.
BodiesOf(s) == [i \in DOMAIN s |-> s[i].body]

\* The messages of each sender, and what Carrier says of the two programs.
Senders == {Packets, Requests}

Carrying == INSTANCE Carrier WITH
  kept    <- IF flow.name = "commands" THEN Senders ELSE {},
  sent    <- Sent,
  arrived <- BodiesOf(delivered),
  gone    <- lost \cup dropped

\* Both programs together are a carrier of messages: each one sent comes out at most
\* once and is never taken back, what is lost or dropped never comes out after all,
\* and commands and requests come out in the order of their sender.
CarrierSpec == Carrying!Spec

Arrived(x) == \E i \in DOMAIN delivered : delivered[i].body = x

\* Every packet handed to the receiver is reported, unless the block stops.
EveryPacketReported ==
  \A p \in Packets :
    flow.name = "feedback" /\ p \in unreported ~> (p \notin unreported \/ stop_condition)

\* A TcpServer's reader has missed the client that has sent message n.
NotHeard(n) ==
  \E b \in Servers : server[b].reader = "asleep" /\ n \in ToSet(stream[ReadsOf(b)])

\* A message of a wired flow arrives, unless the network or a connection loses
\* it, the reader it waits for sleeps, proxy_client is stopped, or, of video and
\* commands only, a block drops it: again and again none sent so far is on its way.
EveryMessageArrives ==
  flow \in Wired =>
    []<>(stop_condition \/ \A n \in 1..offered :
           \/ Arrived(n) \/ n \in lost \/ NotHeard(n)
           \/ flow.name \in MayBeDropped /\ n \in dropped)

\* A bitrate request reaches the game server unless the connection fails.
EveryRequestArrives ==
  []<>(\A k \in 1..requested : Arrived(MaxPackets + k) \/ MaxPackets + k \in lost)
=============================================================================
