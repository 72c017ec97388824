# A verification development for game-stream-scream-proxy

The repository holds two proxies, `proxy_server` and `proxy_client`, that carry
the six flows of a cloud-gaming session between a game server and a game client
and put the SCReAM congestion controller on the video flow.  This directory
holds TLA+ models of the C++ code in `src/`, TLC configurations that check
them on small instances, and TLAPS proofs.  `PROJECT.json` says for every
definition which lines it translates (`map`), for every run what it shows, for
every property a plausible bug that breaks it (`mutants`), and lists what is
hard to test in the code (`hazards`).

## 1. The system

A proxy is a set of *blocks*.  A block has a thread of its own (often several),
an input queue that other blocks fill (`Sink`), or a list of queues it fills
(`Source`), or both.  Blocks share nothing else, except the logger.

| component | state | operations | hard behaviour | what makes it correct |
|---|---|---|---|---|
| `SimpleBlock` | `stop_condition`, `thread`, `initialized` | `init`, `start`, `stop` (store, then join) | restarts with queues as they were; a join that never returns | `stop()` returns; nothing is lost over a restart |
| `Sink` / `Source` | `own_queue`; queues per message type, under a spinlock | `getQueue`, `registerQueue`, `unregisterQueue`, `forward` | several producers on one queue | FIFO per producer |
| `spinlock` | `lock_` | `lock`, `try_lock`, `unlock` | exchange and load interleave; unfair | mutual exclusion |
| `ScreamV2ServerSingle` | RTP queue, controller, spinlock, socket | threads `run`, `lookup`, `read` | the lock is given back between asking the controller and acting; buffers change owner | a packet is sent at most once, in order and not after it was discarded; no leak, no double free but by a stale pop; window respected |
| `TcpServer` | `client_fd`, `client_error`, `listen_fd`, condition variable | threads `run`, `read`, `accept_client` | clients replaced while calls on the old one are under way; notifications without the mutex; stream cut into messages | descriptors, the error flag, messages unmixed, `stop()` returns |
| `TcpClient` | socket | threads `run`, `read` | disconnection ignored; two producers | order per producer, framing |
| `ScreamClientSingle` | receiver half of the controller, spinlock, socket | threads `run`, `periodicRtcp` | feedback built by two threads; reads before the lock; 32-bit time wraps; `run` does not join its thread | every packet is reported in time; no feedback without news; nothing forwarded twice |
| `UdpSocket` | socket | threads `run`, `read` | send and receive at once | FIFO relay |
| `MsgTypeConverter` | none | `run`, `convert` | none beyond the queue | filters by type, keeps order |
| `BasicRtpGenerator` | bitrate (atomic), sequence number | threads `run`, `listen` | bitrate changed during a frame; 16-bit wrap | packet sizes add up, one marker per frame |
| `logger` | spinlock, file, level | `log`, setters | called from a signal handler | exclusion; no self-deadlock |
| `main_server`, `main_client` | `stop`, the blocks | wiring, start, wait, stop in order | a handler interrupts any thread; one stop that hangs keeps the later ones | everything is stopped |
| `scream_utils` | `t0` | `getTimeInNtp`, `initT0`, `packet_free` | time wraps | - |
| `ScreamServerSingle` | as the second version | as the second version | never compiled | - |

How they interact in `proxy_server`: `UdpSocket` (video) -> `MsgTypeConverter`
-> `ScreamV2ServerSingle` -> network; feedback -> `ScreamV2ServerSingle` ->
`MsgTypeConverter` -> `TcpClient` -> game server; `TcpServer` <-> `TcpClient` for
signalling; pairs of `UdpSocket` for the other flows.  In `proxy_client`: network ->
`ScreamClientSingle` -> `MsgTypeConverter` -> `UdpSocket` -> game client, and the
same pairs, some of them registered in one direction only.

## 2. Modules

| module | models |
|---|---|
| `FifoChannel` | the abstract specification of a forwarding path: what is put in comes out once and in order |
| `Carrier` | the abstract specification of the two programs together, of what `TcpServer` writes and of what `ScreamServer` sends: a message comes out at most once, or is gone for good, and where the order is kept each sender's messages come out as they were sent |
| `ScreamServer` | `ScreamV2ServerSingle` with its three threads, the spinlock, `own_queue`, a controller that may discard from the RTP queue, start, stop and restart |
| `ScreamServerProofs` | the theorems about `ScreamServer`, among them that it implements `Carrier` |
| `MCScreamServer` | the instance TLC checks |
| `TcpServer` | `TcpServer` with its three threads, the clients and the kernel's descriptors, start, stop and restart |
| `TcpServerProofs` | the theorems about `TcpServer`, among them that what it writes implements `Carrier` |
| `MCTcpServer` | the instance TLC checks, and the symmetry of its clients |
| `Framing` | one direction of the signalling connection between `TcpClient::run` and `TcpClient::read` (or `TcpServer`'s), byte by byte: the header encoder, the stream, the receive buffer and the parser |
| `FramingProofs` | the theorems about `Framing`, among them that it implements `FifoChannel` and that the cuts of the stream do not matter |
| `NumberInduction` | induction on numbers as lemmas about sets of numbers, for the proofs about what recursive functions return |
| `MCFraming` | the instance TLC checks: the messages and the size of a byte |
| `Lifecycle` | main, the blocks it starts and stops, `logger::log` with the loop of `spinlock::lock`, the signal handlers of both programs |
| `LifecycleProofs` | the theorems about `Lifecycle` |
| `MCLifecycle` | the instance TLC checks |
| `ScreamClient` | `ScreamClientSingle` with its two threads, the spinlock, the receiver and the clock |
| `ScreamClientProofs` | the theorems about `ScreamClient` |
| `Proxy` | both programs as their mains wire them: every port, every registered queue, `UdpSocket`, `MsgTypeConverter` and the TCP blocks message by message; extends `ScreamClient`, whose steps are among its own |
| `ProxyProofs` | the types of `Proxy`, and what follows for `ScreamClient` inside it; where the messages of each flow may be, and what follows for where they come out |
| `ProxyPlaceProofs` | that each message is in one place, the order of commands and requests, and that `Proxy` implements `Carrier` |
| `MCProxy` | the instance TLC checks |

`TcpServer` and `Framing` are two views of the same code.  The first has
the threads and the clients and knows of a frame only head and tail; the second has
one connection and every byte.

### ScreamServer and the code

`pc` says where each thread is; a critical section is two steps, `Acquire` and
the section itself, so every interleaving outside the lock is there.  `RunDequeue`
is the dequeue with the copy into a new buffer (lines 146-189; the header
parsing has no effect but its results, which only the controller uses),
`RunPush` the critical section 192-194, `LookupCheck` 211-213, `LookupTransmit`
216-220, `LookupFree` 221 and `ReadFeedback` 269-277; the rate that `read` then
forwards leaves the block and is an action of `Proxy`.
A packet is the number of its arrival; the buffer holding its copy has the same
name, so `live` (allocated and not freed) can be compared with the places that
own a buffer.  `overshoot`, `stale`, `discarded` and `discards` are history variables.

*What is assumed of SCReAM* (a submodule that is not in the repository): it
admits a packet only while its window is open and may refuse more often
(pacing); feedback sets any window and acknowledges any number of packets;
`push` succeeds; and the controller may discard.  It is handed the RTP queue with
a limit of 0.2 s (`registerNewStream`, line 129) and `packet_free`
(`scream_utils.cpp:11`), which nothing in this repository calls, is there for
what it discards.  Which of its calls may do so cannot be read here, so
`RunPush` (`newMediaFrame`) and `ReadFeedback` (`incomingStandardizedFeedback`,
`getTargetBitrate`) may discard any number of the oldest buffers (`Discard`).
A discard in `isOkToTransmit` or `addTransmitted` changes nothing for `lookup`, which
asks for the size after them, and is left out.

Both calls may come between `lookup`'s two critical sections, and `lookup` ignores `pop`'s
result: when the queue has been emptied meanwhile, it sends and frees what `data`
holds, the buffer of the pop before (or nothing, if the library stores a null).  That is the
second branch of `Pop`, counted in `stale`.  The second free is undefined, and
`LookupFreeStale` and `LookupFreeAborts` are its outcomes: nothing happens, another
buffer that has got the memory is freed, or the process is aborted.  After
it the heap means nothing, so `BufferOwnership` speaks of the time before, and
`StaleOncePerDiscard` says how it can come about: at most once for
each discard, never by the interleaving of the block's own threads.  What is sent
a second time is not counted as a packet on the `wire`.

### TcpServer and the code

The atomics `client_fd` and `client_error` are read and written in separate
steps, as the code does; `send` and `recv` load `client_fd` when called and then
run on, so that `accept_client` can replace and close the descriptor meanwhile.
The condition variable has the two moments at which a notification is lost:
`ReadPredicate` (the predicate was false) and `ReadBlock` (the thread begins to
wait); nothing excludes a notifier in between, for `read_m` is held by the reader
alone.  A descriptor carries its client's name and is not used again, and a
frame on the stream is a head and a tail: enough for a message to be incomplete
when its client goes.  `fd` tells a connection whose receive timeout is not set
yet ("accepted") from one whose timeout is ("open"): a `recv` begun on the former
(`recvForever`) does not return for want of data.  A `send` to a client that does
not read waits (`RunSendWaits`), without a timeout, and does not see `stop_condition`:
it ends when the client reads (`RunGoesOn`) or goes away (`RunSendFails`), and goes on
when `accept_client` closes the descriptor meanwhile.

*What is assumed*: a failing `send` is reported by its result (on a connection that was reset it
also raises SIGPIPE, whose default ends the process; a process that has ended
takes no further step); the blocks' `init` is called once, before `start`.  Because
numbers of closed descriptors are not used again, a thread that holds the number
of a closed connection never reaches another connection through it.

### Framing and the code

A byte is a digit to the base `Base` (256 in the code) and the receive buffer has
`BufferSize` bytes per receive (`TCP_BUFFER_SIZE`), twice that in all.
`Header` is what lines 91-93 of `tcp_client.cpp` (96-98 of `tcp_server.cpp`)
write.  They shift the length by 64 and 56 bits where 8 and 0 are meant:
undefined in C++, and on x86 (measured at every optimisation level)
the length modulo 256 with a high byte of 0.  `ReadRecv` takes any number of
bytes up to a receive's size, `ParseSkip`, `ParseMessage` and `ParseEnd` are the
branches of the loop that cuts the buffer into messages and the copy of the rest
to its front.  `SendStray` is a byte outside of any frame, which only the programs at
the outer ends, not the blocks, could send; it is what makes the parser
search for a delimiter.  `Break` is a connection that goes away; the client ignores it, so
what the writer has left is lost.

### Lifecycle and the code

A context is the code of a thread or the handler on top of it; `Running` stops
the code while the handler runs.  `LogAcquire`, `LogMiss` and `LogSpin` are the
exchange that finds the lock free, the one that does not, and the load that ends
the inner loop.  A block is reduced to its loop on `stop_condition` and its calls
of the logger; a block's additional threads end before its thread does (`run`
joins them), so they are one here.  `MainStop` and `MainJoin` are the two lines of
`SimpleBlock::stop`.  Not every block ends when it is told to: one of `TcpBlocks`
may come to wait for ever (`BlockSticks`: `run` in `send`, and of `TcpServer` the reader after
a lost notification, both in detail in `TcpServer`), and the end of one of
`ScreamClients` ends the process of `proxy_client` (`BlockAborts`: the thread that
`ScreamClientSingle::run` does not join).  Otherwise the blocks are alike, so the order of the stops, roughly
the reverse of the starts, is exactly the reverse here.  `proxy` chooses the
program: only the handler of `main_server.cpp` logs.

### ScreamClient and the code

`RunRecv` is lines 106-163 of `scream_client_single.cpp` (receive, copy, forward;
no other thread can see in between), `RunReceive` the lock with line 170, and
`RunFeedback` and `RunNoFeedback` are the two outcomes of 171-174: the packet's
marker is read nowhere else, so "feedback" needs no condition of its own and "no
feedback" needs that `checkIfFlushAck` is false.  Between the two, while `run`
holds the lock, `periodicRtcp` may read the receiver, since it does not lock: its
condition (line 183) is three steps, `RtcpIsFeedback`, `RtcpFlush` and
`RtcpInterval`, one per call, in the order of the operators' evaluation.
`RtcpClock` is the reading of the clock on line 182, whose value is used when the
lock has been taken (185), however long that took.

The clock of `getTimeInNtp` has 32 bits and wraps every 18 hours.  The model keeps
ages instead of times: `held` is now minus `ntp_time`, `since` is now minus
`lastFeedbackT` modulo `ClockSize`, and the unsigned difference of line 183 is
`(since - held) % ClockSize`, which is huge when `run` has sent feedback after
`ntp_time` was read, as in the code.  `Tick` is the passing of time; that two readings of the
clock are at most `MaxRound` apart is the one assumption about scheduling (the
thread sleeps 500 us between them), and so is that the wall clock `gettimeofday`
reads is not set back.  `waiting` and `overtaken` are history variables.

`run` ends without joining the thread it has started, in line 176: the local
`std::thread` is destroyed while joinable, which by the C++ standard calls
`std::terminate`.  `RunEnd` is therefore the end of the process ("aborted").

*What is assumed of SCReAM*: a packet waits for its report from `receive` to the
next feedback, which reports all that wait; `isFeedback` says whether any waits;
`checkIfFlushAck` whether `AckDiff` do; `createStandardizedFeedback` makes a
feedback if any waits and may make one if none does.

### Proxy and the code

`ServerSockets`, `ClientSockets`, `ServerTcp` and `ClientTcp` are the `init` calls of
both mains, a port left out being 0 (the second `local_port` of line 84 of
`main_client.cpp` overwrites nothing and leaves `remote_port` out), `ServerQueues` and
`ClientQueues` the `registerQueue` calls.  The rest of the module does not know the
blocks by name: `Forward` puts a message into every queue registered for its
type, `UdpRead`, `UdpRun`, `Convert`, and `run` and `read` of the TCP blocks are a thread's handling
of one message, and a message goes where the tables say.  A message that no queue is
registered for, of a type its converter discards, or sent to port 0 (`sendto`
fails with EINVAL) is `dropped`.

The ends of the game and the network are the environment.  `net` is a set of
datagrams: any may overtake any other or be lost; none is doubled (a doubled one
is two messages to code that never looks at a payload).  A connection has a
stream in each direction and may break, which loses what is on it; at the start all are
up.  On a connection messages stay whole, because `Framing` shows that its two ends are a
FIFO channel of messages.

A `TcpServer` has in `server` what decides over messages: `client_error`; the calls that have
failed and have yet to set it (`failing`), which may be when another client has
been accepted; a reader that finds no client and goes to sleep in two steps, `ReaderDecides`
and `ReaderSleeps`, and misses a client accepted in between; and whether the buffer
begins with a part of a former client's frame (`stale`).  `TcpServerRun` drops what it takes
while `client_error` is set, whoever is connected.  `Reconnect` is the game client,
accepted again once the end of its former connection has been noticed, perhaps
with such a part in the buffer; the message that comes behind it is swallowed
(`TcpServerRead`), and more may be.  The message the parser makes of the two pieces
is in `TcpServer` and `tcp_server_mixed`; it is followed no further here, and the two sends of a
frame are one step.  A `TcpClient` has none of this and never connects again.

`ScreamV2ServerSingle` is its queue, the sending of its head and the discarding of it
(`ScreamDiscard`), as `ScreamServer` implements `Carrier`; the second sending of an old
buffer is in that module only.  A block's queue and thread are enough to order its
messages, so a step is from one queue to the next.

Flows meet in one place only, the queue of `proxy_server`'s `TcpClient`, where commands
of the game client meet bitrate requests.  A behaviour therefore carries one of the
eleven `Flows`, chosen at the start, and the requests go with the commands.
The flow "feedback" is the video flow with the clock and `periodicRtcp` running;
the other flows leave these two out.
`Up` says which blocks of `proxy_client` run: main stops all but three of them
before `scream.stop()`, which ends the process.  The stops before it are one step
with it, and left out of the behaviours with commands; blocks of `proxy_server` stay up (their stops are in `Lifecycle`,
`ScreamServer` and `TcpServer`).

## 3. Runs

| run | instance | shows |
|---|---|---|
| `scream_server` | 3 packets, window 1..2, one discard of any size, any stops and restarts | `TypeOK`, `BufferOwnership`, `StaleOncePerDiscard`, `OvershootAtMostOne`; refinement of `Carrier` (`CarrierSpec`); `StopReturns`, `EveryPacketSent` |
| `tcp_server` | 2 clients, 2 messages, 2 parts each | `TypeOK`, `DescriptorsOwned`, `NoErrorMeansClient`, `WritesInOrder`, `PartsForwardedOnce`, `MixedWithFirstOnly` |
| `tcp_server_live` | 2 clients that send nothing, 2 messages | `StopsUnlessBlocked`, `DeadClientNoticed`; that what is written implements `Carrier` (`CarrierSpec`) |
| `tcp_server_mixed` | 2 clients, 2 parts each | finding: the rest of one client's frame is joined to the next client's bytes |
| `tcp_server_stop` | 1 client | finding: a lost notification keeps `stop()` from returning |
| `tcp_server_kept` | 3 clients | finding: a late store of `client_error` gets a healthy client replaced |
| `framing` | 3 messages, a stray byte, base 4, receives of up to 5 | `TypeOK`, `InBounds`, `ChunksDoNotMatter`, `Untouched`, `AllForwarded` |
| `framing_long` | a message longer than a byte can say | finding: it is announced with the wrong length and taken apart |
| `lifecycle` | 2 blocks, one that may wait for ever and one that ends with `proxy_client`; 2 signals | `TypeOK`, `LogExclusive`, `NoThreadLeft`, `EndsUnlessWaiting` |
| `lifecycle_signal` | 1 block, 1 signal | finding: the handler waits for a lock its own thread holds |
| `proxy` | eleven flows, 2 packets, 2 requests, at most 3 of both together, one connection down at a time; a clock of 5 ticks, interval 1, round 1 | `TypeOK`, `OnePlace`, `FlowsApart`, `NeverDropped`, `OrderPerProducer`, `NothingNewOnlyIfOvertaken`, `ReportedInTime`; that the composition implements `Carrier` (`CarrierSpec`); `EveryMessageArrives`, `EveryRequestArrives`, `EveryPacketReported`; finding: stopping `scream` aborts the process (`StopAborts`) |
| `proxy_rtcp` | one packet of any flow | finding: RTCP is not transferred, in either direction |

**Bounds.**  `MaxPackets = 3` lets one packet be in each of run's hand, the RTP
queue and lookup's hands at once, and the queue hold two when `lookup` looks;
`MaxWindow = 2` gives an open window that one packet closes and one that it does
not.  `MaxDiscards = 1` is what a stale pop needs, and shows that a second one
does not follow.  The theorems hold for every value of the three.  Two clients are what a
replacement needs, three what a wrong replacement needs (one that fails, one
that is installed meanwhile, one that takes its place); two messages give four
writes, so that a repeated or a reordered one would show; two parts are one
complete frame, or the head of one and what follows it.  What clients send
has no part in `CarrierSpec`.


In `Framing` there are bodies that hold the delimiter, that look like a header or
that are empty; three messages let one receive hold the end of one, a whole one and the
beginning of another.  Bodies of the pass run are shorter than `Base`,
since longer ones are mis-encoded: that is `framing_long`.  The longest
frame is `BufferSize + 1` bytes, the longest for which the buffer
is large enough: a receive writes up to `BufferSize` bytes behind an incomplete
frame.  `InBounds` says nothing of a peer that announces longer frames.

In `Lifecycle` two blocks give three threads, so that two contexts can wait while
a third writes; two signals let a handler run on two threads at once, or
twice on one.  The safety properties are proved for all values.

In `Proxy` two messages are what an inversion or a loss beside a survivor needs, and
two of one kind and one of the other (`MaxMessages = 3`) what it takes to see both
interleave in the shared queue.  `MaxDown = 1` lets any connection break, and the one
to `TcpServer` again and again, but not a second one meanwhile.  With `AckDiff = 2` one packet waits for the interval and two
do not.  The clock of five ticks wraps many times in a behaviour, and
`Interval + MaxRound < ClockSize` leaves a tick between a due report and a wrapped
difference.  The invariants and the refinement are proved for all values.

**Fairness.**  In `ScreamServer` each thread is strongly fair: the spinlock is not
a queue, but no thread holds it while it waits for anything, `lookup` sleeps and
`run` and `read` block between two uses, so a thread that spins finds the lock
free again and again and gets it in the end unless the scheduler conspires.  The
client reports again and again, admits packets (some feedback acknowledges
everything) and the controller does not pace for ever: without that nothing
need ever be sent.  That the controller discards is never required.  In `TcpServer` weak fairness of the three threads and of the
join suffices; there is none for clients (`RunGoesOn`, a client that reads again,
included), for messages, for `stop()` being called or for spurious wakeups.

In `Framing` weak fairness of the writer and of the reader suffices; a connection
need not break.  In `Lifecycle` contexts are weakly fair, and strongly so at
the two steps of the spinlock's loop: the lock is free again and again, and a
context that spins reads it between two holders in the end.  A block that is told
to stop sees it if it is in its loop; nothing frees one that is stuck, and `EndsUnlessWaiting`
excepts main in the join of such a block, but not main that waits for another.  No signal need
arrive.

In `Proxy` the relaying threads are weakly fair, and so are the reader of each `TcpServer`
and the store of `client_error`; spurious wakeups and new connections are not.  Each thread waits for a message with a
timeout of 100 ms and handles the one it gets.  `ScreamClient`'s two threads are
strongly fair because of the spinlock, as in `ScreamServer`, and so is
receiving (`RunRecv`): a packet that stays in the socket is not missed by every
`recvmsg`.  The clock ticks and main starts its blocks.  Nothing is assumed of the
game, of the network or of `stop()` being called.

Deadlock is checked except in the runs of `Framing`, `Lifecycle` and `Proxy`, whose
behaviours end: all messages have been handled, main has returned, or the
process has been aborted.

## 4. Proofs

### ScreamServer

`ScreamServerProofs` proves, for every `MaxPackets`, `MaxWindow` and `MaxDiscards`:

| theorem | states |
|---|---|
| `TypeCorrect` | `Spec => []TypeOK` |
| `BuffersOwned` | `Spec => []BufferOwnership` |
| `StalePopsBounded` | `Spec => []StaleOncePerDiscard` |
| `OvershootBounded` | `Spec => []OvershootAtMostOne` |
| `CarriesMessages` | `Spec => CarrierSpec`: the block implements `Carrier` |

The only assumption is `BoundsAssumption`.  The safety properties are not
inductive.  The inductive invariant `IInv` adds who holds the lock (`LockInv`),
that `lookup` and `read` live between run's spawn and its join (`LifeInv`), that
run holds one packet between dequeue and push (`HandInv`), that the packets
on the wire, in the RTP queue, in hand and in own_queue follow each other in the order of their
arrival and none of them has been discarded (`OrderInv`), that `lookup` pops only
after a size above zero and a positive answer (`LoopInv`), that its size is good unless a
discard has not yet been answered by a stale pop (`StaleInv`), that before any stale
pop the buffer it frees is the one it sent last (`DataInv`), and that a packet
that went into a closed window leaves `can_transmit` false (`WindowInv`).

A discard takes the front of the queue away, so the numbers along the path have
gaps; `OrderInv` says only that each place lies below the next (`Parted`), and
`Cut`, `HeadAndTail` and `Pushed` are what `SubSeq`, `Tail` and an append do to that.  It makes the
buffers of the places disjoint, which `OwnershipStep` needs.  `StaleInv` is the
argument about the two critical sections: a size larger than the queue costs a discard
(a discard can make it so, a dequeue by `lookup` itself never does), and the pop that
finds nothing reads the size again.  Each part has its own step lemma; `IInvStep`
joins them.  For the refinement, `PathCases` lists what a step does to the path, and
`CarrierStep` makes it `Send`, `Arrive`, `Vanish` or a stutter; `Arrive` is in turn because
what is on the wire lies below what is queued.

### Lifecycle

`LifecycleProofs` proves, for every number of blocks and signals:

| theorem | states |
|---|---|
| `TypeCorrect` | `Spec => []TypeOK` |
| `LogIsExclusive` | `Spec => []LogExclusive` |
| `NothingLeft` | `Spec => []NoThreadLeft` |

The assumptions are `NAssumption` and `BlocksAssumption`.  `LogExclusive` needs that the lock is set
exactly when some context writes (`LockInv`).  `NoThreadLeft` needs where main is
in its list (`LifeInv`): as long as the process lives, the threads beyond `started` have not begun while main
starts blocks and have ended after that, main reaches its last lines only with
`started = 0`, and no handler runs on a thread that has ended.  `MainStep`,
`BlockStep`, `AbortStep`, `SignalStep` and `LogStep` show that each group of actions keeps all parts.

### TcpServer

`TcpServerProofs` proves, for every set of clients and every number of messages and parts:

| theorem | states |
|---|---|
| `TypeCorrect` | `Spec => []TypeOK` |
| `NoLeak` | `Spec => []DescriptorsOwned` |
| `AtomicsAgree` | `Spec => []NoErrorMeansClient` |
| `WriteOrder` | `Spec => []WritesInOrder` |
| `ForwardOrder` | `Spec => []PartsForwardedOnce` |
| `OnlyFirstPartIsMixed` | `Spec => []MixedWithFirstOnly` |
| `CarriesMessages` | `Spec => CarrierSpec`: the writing of messages implements `Carrier` |

from `BoundsAssumption` and `ClientsAssumption`.  `IInv` has five parts.  `ThreadInv` says
which thread lives when.  `FdInv` joins `DescriptorsOwned` and
`NoErrorMeansClient` with what the accepting thread's place says about its
locals (`OwnerInv`): only that thread clears `client_error` or replaces
`client_fd`, and until it has set the timeout of the new descriptor the flag is
set.  `SentInv` bounds what has been written by the message run holds and its place
in `run`; `PartInv` bounds the numbers of forwarded parts by what was consumed, and
says that a head kept in the buffer is later than all that was forwarded from its client.
Each action is one lemma or one case of a lemma on its thread (`RunStep`,
`ReadStep`, `AcceptStep`, `EnvironmentStep`); `FdKept`, `SentKept` and `PartKept` cover the
actions that leave a part alone.

*Mixed messages.*  `MessagesUntouched` is false (run `tcp_server_mixed`); `MixedWithFirstOnly`
is how far it can go wrong, and needs to know what `read` has received from whom while
`accept_client` replaces the client under it.  `HeadInv` says it: `read` has received from none but
the installed client and past ones, and a past one never returns; if it is still in `recv` for
a past client, it has received nothing from the one installed since; and a head in the buffer is the
last part received from its client, with nothing received from the client that is installed, or that
`read` is in `recv` for, if this is another.  `HeadExchange`, `HeadLoad` and `HeadReceive` are the
three steps that matter, `HeadKept` covers the others.

*Carrier.*  A message has come out when its body is written (`Written`), and is gone when `run` has
given it up (`Gone`).  `Written` is computed from all writes by recursion (`Whole`), and one more
write adds the message of a body and nothing else (`WholeStep`).  `MessageStep` lists what a step
of any thread does to the messages: nothing; one is enqueued (`Send`), given up (`Vanish`), or taken
from the queue (a stutter: it is neither written nor gone); or the body of the one in hand is
written (`Arrive`).  `MessageSteps` proves it of every action; `SentInv` gives that the message taken is the
next number, and `WrittenInv` that no later one is written, which is the guard of `Arrive`.

### Framing

`FramingProofs` proves, for every size of a byte and of the buffer, every set of bodies,
any number of messages and of stray bytes:

| theorem | states |
|---|---|
| `TypeCorrect` | `Spec => []TypeOK` |
| `ReceivesFit` | `LengthsFit`, `FramesFit`: `Spec => []InBounds` |
| `ChannelImplemented` | `LengthsFit`: `Spec => Untouched` |
| `CutsDoNotMatter` | `Spec => []ChunksDoNotMatter` |

from `BaseAssumption`, `BufferAssumption` and `BodiesAssumption`.  `LengthsFit` says that
the length of every body is below `Base`, and is needed: run `framing_long` refutes
`Untouched` with a longer one.  `FramesFit` says that a frame is at most one byte longer
than what one `recv` returns; with the code's 256 and 4096 it follows from `LengthsFit`.

For `ChannelImplemented` no induction over the stream is needed.  The invariant `PlaceInv` gives each written
message a place on the stream of all bytes received and in flight: the frames do not overlap,
the bytes of a frame that are there are those of its message, a delimiter outside of
the frames does not occur (`Laid`), and the parser is behind the frames of the
forwarded messages and not behind the beginning of another (`Parsed`).  While the
connection is there the sender is at the end of the stream (`Sending`); once it is gone,
places behind the end stand for what was lost.  `BufferInv` ties the buffer to
that stream: it is the end of what was received.  So a delimiter in front of the parser
begins the next message (`AtFrame`, `MessageHere`), although bodies may hold delimiters;
a byte that is skipped begins none (`SkipStep`); and what `ParseMessage` forwards is
the message that was written next (`NextForwarded`), which is `Get` of the channel.
What a round leaves in the buffer is then less than one frame (`RestFits`).

`CutsDoNotMatter` needs neither hypothesis: for bytes of any kind, malformed headers included, the
parser forwards what one cut of everything received, `Cut`, does.  `Cut` is a recursive
function of the place where it begins; `CutsExist` shows by induction from the end of the stream
that there is such a function (each value depends on those behind it alone, `CutAgree`), and
`SkipCut`, `MessageCut` and `StuckCut` are its three equations.  The invariant compares

more than the stream received so far: `CutInv` says that *whatever* bytes follow, cutting
everything gives the forwarded messages and then the cut from the parser's place.  Since it speaks of
every continuation, a receive keeps it without a proof about streams that grow, and a step of the parser is one use of
an equation (`CutStep`).  `StuckInv` says that after a round the parser is where it can go no further
without new bytes, and there the rest of the cut is empty (`CutAfterRound`).

`NumberInduction` supplies the induction.  The library's induction theorems take an operator, so
it proves what is needed as facts about sets of numbers (`FromTheStart`, `FromTheEnd`)
from the well-foundedness of strict inclusion on finite sets: the intervals `1..n` are finite sets.

### ScreamClient

`ScreamClientProofs` proves, for every number of packets, every `AckDiff` and every
clock with `Interval + MaxRound < ClockSize` (`ClientAssumption`):

| theorem | states |
|---|---|
| `ClientTypeCorrect` | `ClientSpec => []ClientTypeOK` |
| `NothingNew` | `ClientSpec => []NothingNewOnlyIfOvertaken` |
| `InTime` | `ClientSpec => []ReportedInTime` |

`OvertakenInv` says that `periodicRtcp`, past its first test, sees what waits or
`overtaken`.  `WaitInv` is the invariant behind `ReportedInTime`.  With
`Lead == (since - held) % ClockSize`, how far the clock reading is ahead
of the last feedback, nothing has waited longer, beyond `held`, than `Lead` and one
round; a round that passes the three tests without sending has seen nothing
waiting or a `Lead` of at most `Interval`.  A wrapped difference only makes
`Lead` larger, which sends feedback sooner; so does a feedback time that goes
back.  What the wrap costs is one more round, hence the bound of three.

### Proxy

The two modules prove, for every number of messages and requests, from
`ClientAssumption` and `RequestsAssumption` alone:

| theorem | module | states |
|---|---|---|
| `ProxyTypeCorrect` | `ProxyProofs` | `Spec => []TypeOK` |
| `FeedbackInComposition` | `ProxyProofs` | `Spec => []ReportedInTime /\ []NothingNewOnlyIfOvertaken` |
| `FlowsStayApart` | `ProxyProofs` | `Spec => []FlowsApart` |
| `WiredNeverDropped` | `ProxyProofs` | `Spec => []NeverDropped` |
| `EachInOnePlace` | `ProxyPlaceProofs` | `Spec => []OnePlace` |
| `OrderKept` | `ProxyPlaceProofs` | `Spec => []OrderPerProducer` |
| `CarriesMessages` | `ProxyPlaceProofs` | `Spec => CarrierSpec`: both programs implement `Carrier` |

*Types.*  `RelayTyped` strengthens `TypeOK` by one fact: bitrate requests are only in the queues of
TCP blocks and of `brm_converter`, so that no socket is handed one and every datagram is a
packet of the game.  That needs the wiring: which queues a block of each kind
can reach (`ForwardTyped`, `CommandsApart`), for all blocks of the tables at once.  A lemma
(`Refines`) maps each action to a step of `ScreamClient` or to a stutter: `SendTo` to its socket is
`Arrive`, `LoseDatagram` is `Lose`, `ConvertToRaw` is `Take`.  `FeedbackInComposition`
follows from it and from the theorems of `ScreamClientProofs`.

*Routes.*  `FlowsApart` is about what has come out; a step knows only where the message is
now.  `RouteInv` therefore says where the messages of a flow may be at all: in the
queues of `QueueRoutes`, on their way to the addresses of `AddressRoutes`, in the
streams of `StreamsOf`, and typed as the queue's registration says.  The tables are
not assumed: for each block on a route, the lemmas about the wiring find the one queue
its next message goes to, and it is on the route again or the flow is not
one of `Wired`.  For those that are, no block on the route forwards to nothing, discards for the
type, or sends to port 0; where no controller and no `TcpServer` lies on the
route nothing else drops, which is `NeverDropped`.  A flow that is
not has no address and no stream of an end among its routes.

*Places.*  `PlaceInv` is `OnePlace` turned inductive.  The variables that hold messages are of two kinds, lines
(the queues, the streams, `out`, `delivered`), which are sequences, and pools (`net`,
`inbound`, `lost`, `dropped`), which are sets; `Line` and `Pool` are two functions over all
of them.  `WellPlaced`: each message sent is in one of them, at one index, and nothing else is.  A
datagram carries its address beside its message, so `NetDistinct` says that two
datagrams never carry one message.  Each action *moves* a message (`Moves`: takes it from one place, puts it
into one of some others) or *enters* a new one (`Enters`), and those two keep the
invariant (`MovesKeep`, `EntersKeep`); `Break` empties two lines into a pool.
What a `TcpServer` drops, or swallows behind a stale part, moves into the pool `dropped`
(`WritesOrDrops`, `ForwardsOrDrops`).  A block that
forwards moves a message because it has one queue registered for the type (`Registrations`): with two
the message would be doubled.

*Order.*  A command goes through up to five lines, and those behind it in another line
must not be in front of it in the next.  `Stage` numbers the lines of the way from the end back to
the sender, and `Ordered` says that of two messages of a sender the one at the smaller stage, or
nearer to the head of the same line, was sent earlier.  A step takes the
head of a line to the next smaller stage, which no other line of its sender shares
(`OrderMoved`), or puts a new message behind all others (`OrderEntered`).  Requests and
commands have different ways up to the shared queue; `KindsKept` keeps them apart until
there.

*Carrier.*  `CarriesMessages` joins the three.  Each step other than a send or a break is a move: it puts its message into `delivered` (`Arrive`),
into `lost` or `dropped` (`Vanish`) or elsewhere (a stutter), and since the places it
takes from are none of those, `WellPlaced` makes the message one that was still on its way
(`MoveArrives`); `OrderPerProducer` after the step is the guard of `Arrive`.  What
this adds to the invariants is about steps: what has come out stays, in its place, and what is gone
does not come out after all, although a connection that broke may be made again.

### What is only model-checked

The liveness properties (`StopReturns`, `EveryPacketSent`,
`StopsUnlessBlocked`, `DeadClientNoticed`, `AllForwarded`,
`EndsUnlessWaiting`, `StopAborts` and the three `Every...` of `Proxy`), which are
beyond the prover.  Every other property of the runs that pass is a theorem.

## 5. What is not modelled

The components with status `not_modelled` in `PROJECT.json`; within the modelled
ones, the parsing of headers, logging, statistics, the choice of addresses and
rates in `init`, and memory exhaustion.  `ScreamServerSingle` is in no target
of `CMakeLists.txt`; `BasicRtpGenerator` is constructed by `main_server.cpp` but
never initialised, wired or started, so none of its code runs in any program.  SCReAM and
the concurrent queue are submodules whose source is not here; in particular what
the unlocked reads of `periodicRtcp` may see of a container the other thread is
changing cannot be told, and the models let each call answer for one moment.
`ScreamClientSingle::run` accepts datagrams of 8 bytes and reads header fields
behind them (lines 138-140); the values go to the controller or nowhere, and are
abstracted.

When `getTargetBitrate` reports a loss by a value that is not positive, `read` calls it a second
time and types whatever it gets `BITRATE_REQUEST` (lines 271-279; the line that would choose
`IFRAME_REQUEST` is commented out), while `README.md:22` of the repository lists an I-frame request
among SCReAM's commands.  The code says so without any interleaving, and there is no run about it.

## 6. Plan

1. *Done*: `ScreamServer` with its proofs and the refinement of `Carrier`;
   `TcpServer` with its safety, liveness and proofs; `Framing` with its proofs and the
   refinement of `FifoChannel`; `Lifecycle` with its proofs; `ScreamClient` with its
   proofs; `Proxy`, which composes both programs, with its proofs.
2. Signals that interrupt a `send` in the middle (a partial result is taken for a
   complete one), and the SIGPIPE of a connection that was reset.
3. An abstract specification of what `TcpServer` promises of a client (installed once,
   closed once), to go with the one of its messages, which is `Carrier`.

