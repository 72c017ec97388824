------------------------------ MODULE Framing ------------------------------
(***************************************************************************)
(* Messages on a TCP stream.  TcpClient and TcpServer write a message as a *)
(* delimiter, a length of two bytes and a body, and cut what they receive  *)
(* into messages again; both contain the same code, and the two proxies    *)
(* are connected by it.  One direction is modelled: run of one block, the  *)
(* connection, and read of the block at the other end.                     *)
(* Neither block is stopped, and the connection is made once.              *)
(*                                                                         *)
(* A byte has Base values; in the code Base is 256 and the buffer of read  *)
(* has room for 2 * BufferSize bytes, BufferSize being TCP_BUFFER_SIZE.    *)
(***************************************************************************)
EXTENDS Naturals, SequencesExt

CONSTANTS
  Base,         \* the number of values of a byte
  BufferSize,   \* the bytes one recv may return
  Bodies,       \* the messages put on the sender's own_queue
  MaxMessages,  \* bound on the messages written
  MaxStray      \* bound on the bytes outside of frames

ASSUME BaseAssumption == Base \in Nat /\ Base > 1
ASSUME BufferAssumption == BufferSize \in Nat \ {0} /\ MaxMessages \in Nat /\ MaxStray \in Nat

Byte == 0..(Base - 1)

ASSUME BodiesAssumption == Bodies \subseteq Seq(Byte)

VARIABLES
  tx,            \* where the sender's run is: "dequeue", "header" or "body"
  msg,           \* run's local: the message it writes
  written,       \* history: the messages run has begun to write
  stray,         \* bytes sent outside of frames so far
  stream,        \* bytes on the connection, oldest first
  broken,        \* the connection is gone
  rx,            \* where the receiver's read is: "recv" or "parse"
  buffer,        \* read's buffer up to offset
  start_offset,  \* read's local: where the parser is in it
  received,      \* history: all bytes recv has returned
  forwarded      \* the messages read has forwarded

txVars == <<tx, msg, written, stray>>
rxVars == <<rx, buffer, start_offset, received, forwarded>>
vars   == <<txVars, stream, broken, rxVars>>

Delimiter == Base - 1

HeaderSize == 3

-----------------------------------------------------------------------------
\* The sender

\* Mutant: the length counts the header.
HeaderOfFrame(n) == <<Delimiter, 0, (n + HeaderSize) % Base>>

\* The header as the code computes it: size is shifted by 64 and by 56 bits.
\* On the machines it is built for a shift by 64 does nothing, so that the
\* last byte of size comes last; the byte before it is the first of eight.
Header(n) == <<Delimiter, 0, n % Base>>

\* A message without a body is dropped.
RunDequeue(body) ==
  /\ tx = "dequeue"
  /\ Len(written) < MaxMessages
  /\ body # <<>>
  /\ tx' = "header"
  /\ msg' = body
  /\ written' = Append(written, body)
  /\ UNCHANGED <<stray, stream, broken, rxVars>>

\* A send either appends its bytes or, once the connection is gone, fails.
RunHeader ==
  /\ tx = "header"
  /\ tx' = IF broken THEN "dequeue" ELSE "body"
  /\ stream' = IF broken THEN stream ELSE stream \o Header(Len(msg))
  /\ UNCHANGED <<msg, written, stray, broken, rxVars>>

RunBody ==
  /\ tx = "body"
  /\ tx' = "dequeue"
  /\ stream' = IF broken THEN stream ELSE stream \o msg
  /\ UNCHANGED <<msg, written, stray, broken, rxVars>>

Run == RunHeader \/ RunBody \/ \E body \in Bodies : RunDequeue(body)

\* A sender that is not one of the blocks, the game server or the game, may
\* put bytes between two frames that belong to none.
SendStray ==
  /\ tx = "dequeue"
  /\ ~broken
  /\ stray < MaxStray
  /\ stray' = stray + 1
  /\ \E byte \in Byte \ {Delimiter} : stream' = Append(stream, byte)
  /\ UNCHANGED <<tx, msg, written, broken, rxVars>>

\* The connection goes away; only the first n bytes in flight still arrive.
Break(n) ==
  /\ ~broken
  /\ broken' = TRUE
  /\ stream' = SubSeq(stream, 1, n)
  /\ UNCHANGED <<txVars, rxVars>>

-----------------------------------------------------------------------------
\* The receiver

\* recv returns between 1 and BufferSize of the bytes that have arrived.
ReadRecv(n) ==
  /\ rx = "recv"
  /\ n <= BufferSize
  /\ rx' = "parse"
  /\ buffer' = buffer \o SubSeq(stream, 1, n)
  /\ received' = received \o SubSeq(stream, 1, n)
  /\ stream' = SubSeq(stream, n + 1, Len(stream))
  /\ UNCHANGED <<txVars, broken, start_offset, forwarded>>

\* There is a whole header at the parser's place.
HeaderHere == rx = "parse" /\ start_offset + HeaderSize <= Len(buffer)

AtDelimiter == buffer[start_offset + 1] = Delimiter

\* ntohs of the two bytes after the delimiter
MsgSize == buffer[start_offset + 2] * Base + buffer[start_offset + 3]

FrameEnd == start_offset + HeaderSize + MsgSize

\* Bytes in front of a delimiter are skipped.
ParseSkip ==
  /\ HeaderHere
  /\ ~AtDelimiter
  /\ start_offset' = start_offset + 1
  /\ UNCHANGED <<txVars, stream, broken, rx, buffer, received, forwarded>>

\* Mutant: the parser steps over the header only.
ParseMessageHeaderOnly ==
  /\ HeaderHere
  /\ AtDelimiter
  /\ FrameEnd <= Len(buffer)
  /\ forwarded' = Append(forwarded, SubSeq(buffer, start_offset + HeaderSize + 1, FrameEnd))
  /\ start_offset' = start_offset + HeaderSize
  /\ UNCHANGED <<txVars, stream, broken, rx, buffer, received>>

\* A complete message is forwarded.
ParseMessage ==
  /\ HeaderHere
  /\ AtDelimiter
  /\ FrameEnd <= Len(buffer)
  /\ forwarded' = Append(forwarded, SubSeq(buffer, start_offset + HeaderSize + 1, FrameEnd))
  /\ start_offset' = FrameEnd
  /\ UNCHANGED <<txVars, stream, broken, rx, buffer, received>>

\* Neither a byte to skip nor a complete message.
Stuck == HeaderHere => AtDelimiter /\ FrameEnd > Len(buffer)

\* Mutant: what has been parsed stays in front of the buffer.
ParseEndKeepsAll ==
  /\ rx = "parse"
  /\ Stuck
  /\ rx' = "recv"
  /\ buffer' = buffer
  /\ start_offset' = 0
  /\ UNCHANGED <<txVars, stream, broken, received, forwarded>>

\* Mutant: an incomplete message is thrown away.
ParseEndDropsRest ==
  /\ rx = "parse"
  /\ Stuck
  /\ rx' = "recv"
  /\ buffer' = <<>>
  /\ start_offset' = 0
  /\ UNCHANGED <<txVars, stream, broken, received, forwarded>>

\* Mutant: the parser's place outlives the round.
ParseEndKeepsPlace ==
  /\ rx = "parse"
  /\ Stuck
  /\ rx' = "recv"
  /\ buffer' = SubSeq(buffer, start_offset + 1, Len(buffer))
  /\ UNCHANGED <<txVars, stream, broken, start_offset, received, forwarded>>

\* The loop ends: memmove takes the rest to the front of the buffer, where the
\* next round's start_offset begins.
ParseEnd ==
  /\ rx = "parse"
  /\ Stuck
  /\ rx' = "recv"
  /\ buffer' = SubSeq(buffer, start_offset + 1, Len(buffer))
  /\ start_offset' = 0
  /\ UNCHANGED <<txVars, stream, broken, received, forwarded>>

Read ==
  \/ ParseSkip \/ ParseMessage \/ ParseEnd
  \/ \E n \in 1..Len(stream) : ReadRecv(n)

-----------------------------------------------------------------------------
Init ==
  /\ tx = "dequeue" /\ msg = <<>> /\ written = <<>> /\ stray = 0
  /\ stream = <<>> /\ broken = FALSE
  /\ rx = "recv" /\ buffer = <<>> /\ start_offset = 0
  /\ received = <<>> /\ forwarded = <<>>

Next == Run \/ SendStray \/ Read \/ \E n \in 0..Len(stream) : Break(n)

Spec == Init /\ [][Next]_vars

\* Both threads are scheduled, and what is on the connection arrives.
LiveSpec == Spec /\ WF_vars(RunHeader \/ RunBody) /\ WF_vars(Read)

-----------------------------------------------------------------------------
\* Properties

TypeOK ==
  /\ tx \in {"dequeue", "header", "body"}
  /\ msg \in Seq(Byte)
  /\ written \in Seq(Bodies)
  /\ stray \in 0..MaxStray
  /\ stream \in Seq(Byte)
  /\ broken \in BOOLEAN
  /\ rx \in {"recv", "parse"}
  /\ buffer \in Seq(Byte)
  /\ start_offset \in 0..Len(buffer)
  /\ received \in Seq(Byte)
  /\ forwarded \in Seq(Seq(Byte))

\* recv never writes behind the end of read's buffer, as long as a frame is
\* at most one byte longer than what one recv returns.
InBounds == rx = "recv" => Len(buffer) + BufferSize <= 2 * BufferSize

\* The messages in s and what is left of it: at[i] is the result from its
\* i-th byte on.
Cut(s) ==
  LET at[i \in 1..Len(s) + 1] ==
        IF i + HeaderSize > Len(s) + 1 THEN <<>>
        ELSE IF s[i] # Delimiter THEN at[i + 1]
        ELSE LET end == i + HeaderSize + s[i + 1] * Base + s[i + 2]
             IN IF end > Len(s) + 1 THEN <<>>
                ELSE <<SubSeq(s, i + HeaderSize, end - 1)>> \o at[end]
  IN at[1]

\* How the stream was cut into receives makes no difference: between two of
\* them read has forwarded what it would have forwarded had it got all bytes
\* at once.
ChunksDoNotMatter == rx = "recv" => forwarded = Cut(received)

\* README.md, line 17: the flows are "just transferred untouched".  The two
\* blocks and the connection are a FIFO channel of messages.
Channel == INSTANCE FifoChannel WITH
  Items <- Bodies,
  pending <- SubSeq(written, Len(forwarded) + 1, Len(written)),
  delivered <- forwarded
Untouched == Channel!Spec

\* What has been written is forwarded, unless the connection goes away.
AllForwarded ==
  \A n \in 1..MaxMessages : Len(written) >= n ~> (Len(forwarded) >= n \/ broken)
=============================================================================
