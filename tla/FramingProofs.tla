--------------------------- MODULE FramingProofs ---------------------------
(***************************************************************************)
(* Proofs about Framing, for any size of a byte and of the buffer and any  *)
(* messages whose length fits: the two blocks are a FIFO channel of        *)
(* messages, and the receive buffer is large enough, however the stream is *)
(* cut into receives and wherever the connection breaks.                   *)
(*                                                                         *)
(* Each written message has a place on the stream where its frame begins,  *)
(* and outside of the frames no byte is a delimiter; the parser is never   *)
(* inside a frame.  For any bytes at all, what the receives forward is     *)
(* what one cut of everything received gives: the second part.             *)
(***************************************************************************)
EXTENDS Framing, NumberInduction, SequenceTheorems, TLAPS

\* The length of every message fits in the one byte the code encodes it in.
LengthsFit == \A body \in Bodies : Len(body) < Base

\* A frame is at most one byte longer than what one recv returns.
FramesFit == BufferSize > 1 /\ \A body \in Bodies : Len(body) + 2 <= BufferSize

\* All bytes that are received or will be.
Bytes == received \o stream

\* The number of them that the parser has behind it.
Place == Len(received) - Len(buffer) + start_offset

Size(m) == HeaderSize + Len(m)

\* The k-th byte of the frame of m.
FrameByte(m, k) ==
  IF k = 1 THEN Delimiter ELSE IF k = 2 THEN 0 ELSE IF k = 3 THEN Len(m)
  ELSE m[k - HeaderSize]

\* The frame of w[i] begins at the at[i]-th byte of s; what is not in s yet, or
\* was lost with the connection, lies behind its end.
Laid(at, w, s) ==
  /\ at \in [1..Len(w) -> Nat \ {0}]
  /\ \A i, j \in 1..Len(w) : i < j => at[i] + Size(w[i]) <= at[j]
  /\ \A i \in 1..Len(w) : \A k \in 1..Size(w[i]) :
       at[i] + k - 1 <= Len(s) => s[at[i] + k - 1] = FrameByte(w[i], k)
  /\ \A p \in 1..Len(s) : s[p] = Delimiter =>
       \E i \in 1..Len(w) : at[i] <= p /\ p < at[i] + Size(w[i])

\* The parser is behind the first f frames and not behind the beginning of
\* another.
Parsed(at, w, f, place) ==
  \A i \in 1..Len(w) : /\ i <= f => at[i] + Size(w[i]) <= place + 1
                       /\ i > f => place + 1 <= at[i]

\* While the connection is there run has sent all of the frames before its
\* message, and of this one what it is past.
Sending(at) ==
  \/ broken
  \/ tx = "dequeue" /\ \A i \in 1..Len(written) : at[i] + Size(written[i]) <= Len(Bytes) + 1
  \/ /\ tx \in {"header", "body"}
     /\ written # <<>> /\ msg = written[Len(written)]
     /\ at[Len(written)] + (IF tx = "body" THEN HeaderSize ELSE 0) = Len(Bytes) + 1

PlaceAt(at) ==
  /\ Laid(at, written, Bytes)
  /\ Parsed(at, written, Len(forwarded), Place)
  /\ Sending(at)

PlaceInv == \E at \in [1..Len(written) -> Nat \ {0}] : PlaceAt(at)

\* The buffer is the end of what was received.
BufferInv ==
  /\ Len(buffer) <= Len(received)
  /\ \A k \in 1..Len(buffer) : buffer[k] = received[Len(received) - Len(buffer) + k]
  /\ rx = "recv" => start_offset = 0

\* What was forwarded is what was written first.
ForwardedInv ==
  /\ Len(forwarded) <= Len(written)
  /\ \A i \in 1..Len(forwarded) : forwarded[i] = written[i]

IInv == TypeOK /\ BufferInv /\ ForwardedInv /\ PlaceInv

-----------------------------------------------------------------------------
\* Where the frames lie.

\* Bytes are numbers, and so are the places and sizes of frames.
LEMMA LaidNumbers ==
  ASSUME NEW w \in Seq(Seq(Byte)), NEW at \in [1..Len(w) -> Nat \ {0}]
  PROVE  /\ Len(w) \in Nat
         /\ \A i \in 1..Len(w) : /\ w[i] \in Seq(Byte) /\ Len(w[i]) \in Nat
                                 /\ Size(w[i]) = 3 + Len(w[i]) /\ Size(w[i]) \in Nat
                                 /\ at[i] \in Nat /\ at[i] > 0
  <1>1. SUFFICES ASSUME NEW i \in 1..Len(w)
        PROVE  /\ w[i] \in Seq(Byte) /\ Len(w[i]) \in Nat
               /\ Size(w[i]) = 3 + Len(w[i]) /\ Size(w[i]) \in Nat
               /\ at[i] \in Nat /\ at[i] > 0
    BY LenProperties
  <1>2. w[i] \in Seq(Byte)
    BY ElementOfSeq
  <1>3. Len(w[i]) \in Nat
    BY <1>2, LenProperties
  <1>4. at[i] \in Nat \ {0}
    OBVIOUS
  <1>5. QED
    BY <1>2, <1>3, <1>4 DEF Size, HeaderSize

\* The k-th byte behind a place has a place.
LEMMA PlaceNumber ==
  ASSUME NEW a \in Nat, a > 0, NEW n \in Nat, NEW k \in 1..n
  PROVE  \E p \in Nat \ {0} : p = a + k - 1
  <1>1. a + k - 1 \in Nat \ {0}
    OBVIOUS
  <1>2. QED
    BY <1>1

\* Another message may be laid behind the others and the end of the stream.
LEMMA LaidNext ==
  ASSUME NEW w \in Seq(Seq(Byte)), NEW s \in Seq(Byte), NEW at, Laid(at, w, s),
         NEW m \in Seq(Byte), NEW n \in Nat \ {0}, Len(s) < n,
         \A i \in 1..Len(w) : at[i] + Size(w[i]) <= n
  PROVE  LET next == [i \in 1..Len(w) + 1 |-> IF i = Len(w) + 1 THEN n ELSE at[i]]
         IN  Laid(next, Append(w, m), s)
  <1> DEFINE next == [i \in 1..Len(w) + 1 |-> IF i = Len(w) + 1 THEN n ELSE at[i]]
             v == Append(w, m)
  <1>1. /\ at \in [1..Len(w) -> Nat \ {0}] /\ Len(s) \in Nat /\ Len(w) \in Nat
        /\ \A i \in 1..Len(w) : Size(w[i]) \in Nat /\ at[i] \in Nat /\ at[i] > 0
    <2>1. at \in [1..Len(w) -> Nat \ {0}]
      BY DEF Laid
    <2>2. Len(s) \in Nat
      OBVIOUS
    <2>3. QED
      BY <2>1, <2>2, LaidNumbers
  <1>2. /\ Len(v) = Len(w) + 1 /\ v[Len(w) + 1] = m
        /\ \A i \in 1..Len(w) : v[i] = w[i]
    BY <1>1
  <1>3. /\ \A i \in 1..Len(w) : next[i] = at[i]
        /\ next[Len(w) + 1] = n
        /\ next \in [1..Len(v) -> Nat \ {0}]
    BY <1>1, <1>2
  <1> HIDE DEF next, v
  <1>4. \A i, j \in 1..Len(v) : i < j => next[i] + Size(v[i]) <= next[j]
    <2>1. SUFFICES ASSUME NEW i \in 1..Len(v), NEW j \in 1..Len(v), i < j
                   PROVE  next[i] + Size(v[i]) <= next[j]
      OBVIOUS
    <2>2. i \in 1..Len(w) /\ v[i] = w[i] /\ next[i] = at[i]
      BY <1>1, <1>2, <1>3, <2>1
    <2>3. CASE j = Len(w) + 1
      BY <1>3, <2>2, <2>3
    <2>4. CASE j # Len(w) + 1
      <3>1. j \in 1..Len(w)
        BY <1>1, <1>2, <2>4
      <3>2. QED
        BY <1>3, <2>1, <2>2, <3>1 DEF Laid
    <2>5. QED
      BY <2>3, <2>4
  <1>5. \A i \in 1..Len(v) : \A k \in 1..Size(v[i]) :
          next[i] + k - 1 <= Len(s) => s[next[i] + k - 1] = FrameByte(v[i], k)
    <2>1. SUFFICES ASSUME NEW i \in 1..Len(v), NEW k \in 1..Size(v[i]),
                          next[i] + k - 1 <= Len(s)
                   PROVE  s[next[i] + k - 1] = FrameByte(v[i], k)
      OBVIOUS
    <2>2. k \in Int /\ k >= 1
      OBVIOUS
    <2>3. i # Len(w) + 1
      BY <1>1, <1>3, <2>1, <2>2
    <2>4. i \in 1..Len(w)
      BY <1>1, <1>2, <2>3
    <2>5. QED
      BY <1>2, <1>3, <2>1, <2>4 DEF Laid
  <1>6. \A p \in 1..Len(s) : s[p] = Delimiter =>
          \E i \in 1..Len(v) : next[i] <= p /\ p < next[i] + Size(v[i])
    <2>1. SUFFICES ASSUME NEW p \in 1..Len(s), s[p] = Delimiter
                   PROVE  \E i \in 1..Len(v) : next[i] <= p /\ p < next[i] + Size(v[i])
      OBVIOUS
    <2>2. PICK i \in 1..Len(w) : at[i] <= p /\ p < at[i] + Size(w[i])
      BY <2>1 DEF Laid
    <2>3. i \in 1..Len(v)
      BY <1>1, <1>2
    <2>4. QED
      BY <1>2, <1>3, <2>2, <2>3
  <1>7. QED
    BY <1>3, <1>4, <1>5, <1>6 DEF Laid, next, v

\* Bytes are added to the stream: those of the frames that end behind it.
LEMMA LaidMore ==
  ASSUME NEW w \in Seq(Seq(Byte)), NEW s \in Seq(Byte), NEW t \in Seq(Byte),
         NEW at, Laid(at, w, s),
         \A i \in 1..Len(w) : \A k \in 1..Size(w[i]) : \A q \in 1..Len(t) :
           at[i] + k - 1 = Len(s) + q => t[q] = FrameByte(w[i], k),
         \A q \in 1..Len(t) : t[q] = Delimiter =>
           \E i \in 1..Len(w) : at[i] <= Len(s) + q /\ Len(s) + q < at[i] + Size(w[i])
  PROVE  Laid(at, w, s \o t)
  <1> DEFINE u == s \o t
  <1>1. /\ Len(s) \in Nat /\ Len(t) \in Nat /\ Len(u) = Len(s) + Len(t)
        /\ \A p \in 1..Len(s) + Len(t) :
             u[p] = IF p <= Len(s) THEN s[p] ELSE t[p - Len(s)]
    BY ConcatProperties
  <1>2. at \in [1..Len(w) -> Nat \ {0}]
    BY DEF Laid
  <1> HIDE DEF u
  <1>3. \A i \in 1..Len(w) : \A k \in 1..Size(w[i]) :
          at[i] + k - 1 <= Len(u) => u[at[i] + k - 1] = FrameByte(w[i], k)
    <2>1. SUFFICES ASSUME NEW i \in 1..Len(w), NEW k \in 1..Size(w[i]),
                          at[i] + k - 1 <= Len(u)
                   PROVE  u[at[i] + k - 1] = FrameByte(w[i], k)
      OBVIOUS
    <2>2. PICK p \in Nat \ {0} : p = at[i] + k - 1
      BY <1>2, LaidNumbers, PlaceNumber
    <2>3. CASE p <= Len(s)
      <3>1. u[p] = s[p]
        BY <1>1, <2>3
      <3>2. s[p] = FrameByte(w[i], k)
        BY <2>2, <2>3 DEF Laid
      <3>3. QED
        BY <2>2, <3>1, <3>2
    <2>4. CASE ~(p <= Len(s))
      <3>1. PICK q \in 1..Len(t) : p = Len(s) + q
        <4>1. p - Len(s) \in 1..Len(t) /\ p = Len(s) + (p - Len(s))
          BY <1>1, <2>1, <2>2, <2>4
        <4>2. QED
          BY <4>1
      <3>2. u[p] = t[q]
        <4>1. p \in 1..Len(s) + Len(t) /\ q = p - Len(s)
          BY <1>1, <3>1
        <4>2. QED
          BY <1>1, <2>4, <4>1
      <3>3. t[q] = FrameByte(w[i], k)
        <4>1. at[i] + k - 1 = Len(s) + q
          BY <2>2, <3>1
        <4>2. QED
          BY <4>1
      <3>4. QED
        BY <2>2, <3>2, <3>3
    <2>5. QED
      BY <2>3, <2>4
  <1>4. \A p \in 1..Len(u) : u[p] = Delimiter =>
          \E i \in 1..Len(w) : at[i] <= p /\ p < at[i] + Size(w[i])
    <2>1. SUFFICES ASSUME NEW p \in 1..Len(u), u[p] = Delimiter
                   PROVE  \E i \in 1..Len(w) : at[i] <= p /\ p < at[i] + Size(w[i])
      OBVIOUS
    <2>2. CASE p <= Len(s)
      <3>1. p \in 1..Len(s) /\ s[p] = Delimiter
        BY <1>1, <2>1, <2>2
      <3>2. QED
        BY <3>1 DEF Laid
    <2>3. CASE ~(p <= Len(s))
      <3>1. PICK q \in 1..Len(t) : p = Len(s) + q
        <4>1. p - Len(s) \in 1..Len(t) /\ p = Len(s) + (p - Len(s))
          BY <1>1, <2>3
        <4>2. QED
          BY <4>1
      <3>2. t[q] = Delimiter
        <4>1. q = p - Len(s)
          BY <1>1, <3>1
        <4>2. QED
          BY <1>1, <2>1, <2>3, <4>1
      <3>3. QED
        BY <3>1, <3>2
    <2>4. QED
      BY <2>2, <2>3
  <1>5. QED
    BY <1>2, <1>3, <1>4 DEF Laid, u

\* Bytes are taken from the end of the stream.
LEMMA LaidLess ==
  ASSUME NEW w \in Seq(Seq(Byte)), NEW s \in Seq(Byte), NEW t \in Seq(Byte),
         NEW at, Laid(at, w, s), Len(t) <= Len(s), \A p \in 1..Len(t) : t[p] = s[p]
  PROVE  Laid(at, w, t)
  <1>1. Len(s) \in Nat /\ Len(t) \in Nat /\ at \in [1..Len(w) -> Nat \ {0}]
    BY DEF Laid
  <1>2. \A i \in 1..Len(w) : \A k \in 1..Size(w[i]) :
          at[i] + k - 1 <= Len(t) => t[at[i] + k - 1] = FrameByte(w[i], k)
    <2>1. SUFFICES ASSUME NEW i \in 1..Len(w), NEW k \in 1..Size(w[i]),
                          at[i] + k - 1 <= Len(t)
                   PROVE  t[at[i] + k - 1] = FrameByte(w[i], k)
      OBVIOUS
    <2>2. PICK p \in Nat \ {0} : p = at[i] + k - 1
      BY <1>1, LaidNumbers, PlaceNumber
    <2>3. p <= Len(s) /\ p \in 1..Len(t)
      BY <1>1, <2>1, <2>2
    <2>4. s[p] = FrameByte(w[i], k)
      BY <2>2, <2>3 DEF Laid
    <2>5. QED
      BY <2>2, <2>3, <2>4
  <1>3. \A p \in 1..Len(t) : t[p] = Delimiter =>
          \E i \in 1..Len(w) : at[i] <= p /\ p < at[i] + Size(w[i])
    <2>1. \A p \in 1..Len(t) : p \in 1..Len(s) /\ t[p] = s[p]
      BY <1>1
    <2>2. QED
      BY <2>1 DEF Laid
  <1>4. QED
    BY <1>2, <1>3 DEF Laid

\* A delimiter where the parser is begins the frame of the next message.
LEMMA AtFrame ==
  ASSUME NEW w \in Seq(Seq(Byte)), NEW s \in Seq(Byte), NEW at, Laid(at, w, s),
         NEW f \in 0..Len(w), NEW place \in Nat, Parsed(at, w, f, place),
         place + 1 <= Len(s), s[place + 1] = Delimiter
  PROVE  f < Len(w) /\ at[f + 1] = place + 1
  <1>1. /\ at \in [1..Len(w) -> Nat \ {0}] /\ Len(s) \in Nat
        /\ Len(w) \in Nat /\ \A i \in 1..Len(w) : at[i] \in Nat /\ Size(w[i]) \in Nat
    BY LaidNumbers DEF Laid
  <1>2. place + 1 \in 1..Len(s)
    BY <1>1
  <1>3. PICK i \in 1..Len(w) : at[i] <= place + 1 /\ place + 1 < at[i] + Size(w[i])
    BY <1>2 DEF Laid
  <1>4. i > f /\ at[i] = place + 1
    BY <1>1, <1>3 DEF Parsed
  <1>5. f + 1 \in 1..Len(w) /\ f < Len(w)
    BY <1>1, <1>4
  <1>6. place + 1 <= at[f + 1]
    BY <1>5 DEF Parsed
  <1>7. i = f + 1
    <2>1. SUFFICES ASSUME i # f + 1 PROVE FALSE
      OBVIOUS
    <2>2. f + 1 < i
      BY <1>4, <2>1
    <2>3. at[f + 1] + Size(w[f + 1]) <= at[i]
      BY <1>5, <2>2 DEF Laid
    <2>4. Size(w[f + 1]) >= 3
      <3>1. Len(w[f + 1]) \in Nat /\ Size(w[f + 1]) = 3 + Len(w[f + 1])
        BY <1>1, <1>5, LaidNumbers
      <3>2. QED
        BY <3>1
    <2>5. QED
      BY <1>1, <1>4, <1>5, <1>6, <2>3, <2>4
  <1>8. QED
    BY <1>4, <1>5, <1>7

\* Behind that frame the parser is at the next one, or before it.
LEMMA AfterFrame ==
  ASSUME NEW w \in Seq(Seq(Byte)), NEW s \in Seq(Byte), NEW at, Laid(at, w, s),
         NEW f \in 0..Len(w), NEW place \in Nat, Parsed(at, w, f, place),
         f < Len(w), at[f + 1] = place + 1
  PROVE  Parsed(at, w, f + 1, place + Size(w[f + 1]))
  <1>1. /\ Len(w) \in Nat /\ \A i \in 1..Len(w) : at[i] \in Nat /\ Size(w[i]) \in Nat
        /\ f + 1 \in 1..Len(w)
    BY LaidNumbers DEF Laid
  <1>2. SUFFICES ASSUME NEW i \in 1..Len(w)
        PROVE /\ i <= f + 1 => at[i] + Size(w[i]) <= place + Size(w[f + 1]) + 1
              /\ i > f + 1 => place + Size(w[f + 1]) + 1 <= at[i]
    BY DEF Parsed
  <1>3. CASE i <= f
    <2>1. at[i] + Size(w[i]) <= place + 1
      BY <1>3 DEF Parsed
    <2>2. at[i] + Size(w[i]) <= place + Size(w[f + 1]) + 1
      <3>1. \A a, b, n \in Nat : a + b <= place + 1 => a + b <= place + n + 1
        OBVIOUS
      <3>2. at[i] \in Nat /\ Size(w[i]) \in Nat /\ Size(w[f + 1]) \in Nat
        BY <1>1
      <3>3. QED
        BY <2>1, <3>1, <3>2
    <2>3. ~(i > f + 1)
      BY <1>1, <1>3
    <2>4. QED
      BY <2>2, <2>3
  <1>4. CASE i = f + 1
    BY <1>1, <1>4
  <1>5. CASE i > f + 1
    <2>1. at[f + 1] + Size(w[f + 1]) <= at[i]
      BY <1>1, <1>5 DEF Laid
    <2>2. QED
      BY <1>1, <1>5, <2>1
  <1>6. QED
    BY <1>3, <1>4, <1>5

-----------------------------------------------------------------------------
\* The types.

\* Delimiter and what Header writes are bytes; a length below Base is kept.
LEMMA ByteFacts ==
  /\ Base \in Nat /\ Byte \subseteq Nat /\ Delimiter \in Byte /\ 0 \in Byte
  /\ \A n \in Nat : n % Base \in Byte /\ (n < Base => n % Base = n)
  /\ \A n \in Nat : Header(n) \in Seq(Byte)
  <1>1. /\ Base \in Nat /\ Base > 1
        /\ \A n \in Nat : n % Base \in 0..Base - 1 /\ (n < Base => n % Base = n)
    BY BaseAssumption
  <1>2. Base \in Nat /\ Byte \subseteq Nat /\ Delimiter \in Byte /\ 0 \in Byte
    BY <1>1 DEF Byte, Delimiter
  <1>3. \A n \in Nat : n % Base \in Byte
    BY <1>1 DEF Byte
  <1>4. \A n \in Nat : Header(n) \in Seq(Byte)
    BY <1>2, <1>3 DEF Header
  <1>5. QED
    BY <1>1, <1>2, <1>3, <1>4

\* A body is a sequence of bytes.
LEMMA BodyFacts == \A body \in Bodies : body \in Seq(Byte) /\ Len(body) \in Nat
  BY BodiesAssumption, LenProperties

\* A part of a sequence of bytes.
LEMMA PartTyped ==
  ASSUME NEW s \in Seq(Byte), NEW m \in Nat \ {0}, NEW n \in Nat, n <= Len(s)
  PROVE  /\ SubSeq(s, m, n) \in Seq(Byte)
         /\ Len(SubSeq(s, m, n)) = IF m <= n THEN n - m + 1 ELSE 0
         /\ \A i \in 1..n - m + 1 : SubSeq(s, m, n)[i] = s[m + i - 1]
  <1>1. \A i \in m..n : s[i] \in Byte
    BY ElementOfSeq
  <1>2. QED
    BY <1>1, SubSeqProperties

\* The parser's numbers, where there is a whole header.
LEMMA HeaderNumbers ==
  ASSUME TypeOK, HeaderHere
  PROVE  /\ start_offset \in Nat /\ start_offset + 3 <= Len(buffer) /\ Len(buffer) \in Nat
         /\ MsgSize \in Nat /\ FrameEnd = start_offset + 3 + MsgSize /\ FrameEnd \in Nat
  <1>1. /\ start_offset \in Nat /\ start_offset + 3 <= Len(buffer) /\ Len(buffer) \in Nat
        /\ buffer \in Seq(Byte)
    BY LenProperties DEF TypeOK, HeaderHere, HeaderSize
  <1>2. buffer[start_offset + 2] \in Nat /\ buffer[start_offset + 3] \in Nat
    <2>1. start_offset + 2 \in 1..Len(buffer) /\ start_offset + 3 \in 1..Len(buffer)
      BY <1>1
    <2>2. QED
      BY <1>1, <2>1, ElementOfSeq, ByteFacts
  <1>3. MsgSize \in Nat
    <2>1. \A a, b, c \in Nat : a * b + c \in Nat
      OBVIOUS
    <2>2. QED
      BY <1>2, <2>1, ByteFacts DEF MsgSize
  <1>4. QED
    BY <1>1, <1>3 DEF FrameEnd, HeaderSize

\* One step per action.
LEMMA TypeStep == ASSUME TypeOK, [Next]_vars PROVE TypeOK'
  <1>1. CASE UNCHANGED vars
    BY <1>1 DEF TypeOK, vars, txVars, rxVars
  <1>2. ASSUME NEW body \in Bodies, RunDequeue(body) PROVE TypeOK'
    BY <1>2, BodyFacts DEF TypeOK, RunDequeue, rxVars
  <1>3. CASE RunHeader
    <2>1. stream' \in Seq(Byte)
      BY <1>3, ByteFacts, LenProperties, ConcatProperties DEF TypeOK, RunHeader
    <2>2. QED
      BY <1>3, <2>1 DEF TypeOK, RunHeader, rxVars
  <1>4. CASE RunBody
    <2>1. stream' \in Seq(Byte)
      BY <1>4, ConcatProperties DEF TypeOK, RunBody
    <2>2. QED
      BY <1>4, <2>1 DEF TypeOK, RunBody, rxVars
  <1>5. CASE SendStray
    BY <1>5, BufferAssumption DEF TypeOK, SendStray, rxVars
  <1>6. ASSUME NEW n \in 0..Len(stream), Break(n) PROVE TypeOK'
    <2>1. n \in Nat /\ n <= Len(stream)
      BY LenProperties DEF TypeOK
    <2>2. stream' \in Seq(Byte)
      BY <1>6, <2>1, PartTyped DEF TypeOK, Break
    <2>3. QED
      BY <1>6, <2>2 DEF TypeOK, Break, txVars, rxVars
  <1>7. ASSUME NEW n \in 1..Len(stream), ReadRecv(n) PROVE TypeOK'
    <2>1. /\ n \in Nat /\ n <= Len(stream) /\ n + 1 \in Nat \ {0}
          /\ Len(stream) \in Nat /\ stream \in Seq(Byte)
      BY LenProperties DEF TypeOK
    <2>2. SubSeq(stream, 1, n) \in Seq(Byte) /\ stream' \in Seq(Byte)
      BY <1>7, <2>1, PartTyped DEF ReadRecv
    <2>3. /\ buffer' \in Seq(Byte) /\ received' \in Seq(Byte)
          /\ Len(buffer') = Len(buffer) + Len(SubSeq(stream, 1, n))
      BY <1>7, <2>2, ConcatProperties DEF ReadRecv, TypeOK
    <2>4. start_offset' \in 0..Len(buffer')
      <3>1. Len(SubSeq(stream, 1, n)) \in Nat /\ Len(buffer) \in Nat
        BY <2>2, LenProperties DEF TypeOK
      <3>2. QED
        BY <1>7, <2>3, <3>1 DEF ReadRecv, TypeOK
    <2>5. QED
      BY <1>7, <2>2, <2>3, <2>4 DEF TypeOK, ReadRecv, txVars
  <1>8. CASE ParseSkip
    <2>1. start_offset' \in 0..Len(buffer')
      BY <1>8, HeaderNumbers DEF ParseSkip, TypeOK
    <2>2. QED
      BY <1>8, <2>1 DEF TypeOK, ParseSkip, txVars
  <1>9. CASE ParseMessage
    <2>1. /\ start_offset + 3 + 1 \in Nat \ {0} /\ FrameEnd \in Nat
          /\ FrameEnd <= Len(buffer) /\ start_offset' = FrameEnd
      BY <1>9, HeaderNumbers DEF ParseMessage
    <2>2. start_offset' \in 0..Len(buffer')
      BY <1>9, <2>1 DEF ParseMessage, TypeOK
    <2>3. SubSeq(buffer, start_offset + HeaderSize + 1, FrameEnd) \in Seq(Byte)
      BY <2>1, PartTyped DEF TypeOK, HeaderSize
    <2>4. forwarded' \in Seq(Seq(Byte))
      BY <1>9, <2>3, AppendProperties DEF ParseMessage, TypeOK
    <2>5. QED
      BY <1>9, <2>2, <2>4 DEF TypeOK, ParseMessage, txVars
  <1>10. CASE ParseEnd
    <2>1. start_offset + 1 \in Nat \ {0} /\ Len(buffer) \in Nat /\ buffer \in Seq(Byte)
      BY LenProperties DEF TypeOK
    <2>2. buffer' \in Seq(Byte)
      BY <1>10, <2>1, PartTyped DEF ParseEnd
    <2>3. start_offset' \in 0..Len(buffer')
      BY <1>10, <2>2, LenProperties DEF ParseEnd
    <2>4. QED
      BY <1>10, <2>2, <2>3 DEF TypeOK, ParseEnd, txVars
  <1>11. QED
    BY <1>1, <1>2, <1>3, <1>4, <1>5, <1>6, <1>7, <1>8, <1>9, <1>10 DEF Next, Run, Read

\* Nothing has been sent.
LEMMA TypeInit == Init => TypeOK
  <1>1. \A S : <<>> \in Seq(S) /\ Len(<<>>) = 0
    BY EmptySeq
  <1>2. 0 \in 0..Len(<<>>) /\ 0 \in 0..MaxStray
    BY BufferAssumption
  <1>3. QED
    BY <1>1, <1>2 DEF Init, TypeOK

\* Every variable keeps its type, and the parser never leaves the buffer's
\* contents.
THEOREM TypeCorrect == Spec => []TypeOK
  <1>1. TypeOK /\ [Next]_vars => TypeOK'
    BY TypeStep
  <1>2. QED
    BY <1>1, TypeInit, PTL DEF Spec

-----------------------------------------------------------------------------
\* The parser and the frames.

\* What the invariant says of numbers and sequences.
LEMMA Numbers ==
  ASSUME TypeOK, BufferInv
  PROVE  /\ received \in Seq(Byte) /\ stream \in Seq(Byte) /\ buffer \in Seq(Byte)
         /\ Len(received) \in Nat /\ Len(stream) \in Nat /\ Len(buffer) \in Nat
         /\ Bytes \in Seq(Byte) /\ Len(Bytes) \in Nat
         /\ Len(Bytes) = Len(received) + Len(stream)
         /\ written \in Seq(Seq(Byte)) /\ Len(written) \in Nat /\ Len(forwarded) \in Nat
         /\ start_offset \in Nat /\ start_offset <= Len(buffer)
         /\ Place \in Nat /\ Place <= Len(Bytes)
  <1>1. /\ received \in Seq(Byte) /\ stream \in Seq(Byte) /\ buffer \in Seq(Byte)
        /\ Len(received) \in Nat /\ Len(stream) \in Nat /\ Len(buffer) \in Nat
        /\ Len(written) \in Nat /\ Len(forwarded) \in Nat
    BY LenProperties DEF TypeOK
  <1>2. Bytes \in Seq(Byte) /\ Len(Bytes) = Len(received) + Len(stream)
    BY <1>1, ConcatProperties DEF Bytes
  <1>3. written \in Seq(Seq(Byte))
    BY BodiesAssumption, SeqMonotonic DEF TypeOK
  <1>4. start_offset \in Nat /\ start_offset <= Len(buffer)
    BY <1>1 DEF TypeOK
  <1>5. Place \in Nat /\ Place <= Len(Bytes)
    <2>1. Len(buffer) <= Len(received)
      BY DEF BufferInv
    <2>2. QED
      BY <1>1, <1>2, <1>4, <2>1 DEF Place
  <1>6. Len(Bytes) \in Nat
    BY <1>1, <1>2
  <1>7. QED
    BY <1>1, <1>2, <1>3, <1>4, <1>5, <1>6

\* The parser looks at the byte it thinks it does, whatever follows.
LEMMA ReceivedByte ==
  ASSUME TypeOK, BufferInv, NEW t \in Seq(Byte), NEW j \in Nat \ {0},
         start_offset + j <= Len(buffer)
  PROVE  Place + j <= Len(received) /\ (received \o t)[Place + j] = buffer[start_offset + j]
  <1>1. /\ Len(buffer) <= Len(received)
        /\ \A k \in 1..Len(buffer) : buffer[k] = received[Len(received) - Len(buffer) + k]
    BY DEF BufferInv
  <1>2. PICK k \in 1..Len(buffer) : k = start_offset + j
    <2>1. start_offset + j \in 1..Len(buffer)
      BY Numbers
    <2>2. QED
      BY <2>1
  <1>3. PICK p \in 1..Len(received) : p = Len(received) - Len(buffer) + k
    <2>1. Len(received) - Len(buffer) + k \in 1..Len(received)
      BY <1>1, Numbers
    <2>2. QED
      BY <2>1
  <1>4. p = Place + j
    BY <1>2, <1>3, Numbers DEF Place
  <1>5. (received \o t)[p] = received[p]
    <2>1. p \in 1..Len(received) + Len(t) /\ p <= Len(received)
      BY Numbers, LenProperties
    <2>2. QED
      BY <2>1, Numbers, ConcatProperties
  <1>6. buffer[k] = received[p]
    BY <1>1, <1>3
  <1>7. QED
    BY <1>2, <1>3, <1>4, <1>5, <1>6

\* In particular when what follows is on the connection.
LEMMA ByteAt ==
  ASSUME TypeOK, BufferInv, NEW j \in Nat \ {0}, start_offset + j <= Len(buffer)
  PROVE  Place + j <= Len(Bytes) /\ Bytes[Place + j] = buffer[start_offset + j]
  <1>1. /\ Place + j <= Len(received)
        /\ (received \o stream)[Place + j] = buffer[start_offset + j]
    BY Numbers, ReceivedByte
  <1>2. Place + j <= Len(Bytes)
    BY <1>1, Numbers
  <1>3. QED
    BY <1>1, <1>2 DEF Bytes

\* A delimiter in front of the parser begins the next written message, and the
\* parser reads its length and finds its bytes.
LEMMA MessageHere ==
  ASSUME TypeOK, BufferInv, ForwardedInv, LengthsFit, HeaderHere, AtDelimiter,
         NEW at, PlaceAt(at)
  PROVE  /\ Len(forwarded) < Len(written)
         /\ at[Len(forwarded) + 1] = Place + 1
         /\ written[Len(forwarded) + 1] \in Bodies
         /\ MsgSize = Len(written[Len(forwarded) + 1])
         /\ \A k \in 1..MsgSize : start_offset + 3 + k <= Len(buffer) =>
              buffer[start_offset + 3 + k] = written[Len(forwarded) + 1][k]
  <1> DEFINE f == Len(forwarded)
             m == written[f + 1]
  <1>1. /\ Laid(at, written, Bytes) /\ Parsed(at, written, f, Place)
        /\ f \in 0..Len(written)
    BY Numbers DEF PlaceAt, ForwardedInv
  <1>2. start_offset + 3 <= Len(buffer)
    BY HeaderNumbers
  <1>3. Place + 1 <= Len(Bytes) /\ Bytes[Place + 1] = Delimiter
    <2>1. start_offset + 1 <= Len(buffer)
      BY <1>2, Numbers
    <2>2. QED
      BY <2>1, ByteAt DEF AtDelimiter
  <1>4. f < Len(written) /\ at[f + 1] = Place + 1
    BY <1>1, <1>3, Numbers, AtFrame
  <1>5. f + 1 \in 1..Len(written) /\ m \in Bodies /\ m \in Seq(Byte) /\ Len(m) \in Nat
        /\ Size(m) = 3 + Len(m)
    <2>1. f + 1 \in 1..Len(written)
      BY <1>1, <1>4, Numbers
    <2>2. m \in Bodies
      BY <2>1, ElementOfSeq DEF TypeOK
    <2>3. QED
      BY <2>1, <2>2, BodyFacts DEF Size, HeaderSize
  <1>6. ASSUME NEW k \in 1..Size(m), start_offset + k <= Len(buffer)
        PROVE  buffer[start_offset + k] = FrameByte(m, k)
    <2>1. k \in Nat \ {0}
      BY <1>5
    <2>2. Place + k <= Len(Bytes) /\ Bytes[Place + k] = buffer[start_offset + k]
      BY <1>6, <2>1, ByteAt
    <2>3. at[f + 1] + k - 1 = Place + k
      BY <1>4, <2>1, Numbers
    <2>4. Bytes[Place + k] = FrameByte(m, k)
      BY <1>1, <1>5, <2>2, <2>3 DEF Laid
    <2>5. QED
      BY <2>2, <2>4
  <1>7. buffer[start_offset + 2] = 0 /\ buffer[start_offset + 3] = Len(m)
    <2>1. /\ 2 \in 1..Size(m) /\ 3 \in 1..Size(m)
          /\ start_offset + 2 <= Len(buffer) /\ start_offset + 3 <= Len(buffer)
      <3>1. \A n \in Nat : 2 \in 1..3 + n /\ 3 \in 1..3 + n
        OBVIOUS
      <3>2. 2 \in 1..Size(m) /\ 3 \in 1..Size(m)
        BY <1>5, <3>1
      <3>3. QED
        BY <1>2, <3>2, Numbers
    <2>2. FrameByte(m, 2) = 0 /\ FrameByte(m, 3) = Len(m)
      BY DEF FrameByte
    <2>3. QED
      BY <1>6, <2>1, <2>2
  <1>8. MsgSize = Len(m)
    <2>1. \A b, n \in Nat : 0 * b + n = n
      OBVIOUS
    <2>2. MsgSize = 0 * Base + Len(m)
      BY <1>7 DEF MsgSize
    <2>3. QED
      BY <1>5, <2>1, <2>2, ByteFacts
  <1>9. ASSUME NEW k \in 1..MsgSize, start_offset + 3 + k <= Len(buffer)
        PROVE  buffer[start_offset + 3 + k] = m[k]
    <2>1. PICK n \in 1..Size(m) : n = 3 + k
      <3>1. 3 + k \in 1..Size(m)
        BY <1>5, <1>8
      <3>2. QED
        BY <3>1
    <2>2. start_offset + n = start_offset + 3 + k
      BY <2>1, Numbers
    <2>3. buffer[start_offset + n] = FrameByte(m, n)
      BY <1>6, <1>9, <2>2
    <2>4. FrameByte(m, n) = m[k]
      <3>1. n # 1 /\ n # 2 /\ n # 3 /\ n - HeaderSize = k
        BY <1>8, <1>5, <2>1 DEF HeaderSize
      <3>2. QED
        BY <3>1 DEF FrameByte
    <2>5. QED
      BY <2>2, <2>3, <2>4
  <1>10. QED
    BY <1>4, <1>5, <1>8, <1>9

-----------------------------------------------------------------------------
\* The receive buffer.

\* The bytes recv takes off the stream.
LEMMA Taken ==
  ASSUME TypeOK, BufferInv, NEW n \in 1..Len(stream), ReadRecv(n)
  PROVE  LET x == SubSeq(stream, 1, n)
         IN  /\ n \in Nat /\ n <= Len(stream) /\ x \in Seq(Byte) /\ Len(x) = n
             /\ buffer' = buffer \o x /\ received' = received \o x
             /\ Len(buffer') = Len(buffer) + n /\ Len(received') = Len(received) + n
             /\ Bytes' = Bytes
  <1> DEFINE x == SubSeq(stream, 1, n)
             y == SubSeq(stream, n + 1, Len(stream))
  <1>1. n \in Nat /\ n <= Len(stream) /\ n > 0 /\ n + 1 \in Nat \ {0}
    BY Numbers
  <1>2. x \in Seq(Byte) /\ Len(x) = n /\ y \in Seq(Byte)
    <2>1. x \in Seq(Byte) /\ Len(x) = IF 1 <= n THEN n - 1 + 1 ELSE 0
      BY <1>1, Numbers, PartTyped
    <2>2. y \in Seq(Byte)
      BY <1>1, Numbers, PartTyped
    <2>3. QED
      BY <1>1, <2>1, <2>2
  <1>3. buffer' = buffer \o x /\ received' = received \o x /\ stream' = y
    BY DEF ReadRecv
  <1>4. Len(buffer') = Len(buffer) + n /\ Len(received') = Len(received) + n
    BY <1>2, <1>3, Numbers, ConcatProperties
  <1>5. x \o y = stream
    <2>1. /\ 1 \in 1..Len(stream) + 1 /\ n \in 1 - 1..Len(stream)
          /\ Len(stream) \in n..Len(stream)
      BY <1>1, Numbers
    <2>2. x \o y = SubSeq(stream, 1, Len(stream))
      BY <2>1, Numbers, ConcatAdjacentSubSeq
    <2>3. QED
      BY <2>2, Numbers, SubSeqFull
  <1>6. Bytes' = (received \o x) \o y
    BY <1>3 DEF Bytes
  <1>7. @ = received \o (x \o y)
    <2>1. received \in Seq(Byte)
      BY Numbers
    <2> HIDE DEF x, y
    <2>2. QED
      BY <1>2, <2>1, ConcatAssociative
  <1>8. Bytes' = Bytes
    BY <1>5, <1>6, <1>7 DEF Bytes
  <1>9. QED
    BY <1>1, <1>2, <1>3, <1>4, <1>8

\* What is left of the buffer after a round.
LEMMA Rest ==
  ASSUME TypeOK, BufferInv, ParseEnd
  PROVE  /\ Len(buffer') = Len(buffer) - start_offset /\ start_offset' = 0
         /\ \A k \in 1..Len(buffer') : buffer'[k] = buffer[start_offset + k]
  <1>1. PICK m \in Nat \ {0} : m = start_offset + 1
    <2>1. start_offset + 1 \in Nat \ {0}
      BY Numbers
    <2>2. QED
      BY <2>1
  <1>2. /\ buffer' = SubSeq(buffer, m, Len(buffer)) /\ start_offset' = 0
    BY <1>1 DEF ParseEnd
  <1>3. /\ Len(buffer') = IF m <= Len(buffer) THEN Len(buffer) - m + 1 ELSE 0
        /\ \A k \in 1..Len(buffer) - m + 1 : buffer'[k] = buffer[m + k - 1]
    <2>1. buffer \in Seq(Byte) /\ Len(buffer) \in Nat /\ Len(buffer) <= Len(buffer)
      BY Numbers
    <2>2. QED
      BY <1>2, <2>1, PartTyped
  <1>4. Len(buffer') = Len(buffer) - start_offset
    <2>1. /\ start_offset \in Nat /\ Len(buffer) \in Nat /\ start_offset <= Len(buffer)
      BY Numbers
    <2>2. CASE m <= Len(buffer)
      BY <1>1, <1>3, <2>1, <2>2
    <2>3. CASE ~(m <= Len(buffer))
      BY <1>1, <1>3, <2>1, <2>3
    <2>4. QED
      BY <2>2, <2>3
  <1>5. ASSUME NEW k \in 1..Len(buffer') PROVE buffer'[k] = buffer[start_offset + k]
    <2>1. /\ start_offset \in Nat /\ Len(buffer) \in Nat
      BY Numbers
    <2>2. k \in 1..Len(buffer) - m + 1 /\ m + k - 1 = start_offset + k
      BY <1>1, <1>4, <2>1
    <2>3. QED
      BY <1>3, <2>2
  <1>6. QED
    BY <1>2, <1>4, <1>5

\* Only recv and the memmove behind the loop change the buffer.
LEMMA BufferStep == ASSUME TypeOK, BufferInv, Next PROVE BufferInv'
  <1>1. CASE UNCHANGED rxVars
    BY <1>1 DEF BufferInv, rxVars
  <1>2. ASSUME NEW n \in 1..Len(stream), ReadRecv(n) PROVE BufferInv'
    <2> DEFINE x == SubSeq(stream, 1, n)
    <2>1. /\ n \in Nat /\ x \in Seq(Byte) /\ Len(x) = n
          /\ buffer' = buffer \o x /\ received' = received \o x
          /\ Len(buffer') = Len(buffer) + n /\ Len(received') = Len(received) + n
          /\ rx' = "parse"
      BY <1>2, Taken DEF ReadRecv
    <2>2. /\ \A k \in 1..Len(buffer) + n :
               buffer'[k] = IF k <= Len(buffer) THEN buffer[k] ELSE x[k - Len(buffer)]
          /\ \A k \in 1..Len(received) + n :
               received'[k] = IF k <= Len(received) THEN received[k]
                              ELSE x[k - Len(received)]
      <3>1. buffer \in Seq(Byte) /\ received \in Seq(Byte)
        BY Numbers
      <3> HIDE DEF x
      <3>2. \A k \in 1..Len(buffer) + n :
               buffer'[k] = IF k <= Len(buffer) THEN buffer[k] ELSE x[k - Len(buffer)]
        BY <2>1, <3>1, ConcatProperties
      <3>3. \A k \in 1..Len(received) + n :
               received'[k] = IF k <= Len(received) THEN received[k]
                              ELSE x[k - Len(received)]
        BY <2>1, <3>1, ConcatProperties
      <3>4. QED
        BY <3>2, <3>3
    <2>3. ASSUME NEW k \in 1..Len(buffer) + n
          PROVE  buffer'[k] = received'[Len(received') - Len(buffer') + k]
      <3>1. Len(buffer) <= Len(received)
        BY DEF BufferInv
      <3>2. PICK p \in 1..Len(received) + n : p = Len(received) - Len(buffer) + k
        <4>1. Len(received) - Len(buffer) + k \in 1..Len(received) + n
          BY <2>1, <3>1, Numbers
        <4>2. QED
          BY <4>1
      <3>3. p = Len(received') - Len(buffer') + k
        BY <2>1, <3>2, Numbers
      <3>4. CASE k <= Len(buffer)
        <4>1. k \in 1..Len(buffer) /\ p <= Len(received)
          BY <3>2, <3>4, Numbers, <2>1
        <4>2. buffer[k] = received[p]
          BY <3>2, <4>1 DEF BufferInv
        <4>3. QED
          BY <2>2, <3>3, <3>4, <4>1, <4>2
      <3>5. CASE ~(k <= Len(buffer))
        <4>1. ~(p <= Len(received)) /\ p - Len(received) = k - Len(buffer)
          BY <2>1, <3>2, <3>5, Numbers
        <4>2. QED
          BY <2>2, <3>3, <3>5, <4>1
      <3>6. QED
        BY <3>4, <3>5
    <2>4. Len(buffer') <= Len(received')
      <3>1. Len(buffer) <= Len(received)
        BY DEF BufferInv
      <3>2. QED
        BY <2>1, <3>1, Numbers
    <2>5. QED
      BY <2>1, <2>3, <2>4 DEF BufferInv
  <1>3. CASE ParseSkip \/ ParseMessage
    BY <1>3 DEF ParseSkip, ParseMessage, HeaderHere, BufferInv
  <1>4. CASE ParseEnd
    <2>1. Len(buffer) <= Len(received) /\ received' = received
      BY <1>4 DEF BufferInv, ParseEnd
    <2>2. ASSUME NEW k \in 1..Len(buffer')
          PROVE  buffer'[k] = received'[Len(received') - Len(buffer') + k]
      <3>1. PICK j \in 1..Len(buffer) : j = start_offset + k
        <4>1. start_offset + k \in 1..Len(buffer)
          BY <1>4, Rest, Numbers
        <4>2. QED
          BY <4>1
      <3>2. buffer'[k] = buffer[j]
        BY <1>4, <3>1, Rest
      <3>3. buffer[j] = received[Len(received) - Len(buffer) + j]
        BY DEF BufferInv
      <3>4. Len(received) - Len(buffer) + j = Len(received') - Len(buffer') + k
        <4>1. Len(buffer') = Len(buffer) - start_offset /\ Len(received') = Len(received)
          BY <1>4, <2>1, Rest
        <4>2. /\ Len(buffer) \in Nat /\ Len(received) \in Nat /\ start_offset \in Nat
          BY Numbers
        <4>3. k \in Int
          OBVIOUS
        <4>4. QED
          BY <3>1, <4>1, <4>2, <4>3
      <3>5. QED
        BY <2>1, <3>2, <3>3, <3>4
    <2>3. Len(buffer') <= Len(received') /\ start_offset' = 0
      BY <1>4, <2>1, Rest, Numbers
    <2>4. QED
      BY <2>2, <2>3 DEF BufferInv
  <1>5. QED
    BY <1>1, <1>2, <1>3, <1>4
       DEF Next, Run, RunDequeue, RunHeader, RunBody, SendStray, Break, Read

-----------------------------------------------------------------------------
\* The sender puts one frame behind the other.

\* There is room behind all frames and all bytes.
LEMMA Room ==
  ASSUME TypeOK, BufferInv, NEW at, PlaceAt(at), tx = "dequeue"
  PROVE  \E n \in Nat \ {0} :
           /\ Len(Bytes) < n /\ (~broken => n = Len(Bytes) + 1)
           /\ \A i \in 1..Len(written) : at[i] + Size(written[i]) <= n
  <1>1. /\ Laid(at, written, Bytes) /\ Len(Bytes) \in Nat /\ Len(written) \in Nat
        /\ \A i \in 1..Len(written) : at[i] \in Nat /\ Size(written[i]) \in Nat
    BY Numbers, LaidNumbers DEF PlaceAt, Laid
  <1>2. CASE ~broken
    <2>1. \A i \in 1..Len(written) : at[i] + Size(written[i]) <= Len(Bytes) + 1
      BY <1>2 DEF PlaceAt, Sending
    <2>2. Len(Bytes) + 1 \in Nat \ {0} /\ Len(Bytes) < Len(Bytes) + 1
      BY <1>1
    <2>3. QED
      BY <2>1, <2>2
  <1>3. CASE broken /\ Len(written) = 0
    <2>1. Len(Bytes) + 1 \in Nat \ {0} /\ Len(Bytes) < Len(Bytes) + 1
      BY <1>1
    <2>2. 1..Len(written) = {}
      BY <1>3
    <2>3. QED
      BY <1>3, <2>1, <2>2
  <1>4. CASE broken /\ Len(written) # 0
    <2> DEFINE l == Len(written)
    <2>1. l \in 1..l
      BY <1>1, <1>4
    <2>2. PICK e \in Nat : e = at[l] + Size(written[l])
      <3>1. at[l] + Size(written[l]) \in Nat
        BY <1>1, <2>1
      <3>2. QED
        BY <3>1
    <2>3. ASSUME NEW i \in 1..l PROVE at[i] + Size(written[i]) <= e
      <3>1. CASE i = l
        BY <2>2, <3>1
      <3>2. CASE i # l
        <4>1. i < l
          BY <1>1, <3>2
        <4>2. at[i] + Size(written[i]) <= at[l]
          BY <1>1, <2>1, <4>1 DEF Laid
        <4>3. \A a, b, c, d \in Nat : a + b <= c => a + b <= c + d
          OBVIOUS
        <4>4. at[i] + Size(written[i]) <= at[l] + Size(written[l])
          BY <1>1, <2>1, <4>2, <4>3
        <4>5. QED
          BY <2>2, <4>4
      <3>3. QED
        BY <3>1, <3>2
    <2>4. /\ Len(Bytes) + 1 + e \in Nat \ {0} /\ Len(Bytes) < Len(Bytes) + 1 + e
          /\ \A i \in 1..l : at[i] + Size(written[i]) <= Len(Bytes) + 1 + e
      <3>1. \A a, b \in Nat : a + b <= e => a + b <= Len(Bytes) + 1 + e
        BY <1>1
      <3>2. QED
        BY <1>1, <2>3, <3>1
    <2>5. QED
      BY <1>4, <2>4
  <1>5. QED
    BY <1>2, <1>3, <1>4

\* The next frame's place is behind all others, and if the connection is there
\* at the end of the stream.
LEMMA DequeueStep ==
  ASSUME TypeOK, BufferInv, ForwardedInv, PlaceInv, NEW body \in Bodies, RunDequeue(body)
  PROVE  PlaceInv'
  <1>1. PICK at : PlaceAt(at)
    BY DEF PlaceInv
  <1>2. /\ tx = "dequeue" /\ tx' = "header" /\ msg' = body
        /\ written' = Append(written, body) /\ broken' = broken
        /\ Bytes' = Bytes /\ Place' = Place /\ forwarded' = forwarded
    BY DEF RunDequeue, rxVars, Bytes, Place
  <1>3. PICK n \in Nat \ {0} :
          /\ Len(Bytes) < n /\ (~broken => n = Len(Bytes) + 1)
          /\ \A i \in 1..Len(written) : at[i] + Size(written[i]) <= n
    BY <1>1, <1>2, Room
  <1> DEFINE l == Len(written)
             next == [i \in 1..l + 1 |-> IF i = l + 1 THEN n ELSE at[i]]
             v == Append(written, body)
  <1>4. Laid(next, v, Bytes)
    <2>1. Laid(at, written, Bytes) /\ body \in Seq(Byte)
      BY <1>1, BodyFacts DEF PlaceAt
    <2>2. QED
      BY <1>3, <2>1, Numbers, LaidNext
  <1>5. /\ Len(v) = l + 1 /\ l \in Nat /\ v[l + 1] = body /\ v # <<>>
        /\ \A i \in 1..l : v[i] = written[i]
    <2>1. written \in Seq(Seq(Byte)) /\ body \in Seq(Byte) /\ l \in Nat
      BY Numbers, BodyFacts
    <2>2. Len(v) = l + 1 /\ v[l + 1] = body /\ \A i \in 1..l : v[i] = written[i]
      BY <2>1, AppendProperties
    <2>3. v # <<>>
      <3>1. v \in Seq(Seq(Byte))
        BY <2>1, AppendProperties
      <3>2. Len(v) # 0
        BY <2>1, <2>2
      <3>3. QED
        BY <3>2
    <2>4. QED
      BY <2>1, <2>2, <2>3
  <1>6. next[l + 1] = n /\ \A i \in 1..l : next[i] = at[i]
    BY <1>5
  <1>7. next \in [1..Len(v) -> Nat \ {0}]
    BY <1>4 DEF Laid
  <1> HIDE DEF next, v
  <1>8. Parsed(next, v, Len(forwarded), Place)
    <2>1. ASSUME NEW i \in 1..Len(v)
          PROVE  /\ i <= Len(forwarded) => next[i] + Size(v[i]) <= Place + 1
                 /\ i > Len(forwarded) => Place + 1 <= next[i]
      <3>1. CASE i = l + 1
        <4>1. i > Len(forwarded)
          BY <1>5, <3>1, Numbers DEF ForwardedInv
        <4>2. Place + 1 <= n
          BY <1>3, Numbers
        <4>3. ~(i <= Len(forwarded))
          BY <1>5, <4>1, Numbers
        <4>4. QED
          BY <1>6, <3>1, <4>2, <4>3
      <3>2. CASE i # l + 1
        <4>1. i \in 1..l
          BY <1>5, <3>2
        <4>2. QED
          BY <1>1, <1>5, <1>6, <4>1 DEF PlaceAt, Parsed
      <3>3. QED
        BY <3>1, <3>2
    <2>2. QED
      BY <2>1 DEF Parsed
  <1>9. broken \/ n + 0 = Len(Bytes) + 1
    BY <1>3
  <1>10. v = written'
    BY <1>2 DEF v
  <1>11. PICK nx : nx = next
    OBVIOUS
  <1>12. Laid(nx, written, Bytes)'
    BY <1>2, <1>4, <1>10, <1>11
  <1>13. Parsed(nx, written, Len(forwarded), Place)'
    BY <1>2, <1>8, <1>10, <1>11
  <1>14. Sending(nx)'
    <2>1. broken' \/ nx[Len(written')] + 0 = Len(Bytes') + 1
      BY <1>2, <1>5, <1>6, <1>9, <1>10, <1>11
    <2>2. tx' = "header" /\ written' # <<>> /\ msg' = written'[Len(written')]
      BY <1>2, <1>5, <1>10
    <2>3. QED
      BY <2>1, <2>2 DEF Sending
  <1>15. PlaceAt(nx)'
    BY <1>12, <1>13, <1>14 DEF PlaceAt
  <1>16. nx \in [1..Len(written') -> Nat \ {0}]
    BY <1>7, <1>10, <1>11
  <1>17. QED
    BY <1>15, <1>16 DEF PlaceInv

\* A step that leaves all bytes, messages and the parser's place alone.
LEMMA PlaceKept ==
  ASSUME TypeOK, BufferInv, NEW at, PlaceAt(at),
         written' = written, Len(forwarded') = Len(forwarded), Bytes' = Bytes,
         Place' = Place, Sending(at)'
  PROVE  PlaceInv'
  <1>1. Laid(at, written, Bytes) /\ Parsed(at, written, Len(forwarded), Place)
    BY DEF PlaceAt
  <1>2. PlaceAt(at)'
    BY <1>1 DEF PlaceAt
  <1>3. at \in [1..Len(written') -> Nat \ {0}]
    BY <1>1 DEF Laid
  <1>4. QED
    BY <1>2, <1>3 DEF PlaceInv

\* What is put on the connection comes behind all bytes.
LEMMA BytesGrown ==
  ASSUME TypeOK, BufferInv, NEW t \in Seq(Byte), stream' = stream \o t,
         received' = received
  PROVE  Bytes' = Bytes \o t /\ Len(Bytes') = Len(Bytes) + Len(t) /\ Len(t) \in Nat
  <1>1. Bytes' = received \o (stream \o t)
    BY DEF Bytes
  <1>2. received \in Seq(Byte) /\ stream \in Seq(Byte) /\ Bytes \in Seq(Byte)
    BY Numbers
  <1>3. Bytes' = Bytes \o t
    BY <1>1, <1>2, ConcatAssociative DEF Bytes
  <1>4. Len(Bytes \o t) = Len(Bytes) + Len(t) /\ Len(t) \in Nat
    BY <1>2, ConcatProperties, LenProperties
  <1>5. QED
    BY <1>3, <1>4

\* A step that adds bytes of the frames, or bytes between them.
LEMMA PlaceGrown ==
  ASSUME TypeOK, BufferInv, NEW at, PlaceAt(at), NEW t \in Seq(Byte),
         stream' = stream \o t, UNCHANGED <<rxVars, written>>, Sending(at)',
         \A i \in 1..Len(written) : \A k \in 1..Size(written[i]) : \A q \in 1..Len(t) :
           at[i] + k - 1 = Len(Bytes) + q => t[q] = FrameByte(written[i], k),
         \A q \in 1..Len(t) : t[q] = Delimiter =>
           \E i \in 1..Len(written) :
             at[i] <= Len(Bytes) + q /\ Len(Bytes) + q < at[i] + Size(written[i])
  PROVE  PlaceInv'
  <1>1. Laid(at, written, Bytes) /\ Parsed(at, written, Len(forwarded), Place)
    BY DEF PlaceAt
  <1>2. Bytes' = Bytes \o t
    BY BytesGrown DEF rxVars
  <1>3. Laid(at, written, Bytes \o t)
    BY <1>1, Numbers, LaidMore
  <1>4. Place' = Place
    BY DEF Place, rxVars
  <1>5. PlaceAt(at)'
    BY <1>1, <1>2, <1>3, <1>4 DEF PlaceAt, rxVars
  <1>6. at \in [1..Len(written') -> Nat \ {0}]
    BY <1>1 DEF Laid
  <1>7. QED
    BY <1>5, <1>6 DEF PlaceInv

\* The last message's frame grows by t, which follows its first h bytes.
LEMMA FrameGrown ==
  ASSUME TypeOK, BufferInv, NEW at, PlaceAt(at), written # <<>>,
         NEW h \in Nat, at[Len(written)] + h = Len(Bytes) + 1,
         NEW t \in Seq(Byte), h + Len(t) <= Size(written[Len(written)]),
         \A q \in 1..Len(t) : t[q] = FrameByte(written[Len(written)], h + q),
         stream' = stream \o t, UNCHANGED <<rxVars, written>>, Sending(at)'
  PROVE  PlaceInv'
  <1> DEFINE W == Len(written)
  <1>1. /\ Laid(at, written, Bytes) /\ Len(Bytes) \in Nat /\ W \in Nat /\ Len(t) \in Nat
        /\ \A i \in 1..W : at[i] \in Nat /\ Size(written[i]) \in Nat
    <2>1. /\ Laid(at, written, Bytes) /\ at \in [1..W -> Nat \ {0}]
          /\ written \in Seq(Seq(Byte))
      BY Numbers DEF PlaceAt, Laid
    <2>2. Len(Bytes) \in Nat /\ W \in Nat /\ Len(t) \in Nat
      BY Numbers, LenProperties
    <2>3. QED
      BY <2>1, <2>2, LaidNumbers
  <1>2. W \in 1..W
    <2>1. written \in Seq(Seq(Byte))
      BY Numbers
    <2>2. W # 0
      BY <2>1, EmptySeq
    <2>3. QED
      BY <1>1, <2>2
  <1>3. ASSUME NEW i \in 1..W, NEW k \in 1..Size(written[i]), NEW q \in 1..Len(t),
               at[i] + k - 1 = Len(Bytes) + q
        PROVE  t[q] = FrameByte(written[i], k)
    <2>1. /\ at[i] \in Nat /\ Size(written[i]) \in Nat /\ at[W] \in Nat
          /\ k \in Nat /\ q \in Nat /\ k <= Size(written[i]) /\ q >= 1
      <3>1. at[i] \in Nat /\ Size(written[i]) \in Nat /\ at[W] \in Nat
        BY <1>1, <1>2
      <3>2. \A n \in Nat : \A j \in 1..n : j \in Nat /\ j <= n /\ j >= 1
        OBVIOUS
      <3>3. QED
        BY <1>1, <3>1, <3>2
    <2>2. i = W
      <3>1. SUFFICES ASSUME i # W PROVE FALSE
        OBVIOUS
      <3>2. i < W
        BY <1>1, <3>1
      <3>3. at[i] + Size(written[i]) <= at[W]
        BY <1>1, <1>2, <3>2 DEF Laid
      <3>4. \A a, z, b, x \in Nat :
              a + z <= b /\ b + h = x + 1 /\ a + k - 1 = x + q => k > z \/ q <= 0
        BY <2>1
      <3>5. at[W] + h = Len(Bytes) + 1 /\ Len(Bytes) \in Nat
        BY <1>1
      <3>6. k > Size(written[i]) \/ q <= 0
        BY <1>3, <2>1, <3>3, <3>4, <3>5
      <3>7. QED
        BY <2>1, <3>6
    <2>3. k = h + q
      <3>1. \A a, x \in Nat : a + h = x + 1 /\ a + k - 1 = x + q => k = h + q
        BY <2>1
      <3>2. QED
        BY <1>1, <1>3, <2>1, <2>2, <3>1
    <2>4. QED
      BY <2>2, <2>3
  <1>4. ASSUME NEW q \in 1..Len(t)
        PROVE  \E i \in 1..W : at[i] <= Len(Bytes) + q
                              /\ Len(Bytes) + q < at[i] + Size(written[i])
    <2>1. /\ at[W] \in Nat /\ Size(written[W]) \in Nat /\ q \in Nat /\ q >= 1
          /\ q <= Len(t)
      BY <1>1, <1>2
    <2>2. at[W] <= Len(Bytes) + q
      BY <1>1, <2>1
    <2>3. Len(Bytes) + q < at[W] + Size(written[W])
      BY <1>1, <2>1
    <2>4. QED
      BY <1>2, <2>2, <2>3
  <1>5. QED
    BY <1>3, <1>4, PlaceGrown

\* The header is the first three bytes of the frame; the length fits in a byte.
LEMMA HeaderStep ==
  ASSUME TypeOK, BufferInv, LengthsFit, PlaceInv, RunHeader
  PROVE  PlaceInv'
  <1>1. PICK at : PlaceAt(at)
    BY DEF PlaceInv
  <1>2. /\ tx = "header" /\ UNCHANGED <<msg, written, broken, received, forwarded>>
        /\ UNCHANGED rxVars
    BY DEF RunHeader, rxVars
  <1>3. CASE broken
    <2>1. Bytes' = Bytes /\ Place' = Place /\ broken'
      BY <1>2, <1>3 DEF RunHeader, rxVars, Bytes, Place
    <2>2. Sending(at)'
      BY <2>1 DEF Sending
    <2>3. QED
      BY <1>1, <1>2, <2>1, <2>2, PlaceKept
  <1>4. CASE ~broken
    <2> DEFINE W == Len(written)
               t == Header(Len(msg))
    <2>1. /\ written # <<>> /\ msg = written[W] /\ at[W] + 0 = Len(Bytes) + 1
      BY <1>1, <1>2, <1>4 DEF PlaceAt, Sending
    <2>2. W \in 1..W
      <3>1. written \in Seq(Seq(Byte)) /\ W \in Nat
        BY Numbers
      <3>2. W # 0
        BY <2>1, <3>1, EmptySeq
      <3>3. QED
        BY <3>1, <3>2
    <2>3. /\ Len(msg) \in Nat /\ Len(msg) < Base /\ Size(written[W]) = 3 + Len(msg)
      <3>1. written[W] \in Bodies
        BY <2>2, ElementOfSeq DEF TypeOK
      <3>2. QED
        BY <2>1, <3>1, BodyFacts DEF LengthsFit, Size, HeaderSize
    <2>4. /\ t = <<Delimiter, 0, Len(msg)>> /\ t \in Seq(Byte)
          /\ stream' = stream \o t /\ tx' = "body"
      BY <1>4, <2>3, ByteFacts DEF RunHeader, Header
    <2>5. Len(t) = 3 /\ t[1] = Delimiter /\ t[2] = 0 /\ t[3] = Len(msg)
      BY <2>4
    <2> HIDE DEF t
    <2>6. ASSUME NEW q \in 1..Len(t) PROVE t[q] = FrameByte(written[W], 0 + q)
      <3>1. q = 1 \/ q = 2 \/ q = 3
        BY <2>5
      <3>2. 0 + q = q
        OBVIOUS
      <3>3. QED
        BY <2>1, <2>5, <3>1, <3>2 DEF FrameByte
    <2>7. 0 + Len(t) <= Size(written[W])
      BY <2>3, <2>5
    <2>8. Sending(at)'
      <3>1. Len(Bytes') = Len(Bytes) + 3
        BY <1>2, <2>4, <2>5, BytesGrown
      <3>2. at[W] + 3 = Len(Bytes) + 3 + 1
        <4>1. at[W] \in Nat /\ Len(Bytes) \in Nat
          BY <1>1, <2>2, Numbers, LaidNumbers DEF PlaceAt, Laid
        <4>2. QED
          BY <2>1, <4>1
      <3>3. /\ tx' = "body" /\ written' # <<>> /\ msg' = written'[Len(written')]
            /\ at[Len(written')] + HeaderSize = Len(Bytes') + 1
        BY <1>2, <2>1, <2>4, <3>1, <3>2 DEF HeaderSize
      <3>4. QED
        BY <3>3 DEF Sending
    <2>9. UNCHANGED <<rxVars, written>>
      BY <1>2
    <2>10. QED
      BY <1>1, <2>1, <2>4, <2>6, <2>7, <2>8, <2>9, FrameGrown
  <1>5. QED
    BY <1>3, <1>4

\* The body is the rest of the frame, which ends all that was sent.
LEMMA BodyStep ==
  ASSUME TypeOK, BufferInv, PlaceInv, RunBody
  PROVE  PlaceInv'
  <1>1. PICK at : PlaceAt(at)
    BY DEF PlaceInv
  <1>2. /\ tx = "body" /\ tx' = "dequeue" /\ UNCHANGED <<msg, written, broken, received>>
        /\ UNCHANGED rxVars
    BY DEF RunBody, rxVars
  <1>3. CASE broken
    <2>1. Bytes' = Bytes /\ Place' = Place /\ broken' /\ forwarded' = forwarded
      BY <1>2, <1>3 DEF RunBody, rxVars, Bytes, Place
    <2>2. Sending(at)'
      BY <2>1 DEF Sending
    <2>3. QED
      BY <1>1, <1>2, <2>1, <2>2, PlaceKept
  <1>4. CASE ~broken
    <2> DEFINE W == Len(written)
    <2>1. /\ written # <<>> /\ msg = written[W] /\ at[W] + 3 = Len(Bytes) + 1
      BY <1>1, <1>2, <1>4 DEF PlaceAt, Sending, HeaderSize
    <2>2. /\ written \in Seq(Seq(Byte)) /\ W \in Nat /\ Len(Bytes) \in Nat
          /\ at \in [1..W -> Nat \ {0}] /\ Laid(at, written, Bytes)
      BY <1>1, Numbers DEF PlaceAt, Laid
    <2>3. W \in 1..W
      <3>1. W # 0
        BY <2>1, <2>2, EmptySeq
      <3>2. QED
        BY <2>2, <3>1
    <2>4. /\ msg \in Seq(Byte) /\ Len(msg) \in Nat /\ Size(written[W]) = 3 + Len(msg)
          /\ at[W] \in Nat
      BY <2>1, <2>2, <2>3, LaidNumbers
    <2>5. stream' = stream \o msg
      BY <1>4 DEF RunBody
    <2>6. ASSUME NEW q \in 1..Len(msg) PROVE msg[q] = FrameByte(written[W], 3 + q)
      <3>1. PICK p \in Nat : p = 3 + q
        BY <2>4
      <3>2. p # 1 /\ p # 2 /\ p # 3 /\ p - HeaderSize = q
        BY <2>4, <3>1 DEF HeaderSize
      <3>3. FrameByte(written[W], p) = written[W][q]
        BY <3>2 DEF FrameByte
      <3>4. QED
        BY <2>1, <3>1, <3>3
    <2>7. Sending(at)'
      <3>1. Len(Bytes') = Len(Bytes) + Len(msg)
        BY <1>2, <2>4, <2>5, BytesGrown
      <3>2. PICK e \in Nat : e = Len(Bytes) + Len(msg)
        <4>1. Len(Bytes) + Len(msg) \in Nat
          BY <2>2, <2>4
        <4>2. QED
          BY <4>1
      <3>3. ASSUME NEW i \in 1..W PROVE at[i] + Size(written[i]) <= e + 1
        <4>1. at[W] + Size(written[W]) = e + 1
          BY <2>1, <2>2, <2>4, <3>2
        <4>2. CASE i = W
          BY <3>2, <4>1, <4>2
        <4>3. CASE i # W
          <5>1. i < W
            BY <2>2, <4>3
          <5>2. at[i] + Size(written[i]) <= at[W]
            BY <2>2, <2>3, <5>1 DEF Laid
          <5>3. at[i] \in Nat /\ Size(written[i]) \in Nat
            BY <2>2, LaidNumbers
          <5>4. \A a, z, b, x, l \in Nat :
                  a + z <= b /\ b + 3 = x + 1 => a + z <= x + l + 1
            OBVIOUS
          <5>5. at[i] + Size(written[i]) <= Len(Bytes) + Len(msg) + 1
            BY <2>1, <2>2, <2>4, <5>2, <5>3, <5>4
          <5>6. QED
            BY <3>2, <5>5
        <4>4. QED
          BY <4>2, <4>3
      <3>4. /\ tx' = "dequeue"
            /\ \A i \in 1..Len(written') : at[i] + Size(written'[i]) <= Len(Bytes') + 1
        BY <1>2, <3>1, <3>2, <3>3
      <3>5. QED
        BY <3>4 DEF Sending
    <2>8. 3 + Len(msg) <= Size(written[W])
      BY <2>4
    <2>9. UNCHANGED <<rxVars, written>>
      BY <1>2
    <2>10. QED
      BY <1>1, <2>1, <2>4, <2>5, <2>6, <2>7, <2>8, <2>9, FrameGrown
  <1>5. QED
    BY <1>3, <1>4

\* A stray byte is no delimiter, and all frames end in front of it.
LEMMA StrayStep ==
  ASSUME TypeOK, BufferInv, PlaceInv, SendStray
  PROVE  PlaceInv'
  <1>1. PICK at : PlaceAt(at)
    BY DEF PlaceInv
  <1>2. PICK byte \in Byte \ {Delimiter} : stream' = Append(stream, byte)
    BY DEF SendStray
  <1>3. /\ tx = "dequeue" /\ tx' = "dequeue" /\ ~broken
        /\ UNCHANGED <<written, received>> /\ UNCHANGED rxVars
    BY DEF SendStray, rxVars
  <1>4. /\ written \in Seq(Seq(Byte)) /\ Len(Bytes) \in Nat
        /\ at \in [1..Len(written) -> Nat \ {0}]
    BY <1>1, Numbers DEF PlaceAt, Laid
  <1>5. \A i \in 1..Len(written) : /\ at[i] + Size(written[i]) <= Len(Bytes) + 1
                                   /\ at[i] \in Nat /\ Size(written[i]) \in Nat
    BY <1>1, <1>3, <1>4, LaidNumbers DEF PlaceAt, Sending
  <1> DEFINE t == <<byte>>
  <1>6. t \in Seq(Byte) /\ Len(t) = 1 /\ t[1] = byte
    OBVIOUS
  <1>7. stream' = stream \o t
    <2>1. stream \in Seq(Byte) /\ byte \in Byte
      BY Numbers
    <2>2. Append(stream, byte) = stream \o <<byte>>
      BY <2>1
    <2>3. QED
      BY <1>2, <2>2
  <1> HIDE DEF t
  <1>8. ASSUME NEW i \in 1..Len(written), NEW k \in 1..Size(written[i]), NEW q \in 1..Len(t),
               at[i] + k - 1 = Len(Bytes) + q
        PROVE  t[q] = FrameByte(written[i], k)
    <2>1. \A a, z, x \in Nat : \A j \in 1..z :
            a + z <= x + 1 => a + j - 1 # x + 1
      OBVIOUS
    <2>2. q = 1
      BY <1>6
    <2>3. QED
      BY <1>4, <1>5, <1>8, <2>1, <2>2
  <1>9. \A q \in 1..Len(t) : t[q] # Delimiter
    BY <1>6
  <1>10. Sending(at)'
    <2>1. Len(Bytes') = Len(Bytes) + 1
      BY <1>3, <1>6, <1>7, BytesGrown
    <2>2. PICK e \in Nat : e = Len(Bytes) + 1
      <3>1. Len(Bytes) + 1 \in Nat
        BY <1>4
      <3>2. QED
        BY <3>1
    <2>3. \A i \in 1..Len(written) : at[i] + Size(written[i]) <= e + 1
      BY <1>4, <1>5, <2>2
    <2>4. \A i \in 1..Len(written') : at[i] + Size(written'[i]) <= Len(Bytes') + 1
      BY <1>3, <2>1, <2>2, <2>3
    <2>5. QED
      BY <1>3, <2>4 DEF Sending
  <1>11. UNCHANGED <<rxVars, written>>
    BY <1>3
  <1>12. QED
    BY <1>1, <1>6, <1>7, <1>8, <1>9, <1>10, <1>11, PlaceGrown

-----------------------------------------------------------------------------
\* The connection and the receiver leave the frames where they are.

\* The lost bytes are the last ones.
LEMMA BreakStep ==
  ASSUME TypeOK, BufferInv, PlaceInv, NEW n \in 0..Len(stream), Break(n)
  PROVE  PlaceInv'
  <1>1. PICK at : PlaceAt(at)
    BY DEF PlaceInv
  <1> DEFINE x == SubSeq(stream, 1, n)
             t == received \o x
  <1>2. /\ stream' = x /\ broken' /\ UNCHANGED <<written, received, forwarded>>
        /\ Place' = Place
    BY DEF Break, txVars, rxVars, Place
  <1>3. /\ x \in Seq(Byte) /\ Len(x) = n /\ \A i \in 1..n : x[i] = stream[i]
    <2>1. n \in Nat /\ n <= Len(stream) /\ stream \in Seq(Byte)
      BY Numbers
    <2>2. /\ x \in Seq(Byte) /\ Len(x) = (IF 1 <= n THEN n - 1 + 1 ELSE 0)
          /\ \A i \in 1..n - 1 + 1 : x[i] = stream[1 + i - 1]
      BY <2>1, PartTyped
    <2>3. Len(x) = n /\ n - 1 + 1 = n
      BY <2>1, <2>2
    <2>4. \A i \in 1..n : 1 + i - 1 = i
      OBVIOUS
    <2>5. QED
      BY <2>2, <2>3, <2>4
  <1> HIDE DEF x
  <1>4. /\ t \in Seq(Byte) /\ Len(t) <= Len(Bytes)
        /\ \A p \in 1..Len(t) : t[p] = Bytes[p]
    <2>1. received \in Seq(Byte) /\ stream \in Seq(Byte) /\ n \in Nat /\ n <= Len(stream)
          /\ Len(received) \in Nat /\ Len(stream) \in Nat
      BY Numbers
    <2>2. /\ t \in Seq(Byte) /\ Len(t) = Len(received) + n
          /\ \A p \in 1..Len(received) + n :
               t[p] = IF p <= Len(received) THEN received[p] ELSE x[p - Len(received)]
      BY <1>3, <2>1, ConcatProperties
    <2>3. /\ Len(Bytes) = Len(received) + Len(stream)
          /\ \A p \in 1..Len(received) + Len(stream) :
               Bytes[p] = IF p <= Len(received) THEN received[p] ELSE stream[p - Len(received)]
      BY <2>1, ConcatProperties DEF Bytes
    <2>4. ASSUME NEW p \in 1..Len(received) + n PROVE t[p] = Bytes[p]
      <3>1. p \in 1..Len(received) + Len(stream)
        BY <2>1
      <3>2. CASE p <= Len(received)
        BY <2>2, <2>3, <3>1, <3>2
      <3>3. CASE ~(p <= Len(received))
        <4>1. p - Len(received) \in 1..n
          BY <2>1, <3>3
        <4>2. x[p - Len(received)] = stream[p - Len(received)]
          BY <1>3, <4>1
        <4>3. QED
          BY <2>2, <2>3, <3>1, <3>3, <4>2
      <3>4. QED
        BY <3>2, <3>3
    <2>5. Len(t) <= Len(Bytes)
      BY <2>1, <2>2, <2>3
    <2>6. QED
      BY <2>2, <2>4, <2>5
  <1>5. Bytes' = t
    BY <1>2 DEF Bytes
  <1> HIDE DEF t
  <1>6. Laid(at, written, t)
    <2>1. Laid(at, written, Bytes) /\ written \in Seq(Seq(Byte)) /\ Bytes \in Seq(Byte)
      BY <1>1, Numbers DEF PlaceAt
    <2>2. QED
      BY <1>4, <2>1, LaidLess
  <1>7. Sending(at)'
    BY <1>2 DEF Sending
  <1>8. PlaceAt(at)'
    BY <1>1, <1>2, <1>5, <1>6, <1>7 DEF PlaceAt
  <1>9. at \in [1..Len(written') -> Nat \ {0}]
    BY <1>2, <1>6 DEF Laid
  <1>10. QED
    BY <1>8, <1>9 DEF PlaceInv

\* A step of read changes nothing of what the sender's place depends on.
LEMMA SendingKept ==
  ASSUME NEW at, Sending(at), UNCHANGED <<txVars, broken>>, Bytes' = Bytes
  PROVE  Sending(at)'
  BY DEF Sending, txVars

\* The bytes go from the stream to the end of the buffer.
LEMMA RecvStep ==
  ASSUME TypeOK, BufferInv, PlaceInv, NEW n \in 1..Len(stream), ReadRecv(n)
  PROVE  PlaceInv'
  <1>1. PICK at : PlaceAt(at)
    BY DEF PlaceInv
  <1>2. /\ UNCHANGED <<txVars, broken, written, start_offset, forwarded>>
    BY DEF ReadRecv, txVars
  <1>3. /\ Bytes' = Bytes /\ n \in Nat
        /\ Len(buffer') = Len(buffer) + n /\ Len(received') = Len(received) + n
    BY Taken
  <1>4. Place' = Place
    <2>1. \A a, b, c \in Nat : (a + n) - (b + n) + c = a - b + c
      BY <1>3
    <2>2. Len(received) \in Nat /\ Len(buffer) \in Nat /\ start_offset \in Nat
      BY Numbers
    <2>3. Place' = (Len(received) + n) - (Len(buffer) + n) + start_offset
      BY <1>2, <1>3 DEF Place
    <2>4. QED
      BY <2>1, <2>2, <2>3 DEF Place
  <1>5. Sending(at)'
    BY <1>1, <1>2, <1>3, SendingKept DEF PlaceAt
  <1>6. QED
    BY <1>1, <1>2, <1>3, <1>4, <1>5, PlaceKept

\* memmove and the new round's start_offset leave the parser at the same byte.
LEMMA EndStep ==
  ASSUME TypeOK, BufferInv, PlaceInv, ParseEnd
  PROVE  PlaceInv'
  <1>1. PICK at : PlaceAt(at)
    BY DEF PlaceInv
  <1>2. /\ UNCHANGED <<txVars, broken, written, received, forwarded>> /\ Bytes' = Bytes
    BY DEF ParseEnd, txVars, Bytes
  <1>3. Place' = Place
    <2>1. Len(buffer') = Len(buffer) - start_offset /\ start_offset' = 0
      BY Rest
    <2>2. \A a, b, c \in Nat : a - (b - c) + 0 = a - b + c
      OBVIOUS
    <2>3. Len(received) \in Nat /\ Len(buffer) \in Nat /\ start_offset \in Nat
      BY Numbers
    <2>4. Place' = Len(received) - (Len(buffer) - start_offset) + 0
      BY <1>2, <2>1 DEF Place
    <2>5. QED
      BY <2>2, <2>3, <2>4 DEF Place
  <1>4. Sending(at)'
    BY <1>1, <1>2, SendingKept DEF PlaceAt
  <1>5. QED
    BY <1>1, <1>2, <1>3, <1>4, PlaceKept

\* The byte that is skipped is no delimiter, so that no frame begins at it.
LEMMA SkipStep ==
  ASSUME TypeOK, BufferInv, PlaceInv, ParseSkip
  PROVE  PlaceInv'
  <1>1. PICK at : PlaceAt(at)
    BY DEF PlaceInv
  <1>2. /\ UNCHANGED <<txVars, broken, written, forwarded>> /\ Bytes' = Bytes
        /\ HeaderHere /\ ~AtDelimiter
    BY DEF ParseSkip, txVars, Bytes
  <1>3. Place' = Place + 1
    <2>1. \A a, b, c \in Nat : a - b + (c + 1) = a - b + c + 1
      OBVIOUS
    <2>2. Len(received) \in Nat /\ Len(buffer) \in Nat /\ start_offset \in Nat
      BY Numbers
    <2>3. Place' = Len(received) - Len(buffer) + (start_offset + 1)
      BY DEF ParseSkip, Place
    <2>4. QED
      BY <2>1, <2>2, <2>3 DEF Place
  <1>4. /\ Laid(at, written, Bytes) /\ Parsed(at, written, Len(forwarded), Place)
        /\ Sending(at) /\ at \in [1..Len(written) -> Nat \ {0}]
    BY <1>1 DEF PlaceAt, Laid
  <1>5. Place + 1 <= Len(Bytes) /\ Bytes[Place + 1] # Delimiter
    <2>1. start_offset + 1 <= Len(buffer)
      BY <1>2, HeaderNumbers
    <2>2. QED
      BY <1>2, <2>1, ByteAt DEF AtDelimiter
  <1>6. ASSUME NEW i \in 1..Len(written)
        PROVE  /\ i <= Len(forwarded) => at[i] + Size(written[i]) <= Place + 1 + 1
               /\ i > Len(forwarded) => Place + 1 + 1 <= at[i]
    <2>1. /\ at[i] \in Nat /\ Size(written[i]) \in Nat /\ 1 \in 1..Size(written[i])
          /\ Place \in Nat
      <3>1. /\ Size(written[i]) = 3 + Len(written[i]) /\ Len(written[i]) \in Nat
            /\ at[i] \in Nat /\ Place \in Nat
        BY <1>4, Numbers, LaidNumbers
      <3>2. QED
        BY <3>1
    <2>2. at[i] # Place + 1
      <3>1. SUFFICES ASSUME at[i] = Place + 1 PROVE FALSE
        OBVIOUS
      <3>2. at[i] + 1 - 1 = Place + 1
        BY <2>1, <3>1
      <3>3. Bytes[Place + 1] = FrameByte(written[i], 1)
        BY <1>4, <1>5, <2>1, <3>2 DEF Laid
      <3>4. QED
        BY <1>5, <3>3 DEF FrameByte
    <2>3. i <= Len(forwarded) => at[i] + Size(written[i]) <= Place + 1
      BY <1>4 DEF Parsed
    <2>4. i > Len(forwarded) => Place + 1 <= at[i]
      BY <1>4 DEF Parsed
    <2>5. \A a, z \in Nat : a + z <= Place + 1 => a + z <= Place + 1 + 1
      BY <2>1
    <2>6. QED
      BY <2>1, <2>2, <2>3, <2>4, <2>5
  <1>7. Parsed(at, written, Len(forwarded), Place + 1)
    BY <1>6 DEF Parsed
  <1>8. Sending(at)'
    BY <1>2, <1>4, SendingKept
  <1>9. PlaceAt(at)'
    BY <1>2, <1>3, <1>4, <1>7, <1>8 DEF PlaceAt
  <1>10. QED
    BY <1>2, <1>4, <1>9 DEF PlaceInv

\* What is forwarded is the next written message.
LEMMA NextForwarded ==
  ASSUME TypeOK, BufferInv, ForwardedInv, LengthsFit, ParseMessage, NEW at, PlaceAt(at)
  PROVE  LET m == written[Len(forwarded) + 1]
         IN  /\ Len(forwarded) < Len(written) /\ at[Len(forwarded) + 1] = Place + 1
             /\ forwarded' = Append(forwarded, m) /\ Len(forwarded') = Len(forwarded) + 1
             /\ forwarded'[Len(forwarded) + 1] = m
             /\ \A i \in 1..Len(forwarded) : forwarded'[i] = forwarded[i]
             /\ Place' = Place + Size(m)
  <1> DEFINE m == written[Len(forwarded) + 1]
  <1>1. HeaderHere /\ AtDelimiter /\ FrameEnd <= Len(buffer)
    BY DEF ParseMessage
  <1>2. /\ Len(forwarded) < Len(written) /\ at[Len(forwarded) + 1] = Place + 1
        /\ m \in Bodies /\ MsgSize = Len(m)
        /\ \A k \in 1..MsgSize : start_offset + 3 + k <= Len(buffer) =>
             buffer[start_offset + 3 + k] = m[k]
    BY <1>1, MessageHere
  <1>3. /\ m \in Seq(Byte) /\ Len(m) \in Nat
        /\ start_offset \in Nat /\ Len(buffer) \in Nat /\ buffer \in Seq(Byte)
    BY <1>2, BodyFacts, Numbers
  <1>4. FrameEnd = start_offset + 3 + Len(m)
    BY <1>1, <1>2, HeaderNumbers
  <1> HIDE DEF m
  <1>5. PICK o \in Nat \ {0} : o = start_offset + HeaderSize + 1
    <2>1. start_offset + HeaderSize + 1 \in Nat \ {0}
      BY <1>3 DEF HeaderSize
    <2>2. QED
      BY <2>1
  <1>6. PICK e \in Nat : e = FrameEnd
    <2>1. FrameEnd \in Nat
      BY <1>3, <1>4
    <2>2. QED
      BY <2>1
  <1> DEFINE x == SubSeq(buffer, o, e)
  <1>7. /\ x \in Seq(Byte) /\ Len(x) = (IF o <= e THEN e - o + 1 ELSE 0)
        /\ \A i \in 1..e - o + 1 : x[i] = buffer[o + i - 1]
    <2>1. e <= Len(buffer)
      BY <1>1, <1>6
    <2>2. QED
      BY <1>3, <2>1, PartTyped
  <1> HIDE DEF x
  <1>8. x = m
    <2>1. o = start_offset + 4 /\ e = start_offset + 3 + Len(m)
      BY <1>3, <1>4, <1>5, <1>6 DEF HeaderSize
    <2>2. Len(x) = Len(m) /\ e - o + 1 = Len(m)
      BY <1>3, <1>7, <2>1
    <2>3. ASSUME NEW i \in 1..Len(m) PROVE x[i] = m[i]
      <3>1. o + i - 1 = start_offset + 3 + i /\ start_offset + 3 + i <= Len(buffer)
        <4>1. start_offset + 3 + Len(m) <= Len(buffer)
          BY <1>1, <1>4
        <4>2. QED
          BY <1>3, <2>1, <4>1
      <3>2. x[i] = buffer[o + i - 1]
        BY <1>7, <2>2
      <3>3. QED
        BY <1>2, <3>1, <3>2
    <2>4. QED
      BY <1>3, <1>7, <2>2, <2>3, SeqEqual
  <1>9. forwarded' = Append(forwarded, m)
    BY <1>5, <1>6, <1>8 DEF ParseMessage, x
  <1>10. /\ Len(forwarded') = Len(forwarded) + 1 /\ forwarded'[Len(forwarded) + 1] = m
         /\ \A i \in 1..Len(forwarded) : forwarded'[i] = forwarded[i]
    <2>1. forwarded \in Seq(Seq(Byte))
      BY DEF TypeOK
    <2>2. QED
      BY <1>3, <1>9, <2>1, AppendProperties
  <1>11. Place' = Place + Size(m)
    <2>1. Place' = Len(received) - Len(buffer) + (start_offset + 3 + Len(m))
      BY <1>4 DEF ParseMessage, Place
    <2>2. Len(received) \in Nat
      BY Numbers
    <2>3. QED
      BY <1>3, <2>1, <2>2 DEF Place, Size, HeaderSize
  <1>12. QED
    BY <1>2, <1>9, <1>10, <1>11 DEF m

\* The parser steps over the frame of the message it forwards.
LEMMA MessageStep ==
  ASSUME TypeOK, BufferInv, ForwardedInv, LengthsFit, PlaceInv, ParseMessage
  PROVE  PlaceInv'
  <1>1. PICK at : PlaceAt(at)
    BY DEF PlaceInv
  <1> DEFINE m == written[Len(forwarded) + 1]
  <1>2. /\ Len(forwarded) < Len(written) /\ at[Len(forwarded) + 1] = Place + 1
        /\ Len(forwarded') = Len(forwarded) + 1 /\ Place' = Place + Size(m)
    BY <1>1, NextForwarded
  <1>3. /\ UNCHANGED <<txVars, broken, written>> /\ Bytes' = Bytes
    BY DEF ParseMessage, txVars, Bytes
  <1>4. /\ Laid(at, written, Bytes) /\ Parsed(at, written, Len(forwarded), Place)
        /\ Sending(at) /\ at \in [1..Len(written) -> Nat \ {0}]
    BY <1>1 DEF PlaceAt, Laid
  <1>5. Parsed(at, written, Len(forwarded) + 1, Place + Size(m))
    <2>1. Len(forwarded) \in 0..Len(written)
      BY <1>2, Numbers
    <2>2. QED
      BY <1>2, <1>4, <2>1, Numbers, AfterFrame
  <1> HIDE DEF m
  <1>6. Sending(at)'
    BY <1>3, <1>4, SendingKept
  <1>7. PlaceAt(at)'
    BY <1>2, <1>3, <1>4, <1>5, <1>6 DEF PlaceAt
  <1>8. QED
    BY <1>3, <1>4, <1>7 DEF PlaceInv

\* What run begins to write comes behind; what read forwards is next.
LEMMA ForwardedStep ==
  ASSUME TypeOK, BufferInv, ForwardedInv, LengthsFit, PlaceInv, Next
  PROVE  ForwardedInv'
  <1>1. CASE UNCHANGED <<written, forwarded>>
    BY <1>1 DEF ForwardedInv
  <1>2. ASSUME NEW body \in Bodies, RunDequeue(body) PROVE ForwardedInv'
    <2>1. written' = Append(written, body) /\ forwarded' = forwarded
      BY <1>2 DEF RunDequeue, rxVars
    <2>2. /\ Len(written') = Len(written) + 1 /\ Len(written) \in Nat /\ Len(forwarded) \in Nat
          /\ \A i \in 1..Len(written) : written'[i] = written[i]
      <3>1. written \in Seq(Seq(Byte)) /\ body \in Seq(Byte)
        BY Numbers, BodyFacts
      <3>2. QED
        BY <2>1, <3>1, Numbers, AppendProperties
    <2>3. QED
      BY <2>1, <2>2 DEF ForwardedInv
  <1>3. CASE ParseMessage
    <2>1. PICK at : PlaceAt(at)
      BY DEF PlaceInv
    <2>2. /\ Len(forwarded) < Len(written) /\ Len(forwarded') = Len(forwarded) + 1
          /\ forwarded'[Len(forwarded) + 1] = written[Len(forwarded) + 1]
          /\ \A i \in 1..Len(forwarded) : forwarded'[i] = forwarded[i]
      BY <1>3, <2>1, NextForwarded
    <2>3. written' = written /\ Len(written) \in Nat /\ Len(forwarded) \in Nat
      BY <1>3, Numbers DEF ParseMessage, txVars
    <2>4. Len(forwarded') <= Len(written')
      BY <2>2, <2>3
    <2>5. ASSUME NEW i \in 1..Len(forwarded') PROVE forwarded'[i] = written'[i]
      <3>1. i \in 1..Len(forwarded) \/ i = Len(forwarded) + 1
        BY <2>2, <2>3
      <3>2. QED
        BY <2>2, <2>3, <3>1 DEF ForwardedInv
    <2>6. QED
      BY <2>4, <2>5 DEF ForwardedInv
  <1>4. QED
    BY <1>1, <1>2, <1>3
       DEF Next, Run, RunHeader, RunBody, SendStray, Break, Read, ReadRecv, ParseSkip,
           ParseEnd, txVars, rxVars

\* All actions.
LEMMA PlaceStep ==
  ASSUME TypeOK, BufferInv, ForwardedInv, LengthsFit, PlaceInv, Next
  PROVE  PlaceInv'
  BY DequeueStep, HeaderStep, BodyStep, StrayStep, BreakStep, RecvStep, EndStep,
     SkipStep, MessageStep DEF Next, Run, Read

\* There is no frame and no byte.
LEMMA InvInit == Init => IInv
  <1> SUFFICES ASSUME Init PROVE IInv
    OBVIOUS
  <1>1. TypeOK
    BY TypeInit
  <1>2. BufferInv
    BY DEF Init, BufferInv
  <1>3. ForwardedInv
    BY DEF Init, ForwardedInv
  <1> DEFINE none == [i \in {} |-> 1]
  <1>4. Len(written) = 0 /\ 1..Len(written) = {} /\ Bytes = <<>> /\ Len(Bytes) = 0
    BY DEF Init, Bytes
  <1>5. none \in [1..Len(written) -> Nat \ {0}]
    BY <1>4
  <1>6. Laid(none, written, Bytes)
    <2>1. 1..Len(Bytes) = {}
      BY <1>4
    <2>2. QED
      BY <1>4, <1>5, <2>1 DEF Laid
  <1>7. Parsed(none, written, Len(forwarded), Place)
    BY <1>4 DEF Parsed
  <1>8. Sending(none)
    BY <1>4 DEF Sending, Init
  <1>9. PlaceInv
    BY <1>5, <1>6, <1>7, <1>8 DEF PlaceInv, PlaceAt
  <1>10. QED
    BY <1>1, <1>2, <1>3, <1>9 DEF IInv

\* All parts.
LEMMA InvStep == ASSUME LengthsFit, IInv, [Next]_vars PROVE IInv'
  <1>1. TypeOK /\ BufferInv /\ ForwardedInv /\ PlaceInv
    BY DEF IInv
  <1>2. TypeOK'
    BY <1>1, TypeStep
  <1>3. CASE Next
    BY <1>1, <1>2, <1>3, BufferStep, ForwardedStep, PlaceStep DEF IInv
  <1>4. CASE UNCHANGED vars
    <2>1. UNCHANGED <<rx, start_offset, buffer, received, forwarded, written, stream,
                      broken, tx, msg>>
      BY <1>4 DEF vars, txVars, rxVars
    <2>2. BufferInv' /\ ForwardedInv'
      BY <1>1, <2>1 DEF BufferInv, ForwardedInv
    <2>3. Bytes' = Bytes /\ Place' = Place
      BY <2>1 DEF Bytes, Place
    <2>4. PICK at : PlaceAt(at)
      BY <1>1 DEF PlaceInv
    <2>5. Sending(at)'
      BY <2>1, <2>3, <2>4 DEF PlaceAt, Sending
    <2>6. PlaceInv'
      BY <1>1, <2>1, <2>3, <2>4, <2>5, PlaceKept
    <2>7. QED
      BY <1>2, <2>2, <2>6 DEF IInv
  <1>5. QED
    BY <1>3, <1>4

\* The invariant the other results rest on.
THEOREM Invariance == ASSUME LengthsFit PROVE Spec => []IInv
  <1>1. Init => IInv
    BY InvInit
  <1>2. IInv /\ [Next]_vars => IInv'
    BY InvStep
  <1>3. QED
    BY <1>1, <1>2, PTL DEF Spec

-----------------------------------------------------------------------------
\* The receive buffer is large enough: recv may write TCP_BUFFER_SIZE bytes
\* behind what is left of the last round (tcp_server.cpp, lines 120 and 134;
\* tcp_client.cpp, lines 111 and 115).

\* What a round leaves in the buffer is less than a frame.
LEMMA RestFits ==
  ASSUME IInv, LengthsFit, FramesFit, ParseEnd
  PROVE  Len(buffer') <= BufferSize
  <1>1. TypeOK /\ BufferInv /\ ForwardedInv /\ PlaceInv
    BY DEF IInv
  <1>2. /\ Len(buffer') = Len(buffer) - start_offset
        /\ Len(buffer) \in Nat /\ start_offset \in Nat /\ BufferSize \in Nat
    BY <1>1, Rest, Numbers, BufferAssumption
  <1>3. rx = "parse" /\ Stuck
    BY DEF ParseEnd
  <1>4. CASE ~HeaderHere
    <2>1. start_offset + 3 > Len(buffer)
      BY <1>2, <1>3, <1>4 DEF HeaderHere, HeaderSize
    <2>2. QED
      BY <1>2, <2>1 DEF FramesFit
  <1>5. CASE HeaderHere
    <2>1. AtDelimiter /\ FrameEnd > Len(buffer)
      BY <1>3, <1>5 DEF Stuck
    <2>2. PICK at : PlaceAt(at)
      BY <1>1 DEF PlaceInv
    <2>3. PICK body \in Bodies : MsgSize = Len(body)
      BY <1>1, <1>5, <2>1, <2>2, MessageHere
    <2>4. FrameEnd = start_offset + 3 + Len(body) /\ Len(body) \in Nat
      BY <1>1, <1>5, <2>3, HeaderNumbers, BodyFacts
    <2>5. Len(body) + 2 <= BufferSize
      BY DEF FramesFit
    <2>6. QED
      BY <1>2, <2>1, <2>4, <2>5
  <1>6. QED
    BY <1>4, <1>5

\* Only the end of a round takes read back to recv.
LEMMA BoundsStep ==
  ASSUME IInv, LengthsFit, FramesFit, InBounds, [Next]_vars
  PROVE  InBounds'
  <1>1. BufferSize \in Nat /\ TypeOK
    BY BufferAssumption DEF IInv
  <1>2. CASE UNCHANGED <<rx, buffer>>
    BY <1>2 DEF InBounds
  <1>3. CASE rx' = "parse"
    BY <1>3 DEF InBounds
  <1>4. CASE ParseEnd
    <2>1. PICK n \in Nat : n = Len(buffer')
      <3>1. Len(buffer') \in Nat
        BY <1>1, <1>4, TypeStep, LenProperties DEF TypeOK, Next, Read
      <3>2. QED
        BY <3>1
    <2>2. n <= BufferSize
      BY <1>4, <2>1, RestFits
    <2>3. n + BufferSize <= 2 * BufferSize
      BY <1>1, <2>2
    <2>4. QED
      BY <2>1, <2>3 DEF InBounds
  <1>5. QED
    BY <1>2, <1>3, <1>4
       DEF Next, Run, RunDequeue, RunHeader, RunBody, SendStray, Break, Read, ReadRecv,
           ParseSkip, ParseMessage, HeaderHere, txVars, rxVars, vars

\* recv never writes behind the end of the buffer, if no frame is longer than
\* what one recv returns and one byte.
THEOREM ReceivesFit == ASSUME LengthsFit, FramesFit PROVE Spec => []InBounds
  <1>1. Init => InBounds
    <2>1. Init => Len(buffer) = 0
      BY DEF Init
    <2>2. 0 + BufferSize <= 2 * BufferSize
      BY BufferAssumption
    <2>3. QED
      BY <2>1, <2>2 DEF InBounds
  <1>2. IInv /\ InBounds /\ [Next]_vars => InBounds'
    BY BoundsStep
  <1>3. Spec => []IInv
    BY Invariance
  <1>4. QED
    BY <1>1, <1>2, <1>3, PTL DEF Spec

-----------------------------------------------------------------------------
\* The two blocks and the connection are a FIFO channel.

Pending == SubSeq(written, Len(forwarded) + 1, Len(written))

\* A message that run begins to write is put into the channel.
LEMMA PutStep ==
  ASSUME IInv, NEW body \in Bodies, RunDequeue(body)
  PROVE  Pending' = Append(Pending, body) /\ forwarded' = forwarded
  <1> DEFINE l == Len(written)
             v == Append(written, body)
  <1>1. written' = v /\ forwarded' = forwarded
    BY DEF RunDequeue, rxVars
  <1>2. /\ l \in Nat /\ written \in Seq(Seq(Byte)) /\ body \in Seq(Byte)
        /\ Len(forwarded) \in Nat /\ Len(forwarded) <= l
    BY Numbers, BodyFacts DEF IInv, ForwardedInv
  <1>3. /\ v \in Seq(Seq(Byte)) /\ Len(v) = l + 1 /\ v[l + 1] = body
        /\ \A i \in 1..l : v[i] = written[i]
    BY <1>2, AppendProperties
  <1>4. PICK f \in 1..l + 1 : f = Len(forwarded) + 1
    <2>1. Len(forwarded) + 1 \in 1..l + 1
      BY <1>2
    <2>2. QED
      BY <2>1
  <1> HIDE DEF v, l
  <1>5. SubSeq(v, f, l + 1) = SubSeq(v, f, l) \o <<body>>
    <2>1. PICK n : n = l + 1
      OBVIOUS
    <2>2. /\ f \in 1..Len(v) /\ n \in f..Len(v) /\ n - 1 = l /\ v \in Seq(Seq(Byte))
      BY <1>2, <1>3, <2>1
    <2>3. SubSeq(v, f, n) = SubSeq(v, f, n - 1) \o <<v[n]>>
      BY <2>2, SubSeqRecursiveSecond
    <2>4. QED
      BY <1>3, <2>1, <2>2, <2>3
  <1> DEFINE x == SubSeq(v, f, l)
             y == SubSeq(written, f, l)
  <1>6. x = y
    <2>1. \A i \in f..l : v[i] \in Seq(Byte) /\ written[i] \in Seq(Byte)
      <3>1. \A i \in f..l : i \in 1..l
        BY <1>2
      <3>2. QED
        BY <1>2, <1>3, <3>1, ElementOfSeq DEF l
    <2>2. /\ x \in Seq(Seq(Byte)) /\ Len(x) = (IF f <= l THEN l - f + 1 ELSE 0)
          /\ \A i \in 1..l - f + 1 : x[i] = v[f + i - 1]
      BY <1>2, <2>1, SubSeqProperties
    <2>3. /\ y \in Seq(Seq(Byte)) /\ Len(y) = (IF f <= l THEN l - f + 1 ELSE 0)
          /\ \A i \in 1..l - f + 1 : y[i] = written[f + i - 1]
      BY <1>2, <2>1, SubSeqProperties
    <2>4. ASSUME NEW i \in 1..l - f + 1 PROVE v[f + i - 1] = written[f + i - 1]
      <3>1. f + i - 1 \in 1..l
        BY <1>2
      <3>2. QED
        BY <1>3, <3>1
    <2> HIDE DEF x, y
    <2>5. 1..Len(x) = 1..l - f + 1
      BY <1>2, <2>2
    <2>6. QED
      BY <2>2, <2>3, <2>4, <2>5, SeqEqual
  <1>7. Pending = y /\ y \in Seq(Seq(Byte))
    <2>1. Pending = y
      BY <1>4 DEF Pending, l
    <2>2. \A i \in f..l : written[i] \in Seq(Byte)
      <3>1. \A i \in f..l : i \in 1..l
        BY <1>2
      <3>2. QED
        BY <1>2, <3>1, ElementOfSeq DEF l
    <2>3. QED
      BY <1>2, <2>1, <2>2, SubSeqProperties
  <1>8. Pending' = SubSeq(v, f, l + 1)
    BY <1>1, <1>3, <1>4 DEF Pending
  <1> HIDE DEF x, y
  <1>9. Append(y, body) = y \o <<body>>
    BY <1>2, <1>7, AppendIsConcat
  <1>10. QED
    BY <1>1, <1>5, <1>6, <1>7, <1>8, <1>9 DEF x

\* A message that read forwards is taken out of it.
LEMMA GetStep ==
  ASSUME IInv, LengthsFit, ParseMessage
  PROVE  /\ Pending # <<>> /\ forwarded' = Append(forwarded, Head(Pending))
         /\ Pending' = Tail(Pending)
  <1>1. TypeOK /\ BufferInv /\ ForwardedInv /\ PlaceInv
    BY DEF IInv
  <1>2. PICK at : PlaceAt(at)
    BY <1>1 DEF PlaceInv
  <1>3. /\ Len(forwarded) < Len(written) /\ Len(forwarded') = Len(forwarded) + 1
        /\ forwarded' = Append(forwarded, written[Len(forwarded) + 1])
    BY <1>1, <1>2, NextForwarded
  <1>4. /\ written \in Seq(Seq(Byte)) /\ Len(written) \in Nat /\ Len(forwarded) \in Nat
        /\ written' = written
    BY <1>1, Numbers DEF ParseMessage, txVars
  <1>5. PICK f \in 1..Len(written) : f = Len(forwarded) + 1
    <2>1. Len(forwarded) + 1 \in 1..Len(written)
      BY <1>3, <1>4
    <2>2. QED
      BY <2>1
  <1>6. Len(written) \in f..Len(written)
    BY <1>4
  <1>7. Pending = SubSeq(written, f, Len(written))
    BY <1>5 DEF Pending
  <1>8. Head(Pending) = written[f] /\ Tail(Pending) = SubSeq(written, f + 1, Len(written))
    BY <1>4, <1>6, <1>7, HeadTailOfSubSeq
  <1>9. Pending' = SubSeq(written, f + 1, Len(written))
    BY <1>3, <1>4, <1>5 DEF Pending
  <1>10. Pending # <<>>
    <2>1. \A i \in f..Len(written) : written[i] \in Seq(Byte)
      <3>1. \A i \in f..Len(written) : i \in 1..Len(written)
        BY <1>4
      <3>2. QED
        BY <1>4, <3>1, ElementOfSeq
    <2>2. Len(Pending) = Len(written) - f + 1
      BY <1>4, <1>6, <1>7, <2>1, SubSeqProperties
    <2>3. Len(Pending) # 0
      BY <1>4, <2>2
    <2>4. QED
      BY <2>3
  <1>11. QED
    BY <1>3, <1>5, <1>8, <1>9, <1>10

\* Nothing is pending.
LEMMA ChannelInit == Init => Channel!Init
  <1> SUFFICES ASSUME Init PROVE Channel!Init
    OBVIOUS
  <1>1. SubSeq(written, 1, 0) = <<>>
    BY SubSeqEmpty
  <1>2. Len(written) = 0 /\ Len(forwarded) + 1 = 1 /\ forwarded = <<>>
    BY DEF Init
  <1>3. QED
    BY <1>1, <1>2 DEF Channel!Init

\* All actions but these two leave what is pending alone.
LEMMA ChannelStep ==
  ASSUME IInv, LengthsFit, [Next]_vars
  PROVE  [Channel!Next]_<<Pending, forwarded>>
  <1>1. CASE UNCHANGED <<written, forwarded>>
    BY <1>1 DEF Pending
  <1>2. ASSUME NEW body \in Bodies, RunDequeue(body) PROVE Channel!Next
    BY <1>2, PutStep DEF Channel!Next, Channel!Put, Pending
  <1>3. CASE ParseMessage
    BY <1>3, GetStep DEF Channel!Next, Channel!Get, Pending
  <1>4. QED
    BY <1>1, <1>2, <1>3
       DEF Next, Run, RunHeader, RunBody, SendStray, Break, Read, ReadRecv, ParseSkip,
           ParseEnd, txVars, rxVars, vars

\* However the stream is cut into receives, whatever lies between the frames
\* and wherever the connection breaks: what is forwarded was written, each
\* message once, whole and in its order.
THEOREM ChannelImplemented == ASSUME LengthsFit PROVE Spec => Untouched
  <1>1. Init => Channel!Init
    BY ChannelInit
  <1>2. IInv /\ [Next]_vars => [Channel!Next]_<<Pending, forwarded>>
    BY ChannelStep
  <1>3. Spec => []IInv
    BY Invariance
  <1>4. QED
    BY <1>1, <1>2, <1>3, PTL DEF Spec, Untouched, Channel!Spec, Pending

-----------------------------------------------------------------------------
\* The messages in a sequence of bytes.

\* The messages from the i-th byte on, where at says which there are behind it.
CutAt(s, at, i) ==
  IF i + HeaderSize > Len(s) + 1 THEN <<>>
  ELSE IF s[i] # Delimiter THEN at[i + 1]
  ELSE LET end == i + HeaderSize + s[i + 1] * Base + s[i + 2]
       IN IF end > Len(s) + 1 THEN <<>>
          ELSE <<SubSeq(s, i + HeaderSize, end - 1)>> \o at[end]

\* The messages from each byte on.
Cuts(s) == CHOOSE at : at = [i \in 1..Len(s) + 1 |-> CutAt(s, at, i)]

\* Cut is the first of them.
LEMMA CutIsFirst == \A s : Cut(s) = Cuts(s)[1]
  BY DEF Cut, Cuts, CutAt

\* The end of a frame lies behind its beginning.
LEMMA EndBehind ==
  ASSUME NEW s \in Seq(Byte), NEW i \in 1..Len(s) + 1, i + HeaderSize <= Len(s) + 1
  PROVE  \E e \in Nat : /\ e = i + HeaderSize + s[i + 1] * Base + s[i + 2]
                        /\ e >= i + HeaderSize
  <1>1. i \in Nat /\ Len(s) \in Nat /\ HeaderSize = 3
    BY LenProperties DEF HeaderSize
  <1>2. s[i + 1] \in Nat /\ s[i + 2] \in Nat
    <2>1. i + 1 \in 1..Len(s) /\ i + 2 \in 1..Len(s)
      BY <1>1
    <2>2. QED
      BY <2>1, ElementOfSeq, ByteFacts
  <1>3. \A a, b \in Nat : a * b \in Nat
    OBVIOUS
  <1>4. PICK n \in Nat : n = s[i + 1] * Base
    <2>1. s[i + 1] * Base \in Nat
      BY <1>2, <1>3, ByteFacts
    <2>2. QED
      BY <2>1
  <1>5. PICK b \in Nat : b = s[i + 2]
    BY <1>2
  <1>6. i + 3 + n + b \in Nat /\ i + 3 + n + b >= i + 3
    BY <1>1
  <1>7. QED
    BY <1>1, <1>4, <1>5, <1>6

\* Only what is behind a byte matters.
LEMMA CutAgree ==
  ASSUME NEW s \in Seq(Byte), NEW i \in 1..Len(s) + 1, NEW f, NEW g,
         \A j \in i + 1..Len(s) + 1 : f[j] = g[j]
  PROVE  CutAt(s, f, i) = CutAt(s, g, i)
  <1>1. i \in Nat /\ Len(s) \in Nat /\ HeaderSize = 3
    BY LenProperties DEF HeaderSize
  <1>2. CASE i + HeaderSize > Len(s) + 1
    BY <1>2 DEF CutAt
  <1>3. CASE i + HeaderSize <= Len(s) + 1
    <2>1. i + 1 \in i + 1..Len(s) + 1 /\ ~(i + HeaderSize > Len(s) + 1)
      BY <1>1, <1>3
    <2>2. PICK e \in Nat : /\ e = i + HeaderSize + s[i + 1] * Base + s[i + 2]
                           /\ e >= i + HeaderSize
      BY <1>3, EndBehind
    <2>3. ~(e > Len(s) + 1) => e \in i + 1..Len(s) + 1
      BY <1>1, <2>2
    <2>4. \A h : CutAt(s, h, i) =
                   IF s[i] # Delimiter THEN h[i + 1]
                   ELSE IF e > Len(s) + 1 THEN <<>>
                   ELSE <<SubSeq(s, i + HeaderSize, e - 1)>> \o h[e]
      BY <2>1, <2>2 DEF CutAt
    <2>5. f[i + 1] = g[i + 1] /\ (~(e > Len(s) + 1) => f[e] = g[e])
      BY <2>1, <2>3
    <2>6. QED
      BY <2>4, <2>5
  <1>4. QED
    BY <1>1, <1>2, <1>3

\* The recursion is sound: it has a solution.
LEMMA CutsExist ==
  ASSUME NEW s \in Seq(Byte)
  PROVE  \E g : g = [i \in 1..Len(s) + 1 |-> CutAt(s, g, i)]
  <1> DEFINE n == Len(s) + 1
             From(i) == \E g : g = [j \in i..n |-> CutAt(s, g, j)]
             S == {i \in 1..n : From(i)}
  <1>1. n \in Nat /\ 1 \in 1..n
    BY LenProperties
  <1>2. ASSUME NEW i \in 1..n, i + 1..n \subseteq S PROVE i \in S
    <2>1. PICK g : g = [j \in i + 1..n |-> CutAt(s, g, j)]
      <3>1. CASE i < n
        <4>1. i + 1 \in i + 1..n
          BY <1>1, <3>1
        <4>2. QED
          BY <1>2, <4>1
      <3>2. CASE i = n
        <4>1. i + 1..n = {}
          BY <1>1, <3>2
        <4>2. \A f : [j \in i + 1..n |-> CutAt(s, f, j)] = [j \in {} |-> <<>>]
          BY <4>1
        <4>3. QED
          BY <4>2
      <3>3. QED
        BY <1>1, <3>1, <3>2
    <2> DEFINE h == [j \in i..n |-> IF j = i THEN CutAt(s, g, i) ELSE g[j]]
    <2>2. \A j \in i + 1..n : h[j] = g[j] /\ g[j] = CutAt(s, g, j)
      <3>1. \A j \in i + 1..n : j \in i..n /\ j # i
        BY <1>1
      <3>2. \A j \in i + 1..n : h[j] = g[j]
        BY <3>1
      <3>3. \A j \in i + 1..n : g[j] = CutAt(s, g, j)
        BY <2>1
      <3>4. QED
        BY <3>2, <3>3
    <2>3. ASSUME NEW j \in i..n PROVE h[j] = CutAt(s, h, j)
      <3>1. CutAt(s, h, j) = CutAt(s, g, j)
        <4>1. j \in 1..n /\ \A k \in j + 1..n : k \in i + 1..n
          BY <1>1
        <4>2. \A k \in j + 1..n : h[k] = g[k]
          BY <2>2, <4>1
        <4> HIDE DEF h
        <4>3. QED
          BY <4>1, <4>2, CutAgree
      <3>2. CASE j = i
        BY <3>1, <3>2
      <3>3. CASE j # i
        <4>1. j \in i + 1..n
          BY <1>1, <3>3
        <4>2. QED
          BY <2>2, <3>1, <4>1
      <3>4. QED
        BY <3>2, <3>3
    <2>4. h = [j \in i..n |-> CutAt(s, h, j)]
      <3>1. h = [j \in i..n |-> h[j]]
        OBVIOUS
      <3> HIDE DEF h
      <3>2. QED
        BY <2>3, <3>1
    <2> HIDE DEF h
    <2>5. QED
      BY <2>4
  <1>3. 1..n \subseteq S
    <2> HIDE DEF S, n
    <2>1. QED
      BY <1>1, <1>2, FromTheEnd
  <1>4. QED
    BY <1>1, <1>3

\* What Cuts is at a byte, in terms of the bytes behind it.
LEMMA CutsUnfold ==
  ASSUME NEW s \in Seq(Byte), NEW i \in 1..Len(s) + 1
  PROVE  Cuts(s)[i] = CutAt(s, Cuts(s), i)
  <1>1. Cuts(s) = [j \in 1..Len(s) + 1 |-> CutAt(s, Cuts(s), j)]
    BY CutsExist DEF Cuts
  <1>2. QED
    BY <1>1

\* They are sequences of messages.
LEMMA CutsTyped ==
  ASSUME NEW s \in Seq(Byte), NEW i \in 1..Len(s) + 1
  PROVE  Cuts(s)[i] \in Seq(Seq(Byte))
  <1> DEFINE n == Len(s) + 1
             S == {j \in 1..n : Cuts(s)[j] \in Seq(Seq(Byte))}
  <1>1. n \in Nat /\ Len(s) \in Nat
    BY LenProperties
  <1>2. ASSUME NEW j \in 1..n, j + 1..n \subseteq S PROVE j \in S
    <2>1. Cuts(s)[j] = CutAt(s, Cuts(s), j)
      BY CutsUnfold
    <2>2. CASE j + HeaderSize > n
      BY <2>1, <2>2, EmptySeq DEF CutAt
    <2>3. CASE j + HeaderSize <= n
      <3>1. j + 1 \in j + 1..n /\ ~(j + HeaderSize > n) /\ HeaderSize = 3
        BY <1>1, <2>3 DEF HeaderSize
      <3>2. PICK e \in Nat : /\ e = j + HeaderSize + s[j + 1] * Base + s[j + 2]
                             /\ e >= j + HeaderSize
        BY <2>3, EndBehind
      <3>3. CASE s[j] # Delimiter
        BY <1>2, <2>1, <3>1, <3>3 DEF CutAt
      <3>4. CASE s[j] = Delimiter /\ e > n
        BY <2>1, <3>1, <3>2, <3>4, EmptySeq DEF CutAt
      <3>5. CASE s[j] = Delimiter /\ ~(e > n)
        <4>1. e \in j + 1..n /\ j + 3 \in Nat \ {0} /\ e - 1 \in Nat /\ e - 1 <= Len(s)
          <5>1. e >= j + 3
            BY <3>1, <3>2
          <5>2. QED
            BY <1>1, <3>5, <5>1

        <4>2. SubSeq(s, j + HeaderSize, e - 1) \in Seq(Byte)
          BY <3>1, <4>1, PartTyped
        <4>3. Cuts(s)[e] \in Seq(Seq(Byte))
          BY <1>2, <4>1
        <4>4. Cuts(s)[j] = <<SubSeq(s, j + HeaderSize, e - 1)>> \o Cuts(s)[e]
          BY <2>1, <3>1, <3>2, <3>5 DEF CutAt
        <4>5. \A m \in Seq(Byte) : \A c \in Seq(Seq(Byte)) : <<m>> \o c \in Seq(Seq(Byte))
          OBVIOUS
        <4>6. QED
          BY <4>2, <4>3, <4>4, <4>5
      <3>6. QED
        BY <3>3, <3>4, <3>5
    <2>4. QED
      BY <1>1, <2>2, <2>3 DEF HeaderSize
  <1>3. 1..n \subseteq S
    <2> HIDE DEF S, n
    <2>1. QED
      BY <1>1, <1>2, FromTheEnd
  <1>4. QED
    BY <1>3

-----------------------------------------------------------------------------
\* The parser and Cut.

\* Whatever arrives later, the messages in all of it are those forwarded and
\* those that begin where the parser is.
CutInv ==
  \A t \in Seq(Byte) :
    Cuts(received \o t)[1] = forwarded \o Cuts(received \o t)[Place + 1]

\* Between two receives no message is left in the buffer.
StuckInv ==
  rx = "recv" /\ HeaderSize <= Len(buffer) =>
    buffer[1] = Delimiter /\ HeaderSize + (buffer[2] * Base + buffer[3]) > Len(buffer)

CutIInv == TypeOK /\ BufferInv /\ StuckInv /\ CutInv

\* The parser's place in what was received, whatever follows.
LEMMA PlaceIn ==
  ASSUME TypeOK, BufferInv, NEW t \in Seq(Byte)
  PROVE  /\ received \o t \in Seq(Byte) /\ Len(received \o t) = Len(received) + Len(t)
         /\ Len(t) \in Nat /\ Place \in Nat /\ Place <= Len(received)
         /\ Place + 1 \in 1..Len(received \o t) + 1
         /\ Len(buffer) - start_offset = Len(received) - Place
  <1>1. /\ Len(t) \in Nat /\ received \o t \in Seq(Byte)
        /\ Len(received \o t) = Len(received) + Len(t)
    BY Numbers, LenProperties, ConcatProperties
  <1>2. /\ Len(buffer) \in Nat /\ Len(received) \in Nat /\ start_offset \in Nat
        /\ start_offset <= Len(buffer) /\ Place \in Nat
    BY Numbers
  <1>3. Place <= Len(received) /\ Len(buffer) - start_offset = Len(received) - Place
    BY <1>2 DEF Place
  <1>4. Place + 1 \in 1..Len(received \o t) + 1
    <2>1. \A n, l, p \in Nat : p <= l => p + 1 \in 1..l + n + 1
      OBVIOUS
    <2>2. Place + 1 \in 1..Len(received) + Len(t) + 1
      BY <1>1, <1>2, <1>3, <2>1
    <2>3. QED
      BY <1>1, <2>2
  <1>5. QED
    BY <1>1, <1>2, <1>3, <1>4

\* The frame that Cut finds where the parser finds a header.
LEMMA SameHeader ==
  ASSUME TypeOK, BufferInv, NEW t \in Seq(Byte), start_offset + HeaderSize <= Len(buffer)
  PROVE  LET s == received \o t
             i == Place + 1
         IN  /\ i + HeaderSize <= Len(s) + 1
             /\ s[i] = buffer[start_offset + 1]
             /\ i + HeaderSize + s[i + 1] * Base + s[i + 2] = Place + 1 + HeaderSize + MsgSize
             /\ MsgSize \in Nat
  <1> DEFINE s == received \o t
             i == Place + 1
  <1>1. /\ start_offset + 3 <= Len(buffer) /\ HeaderSize = 3
        /\ start_offset \in Nat /\ Len(buffer) \in Nat /\ Len(received) \in Nat
    BY Numbers DEF HeaderSize
  <1>2. /\ Place \in Nat /\ Place <= Len(received) /\ Len(s) = Len(received) + Len(t)
        /\ Len(t) \in Nat /\ Len(buffer) - start_offset = Len(received) - Place
    BY PlaceIn
  <1>3. i + HeaderSize <= Len(s) + 1
    <2> HIDE DEF s
    <2>1. Place + 3 <= Len(received)
      BY <1>1, <1>2
    <2>2. QED
      BY <1>1, <1>2, <2>1
  <1>4. ASSUME NEW j \in {1, 2, 3} PROVE s[Place + j] = buffer[start_offset + j]
    <2>1. j \in Nat \ {0} /\ start_offset + j <= Len(buffer)
      BY <1>1
    <2>2. QED
      BY <2>1, ReceivedByte
  <1>5. /\ s[i] = buffer[start_offset + 1] /\ s[i + 1] = buffer[start_offset + 2]
        /\ s[i + 2] = buffer[start_offset + 3]
    <2>1. Place + 1 = i /\ Place + 2 = i + 1 /\ Place + 3 = i + 2
      BY <1>2
    <2> HIDE DEF s, i
    <2>2. QED
      BY <1>4, <2>1
  <1>6. /\ buffer[start_offset + 2] \in Nat /\ buffer[start_offset + 3] \in Nat
    <2>1. start_offset + 2 \in 1..Len(buffer) /\ start_offset + 3 \in 1..Len(buffer)
      BY <1>1
    <2>2. QED
      BY <2>1, Numbers, ElementOfSeq, ByteFacts
  <1>7. PICK a \in Nat : a = buffer[start_offset + 2] * Base
    <2>1. \A b, c \in Nat : b * c \in Nat
      OBVIOUS
    <2>2. QED
      BY <1>6, <2>1, ByteFacts
  <1>8. PICK b \in Nat : b = buffer[start_offset + 3]
    BY <1>6
  <1>9. MsgSize = a + b
    BY <1>7, <1>8 DEF MsgSize
  <1>10. i + HeaderSize + s[i + 1] * Base + s[i + 2] = i + HeaderSize + a + b
    BY <1>5, <1>7, <1>8
  <1>11. i + HeaderSize + a + b = Place + 1 + HeaderSize + MsgSize
    BY <1>1, <1>2, <1>9
  <1>12. QED
    BY <1>3, <1>5, <1>9, <1>10, <1>11

\* A byte that read skips, Cut skips.
LEMMA SkipCut ==
  ASSUME TypeOK, BufferInv, HeaderHere, ~AtDelimiter, NEW t \in Seq(Byte)
  PROVE  Cuts(received \o t)[Place + 1] = Cuts(received \o t)[Place + 1 + 1]
  <1> DEFINE s == received \o t
             i == Place + 1
  <1>1. start_offset + HeaderSize <= Len(buffer) /\ buffer[start_offset + 1] # Delimiter
    BY DEF HeaderHere, AtDelimiter
  <1>2. i + HeaderSize <= Len(s) + 1 /\ s[i] # Delimiter
    BY <1>1, SameHeader
  <1>3. ~(i + HeaderSize > Len(s) + 1)
    <2>1. i + HeaderSize \in Nat /\ Len(s) + 1 \in Nat
      BY PlaceIn, LenProperties DEF HeaderSize
    <2> HIDE DEF s, i
    <2>2. QED
      BY <1>2, <2>1
  <1>4. Cuts(s)[i] = CutAt(s, Cuts(s), i)
    BY PlaceIn, CutsUnfold
  <1>5. QED
    BY <1>2, <1>3, <1>4 DEF CutAt

\* A message that read forwards, Cut finds.
LEMMA MessageCut ==
  ASSUME TypeOK, BufferInv, HeaderHere, AtDelimiter, FrameEnd <= Len(buffer),
         NEW t \in Seq(Byte)
  PROVE  LET m == SubSeq(buffer, start_offset + HeaderSize + 1, FrameEnd)
             e == Place + 1 + HeaderSize + MsgSize
         IN  /\ m \in Seq(Byte) /\ e \in 1..Len(received \o t) + 1
             /\ Cuts(received \o t)[Place + 1] = <<m>> \o Cuts(received \o t)[e]
  <1> DEFINE s == received \o t
             i == Place + 1
             m == SubSeq(buffer, start_offset + HeaderSize + 1, FrameEnd)
             e == Place + 1 + HeaderSize + MsgSize
  <1>1. /\ start_offset + HeaderSize <= Len(buffer) /\ HeaderSize = 3
        /\ buffer[start_offset + 1] = Delimiter
    BY DEF HeaderHere, AtDelimiter, HeaderSize
  <1>2. /\ i + HeaderSize <= Len(s) + 1 /\ s[i] = Delimiter
        /\ i + HeaderSize + s[i + 1] * Base + s[i + 2] = e
    BY <1>1, SameHeader
  <1>3. /\ MsgSize \in Nat /\ FrameEnd = start_offset + 3 + MsgSize /\ FrameEnd \in Nat
        /\ start_offset \in Nat /\ Len(buffer) \in Nat
    BY HeaderNumbers
  <1>4. /\ s \in Seq(Byte) /\ Place \in Nat /\ Place <= Len(received)
        /\ Len(s) = Len(received) + Len(t) /\ Len(t) \in Nat /\ Len(received) \in Nat
        /\ Len(buffer) - start_offset = Len(received) - Place /\ i \in 1..Len(s) + 1
    BY PlaceIn, Numbers
  <1>5. /\ e \in Nat /\ e <= Len(received) + 1 /\ e \in 1..Len(s) + 1
        /\ ~(i + HeaderSize > Len(s) + 1) /\ ~(e > Len(s) + 1)
        /\ e - 1 = Place + 3 + MsgSize /\ e - 1 \in Nat /\ e - 1 <= Len(s)
    <2> HIDE DEF s
    <2>1. e \in Nat /\ e <= Len(received) + 1 /\ e - 1 = Place + 3 + MsgSize
      BY <1>1, <1>3, <1>4
    <2>2. i + HeaderSize <= e
      BY <1>1, <1>3, <1>4
    <2> HIDE DEF e
    <2>3. e \in 1..Len(s) + 1 /\ ~(e > Len(s) + 1) /\ e - 1 \in Nat /\ e - 1 <= Len(s)
      <3>1. /\ e \in Nat /\ e >= 1 /\ e <= Len(received) + 1
            /\ Len(s) = Len(received) + Len(t) /\ Len(received) \in Nat /\ Len(t) \in Nat
        BY <1>1, <1>4, <2>1, <2>2
      <3>2. QED
        BY <3>1
    <2>4. ~(i + HeaderSize > Len(s) + 1)
      BY <1>1, <1>2, <1>4
    <2>5. QED
      BY <2>1, <2>3, <2>4
  <1>6. Cuts(s)[i] = <<SubSeq(s, i + HeaderSize, e - 1)>> \o Cuts(s)[e]
    <2>1. Cuts(s)[i] = CutAt(s, Cuts(s), i)
      BY <1>4, CutsUnfold
    <2> HIDE DEF s, i, e
    <2>2. QED
      BY <1>2, <1>5, <2>1 DEF CutAt
  <1>7. m \in Seq(Byte) /\ SubSeq(s, i + HeaderSize, e - 1) = m
    <2>1. PICK a \in Nat \ {0} : a = i + HeaderSize
      <3>1. i + HeaderSize \in Nat \ {0}
        BY <1>1, <1>4
      <3>2. QED
        BY <3>1
    <2>2. PICK b \in Nat \ {0} : b = start_offset + HeaderSize + 1
      <3>1. start_offset + HeaderSize + 1 \in Nat \ {0}
        BY <1>1, <1>3
      <3>2. QED
        BY <3>1
    <2>3. PICK c \in Nat : c = e - 1 /\ c <= Len(s)
      BY <1>5
    <2> DEFINE x == SubSeq(s, a, c)
               y == SubSeq(buffer, b, FrameEnd)
    <2>4. /\ x \in Seq(Byte) /\ Len(x) = (IF a <= c THEN c - a + 1 ELSE 0)
          /\ \A k \in 1..c - a + 1 : x[k] = s[a + k - 1]
      <3>1. s \in Seq(Byte)
        BY <1>4
      <3> HIDE DEF s
      <3>2. QED
        BY <2>3, <3>1, PartTyped
    <2>5. /\ y \in Seq(Byte) /\ Len(y) = (IF b <= FrameEnd THEN FrameEnd - b + 1 ELSE 0)
          /\ \A k \in 1..FrameEnd - b + 1 : y[k] = buffer[b + k - 1]
      BY <1>3, Numbers, PartTyped
    <2>6. c - a + 1 = MsgSize /\ FrameEnd - b + 1 = MsgSize
      BY <1>1, <1>3, <1>4, <1>5, <2>1, <2>2, <2>3
    <2>7. Len(x) = MsgSize /\ Len(y) = MsgSize
      <3> HIDE DEF x, y
      <3>1. \A p \in Nat \ {0} : \A q \in Nat : q - p + 1 = MsgSize =>
              (IF p <= q THEN q - p + 1 ELSE 0) = MsgSize
        BY <1>3
      <3>2. Len(x) = MsgSize
        BY <2>4, <2>6, <3>1
      <3>3. Len(y) = MsgSize
        BY <1>3, <2>5, <2>6, <3>1
      <3>4. QED
        BY <3>2, <3>3

    <2>8. ASSUME NEW k \in 1..MsgSize PROVE x[k] = y[k]
      <3>1. PICK j \in Nat \ {0} : j = 3 + k
        <4>1. 3 + k \in Nat \ {0}
          BY <1>3
        <4>2. QED
          BY <4>1
      <3>2. a + k - 1 = Place + j /\ b + k - 1 = start_offset + j
        BY <1>1, <1>3, <1>4, <2>1, <2>2, <3>1
      <3>3. start_offset + j <= Len(buffer)
        BY <1>3, <3>1
      <3>4. s[Place + j] = buffer[start_offset + j]
        BY <3>3, ReceivedByte
      <3>5. x[k] = s[a + k - 1] /\ y[k] = buffer[b + k - 1]
        BY <2>4, <2>5, <2>6
      <3>6. QED
        BY <3>2, <3>4, <3>5
    <2>9. x = y
      <3> HIDE DEF x, y
      <3>1. QED
        BY <2>4, <2>5, <2>7, <2>8, SeqEqual
    <2>10. QED
      BY <2>1, <2>2, <2>3, <2>5, <2>9
  <1>8. QED
    BY <1>5, <1>6, <1>7

\* Between two receives nothing that Cut finds is left.
LEMMA StuckCut ==
  ASSUME TypeOK, BufferInv, StuckInv, rx = "recv"
  PROVE  Cuts(received)[Place + 1] = <<>>
  <1> DEFINE i == Place + 1
  <1>1. PICK t \in Seq(Byte) : t = <<>>
    BY EmptySeq
  <1>2. received \o t = received
    <2>1. received \in Seq(Byte)
      BY Numbers
    <2>2. QED
      BY <1>1, <2>1, ConcatEmptySeq
  <1>3. Place + 1 \in 1..Len(received) + 1 /\ Len(buffer) - start_offset = Len(received) - Place
    BY <1>2, PlaceIn
  <1>4. /\ start_offset = 0 /\ Place \in Nat /\ Len(received) \in Nat /\ Len(buffer) \in Nat
        /\ received \in Seq(Byte) /\ HeaderSize = 3
    BY Numbers DEF BufferInv, HeaderSize
  <1>5. Cuts(received)[i] = CutAt(received, Cuts(received), i)
    BY <1>3, <1>4, CutsUnfold
  <1>6. CASE i + HeaderSize > Len(received) + 1
    BY <1>5, <1>6 DEF CutAt
  <1>7. CASE ~(i + HeaderSize > Len(received) + 1)
    <2>1. start_offset + HeaderSize <= Len(buffer) /\ HeaderSize <= Len(buffer)
      BY <1>3, <1>4, <1>7
    <2>2. /\ received[i] = buffer[start_offset + 1]
          /\ i + HeaderSize + received[i + 1] * Base + received[i + 2]
               = Place + 1 + HeaderSize + MsgSize
          /\ MsgSize \in Nat
      <3> DEFINE s == received \o t
      <3>1. /\ s[i] = buffer[start_offset + 1]
            /\ i + HeaderSize + s[i + 1] * Base + s[i + 2]
                 = Place + 1 + HeaderSize + MsgSize
            /\ MsgSize \in Nat
        BY <2>1, SameHeader
      <3>2. s = received
        BY <1>2
      <3> HIDE DEF s, i
      <3>3. QED
        BY <3>1, <3>2
    <2>3. start_offset + 1 = 1 /\ start_offset + 2 = 2 /\ start_offset + 3 = 3
      BY <1>4
    <2>4. MsgSize = buffer[2] * Base + buffer[3]
      BY <2>3 DEF MsgSize
    <2>5. buffer[1] = Delimiter /\ HeaderSize + MsgSize > Len(buffer)
      BY <2>1, <2>4 DEF StuckInv
    <2>6. received[i] = Delimiter
      BY <2>2, <2>3, <2>5
    <2>7. Place + 1 + HeaderSize + MsgSize > Len(received) + 1
      BY <1>3, <1>4, <2>2, <2>5
    <2>8. QED
      BY <1>5, <1>7, <2>2, <2>6, <2>7 DEF CutAt
  <1>8. QED
    BY <1>6, <1>7

\* Reading ends a round where it can find no further message.
LEMMA StuckStep == ASSUME TypeOK, BufferInv, StuckInv, Next PROVE StuckInv'
  <1>1. CASE UNCHANGED rxVars
    BY <1>1 DEF StuckInv, rxVars
  <1>2. CASE \/ \E n \in 1..Len(stream) : ReadRecv(n)
             \/ ParseSkip \/ ParseMessage
    BY <1>2 DEF ReadRecv, ParseSkip, ParseMessage, HeaderHere, StuckInv
  <1>3. CASE ParseEnd
    <2>1. /\ Len(buffer') = Len(buffer) - start_offset
          /\ \A k \in 1..Len(buffer') : buffer'[k] = buffer[start_offset + k]
      BY <1>3, Rest
    <2>2. start_offset \in Nat /\ Len(buffer) \in Nat /\ start_offset <= Len(buffer)
      BY Numbers
    <2>3. PICK l \in Nat : l = Len(buffer')
      <3>1. Len(buffer) - start_offset \in Nat
        BY <2>2
      <3>2. QED
        BY <2>1, <3>1
    <2>4. SUFFICES ASSUME 3 <= l
          PROVE buffer'[1] = Delimiter /\ 3 + (buffer'[2] * Base + buffer'[3]) > l
      BY <2>3 DEF StuckInv, HeaderSize
    <2>5. HeaderHere
      <3>1. start_offset + 3 <= Len(buffer)
        BY <2>1, <2>2, <2>3, <2>4
      <3>2. QED
        BY <1>3, <3>1 DEF HeaderHere, HeaderSize, ParseEnd
    <2>6. AtDelimiter /\ FrameEnd > Len(buffer)
      BY <1>3, <2>5 DEF ParseEnd, Stuck
    <2>7. /\ buffer'[1] = buffer[start_offset + 1] /\ buffer'[2] = buffer[start_offset + 2]
          /\ buffer'[3] = buffer[start_offset + 3]
      <3>1. 1 \in 1..l /\ 2 \in 1..l /\ 3 \in 1..l
        BY <2>4
      <3>2. QED
        BY <2>1, <2>3, <3>1
    <2>8. MsgSize = buffer'[2] * Base + buffer'[3] /\ MsgSize \in Nat
          /\ FrameEnd = start_offset + 3 + MsgSize
      BY <2>5, <2>7, HeaderNumbers DEF MsgSize
    <2>9. 3 + MsgSize > l
      BY <2>1, <2>2, <2>3, <2>6, <2>8
    <2>10. QED
      BY <2>6, <2>7, <2>8, <2>9 DEF AtDelimiter
  <1>4. QED
    BY <1>1, <1>2, <1>3
       DEF Next, Run, RunDequeue, RunHeader, RunBody, SendStray, Break, Read

\* Each step of read is a step of Cut or none.
LEMMA CutStep == ASSUME TypeOK, BufferInv, CutInv, Next PROVE CutInv'
  <1>1. CASE UNCHANGED rxVars
    <2>1. received' = received /\ forwarded' = forwarded /\ Place' = Place
      BY <1>1 DEF rxVars, Place
    <2>2. QED
      BY <2>1 DEF CutInv
  <1>2. ASSUME NEW n \in 1..Len(stream), ReadRecv(n) PROVE CutInv'
    <2> DEFINE x == SubSeq(stream, 1, n)
    <2>1. /\ n \in Nat /\ x \in Seq(Byte) /\ received' = received \o x
          /\ Len(buffer') = Len(buffer) + n /\ Len(received') = Len(received) + n
      BY <1>2, Taken
    <2>2. forwarded' = forwarded /\ start_offset' = start_offset
      BY <1>2 DEF ReadRecv
    <2>3. Place' = Place
      <3>1. \A a, b, c \in Nat : (a + n) - (b + n) + c = a - b + c
        BY <2>1
      <3>2. Place' = (Len(received) + n) - (Len(buffer) + n) + start_offset
        BY <2>1, <2>2 DEF Place
      <3>3. QED
        BY <3>1, <3>2, Numbers DEF Place
    <2> HIDE DEF x
    <2>4. ASSUME NEW t \in Seq(Byte)
          PROVE Cuts(received' \o t)[1] = forwarded \o Cuts(received' \o t)[Place + 1]
      <3>1. x \o t \in Seq(Byte)
        BY <2>1, ConcatProperties
      <3>2. received' \o t = received \o (x \o t)
        <4>1. \A s, u, v \in Seq(Byte) : (s \o u) \o v = s \o (u \o v)
          BY ConcatAssociative
        <4>2. received \in Seq(Byte)
          BY Numbers
        <4>3. (received \o x) \o t = received \o (x \o t)
          BY <2>1, <4>1, <4>2
        <4>4. QED
          BY <2>1, <4>3

      <3>3. QED
        BY <3>1, <3>2 DEF CutInv
    <2>5. QED
      BY <2>2, <2>3, <2>4 DEF CutInv
  <1>3. CASE ParseSkip
    <2>1. /\ HeaderHere /\ ~AtDelimiter /\ start_offset' = start_offset + 1
          /\ buffer' = buffer /\ received' = received /\ forwarded' = forwarded
      BY <1>3 DEF ParseSkip
    <2>2. Place' = Place + 1
      <3>1. \A a, b, c \in Nat : a - b + (c + 1) = a - b + c + 1
        OBVIOUS
      <3>2. Place' = Len(received) - Len(buffer) + (start_offset + 1)
        BY <2>1 DEF Place
      <3>3. /\ Place = Len(received) - Len(buffer) + start_offset
            /\ Len(received) \in Nat /\ Len(buffer) \in Nat /\ start_offset \in Nat
        BY Numbers DEF Place
      <3>4. QED
        BY <3>1, <3>2, <3>3

    <2>3. ASSUME NEW t \in Seq(Byte)
          PROVE Cuts(received \o t)[1] = forwarded \o Cuts(received \o t)[Place + 1 + 1]
      BY <2>1, SkipCut DEF CutInv
    <2>4. QED
      BY <2>1, <2>2, <2>3 DEF CutInv
  <1>4. CASE ParseMessage
    <2> DEFINE m == SubSeq(buffer, start_offset + HeaderSize + 1, FrameEnd)
               e == Place + 1 + HeaderSize + MsgSize
    <2>1. /\ HeaderHere /\ AtDelimiter /\ FrameEnd <= Len(buffer)
          /\ start_offset' = FrameEnd /\ forwarded' = Append(forwarded, m)
          /\ buffer' = buffer /\ received' = received
      BY <1>4 DEF ParseMessage
    <2>2. Place' + 1 = e
      <3>1. /\ FrameEnd = start_offset + 3 + MsgSize /\ MsgSize \in Nat
        BY <2>1, HeaderNumbers
      <3>2. \A a, b, c \in Nat :
              a - b + (c + 3 + MsgSize) + 1 = a - b + c + 1 + 3 + MsgSize
        BY <3>1
      <3>3. Place' + 1 = Len(received) - Len(buffer) + (start_offset + 3 + MsgSize) + 1
        BY <2>1, <3>1 DEF Place
      <3>4. /\ Place = Len(received) - Len(buffer) + start_offset /\ HeaderSize = 3
            /\ Len(received) \in Nat /\ Len(buffer) \in Nat /\ start_offset \in Nat
        BY Numbers DEF Place, HeaderSize
      <3>5. QED
        BY <3>2, <3>3, <3>4
    <2>3. ASSUME NEW t \in Seq(Byte)
          PROVE Cuts(received \o t)[1] = Append(forwarded, m) \o Cuts(received \o t)[e]
      <3> DEFINE c == Cuts(received \o t)
      <3>1. /\ m \in Seq(Byte) /\ e \in 1..Len(received \o t) + 1
            /\ c[Place + 1] = <<m>> \o c[e]
        BY <2>1, MessageCut
      <3>2. c[1] = forwarded \o (<<m>> \o c[e])
        BY <3>1 DEF CutInv
      <3>3. c[e] \in Seq(Seq(Byte))
        BY <3>1, PlaceIn, CutsTyped
      <3>4. forwarded \in Seq(Seq(Byte)) /\ <<m>> \in Seq(Seq(Byte))
        BY <3>1 DEF TypeOK
      <3>5. Append(forwarded, m) = forwarded \o <<m>>
        BY <3>1, <3>4, AppendIsConcat
      <3> HIDE DEF c, m, e
      <3>6. (forwarded \o <<m>>) \o c[e] = forwarded \o (<<m>> \o c[e])
        <4>1. \A s, u, v \in Seq(Seq(Byte)) : (s \o u) \o v = s \o (u \o v)
          BY ConcatAssociative
        <4>2. QED
          BY <3>3, <3>4, <4>1

      <3>7. QED
        BY <3>2, <3>5, <3>6 DEF c
    <2>4. QED
      BY <2>1, <2>2, <2>3 DEF CutInv
  <1>5. CASE ParseEnd
    <2>1. received' = received /\ forwarded' = forwarded
      BY <1>5 DEF ParseEnd
    <2>2. Place' = Place
      <3>1. Len(buffer') = Len(buffer) - start_offset /\ start_offset' = 0
        BY <1>5, Rest
      <3>2. \A a, b, c \in Nat : a - (b - c) + 0 = a - b + c
        OBVIOUS
      <3>3. Place' = Len(received) - (Len(buffer) - start_offset) + 0
        BY <2>1, <3>1 DEF Place
      <3>4. QED
        BY <3>2, <3>3, Numbers DEF Place
    <2>3. QED
      BY <2>1, <2>2 DEF CutInv
  <1>6. QED
    BY <1>1, <1>2, <1>3, <1>4, <1>5
       DEF Next, Run, RunDequeue, RunHeader, RunBody, SendStray, Break, Read

\* Nothing has been received.
LEMMA CutInit == Init => CutIInv
  <1> SUFFICES ASSUME Init PROVE CutIInv
    OBVIOUS
  <1>1. TypeOK
    BY TypeInit
  <1>2. /\ received = <<>> /\ buffer = <<>> /\ forwarded = <<>> /\ start_offset = 0
        /\ Len(<<>>) = 0
    BY DEF Init
  <1>3. BufferInv /\ StuckInv
    <2>1. 1..0 = {}
      OBVIOUS
    <2>2. QED
      BY <1>2, <2>1 DEF BufferInv, StuckInv, HeaderSize
  <1>4. CutInv
    <2>1. Place + 1 = 1
      BY <1>2 DEF Place
    <2>2. ASSUME NEW t \in Seq(Byte)
          PROVE  Cuts(received \o t)[1] = forwarded \o Cuts(received \o t)[1]
      <3>1. Cuts(received \o t)[1] \in Seq(Seq(Byte))
        BY <1>1, <1>3, <2>1, PlaceIn, CutsTyped
      <3>2. QED
        BY <1>2, <3>1, ConcatEmptySeq
    <2>3. QED
      BY <2>1, <2>2 DEF CutInv
  <1>5. QED
    BY <1>1, <1>3, <1>4 DEF CutIInv

\* Every step preserves all four parts.
LEMMA CutIInvStep == ASSUME CutIInv, [Next]_vars PROVE CutIInv'
  <1>1. TypeOK /\ BufferInv /\ StuckInv /\ CutInv
    BY DEF CutIInv
  <1>2. CASE UNCHANGED vars
    <2>1. TypeOK'
      BY <1>1, TypeStep
    <2>2. received' = received /\ forwarded' = forwarded /\ Place' = Place
      BY <1>2 DEF vars, rxVars, Place
    <2>3. BufferInv' /\ StuckInv'
      BY <1>1, <1>2 DEF vars, rxVars, BufferInv, StuckInv
    <2>4. CutInv'
      BY <1>1, <2>2 DEF CutInv
    <2>5. QED
      BY <2>1, <2>3, <2>4 DEF CutIInv
  <1>3. CASE Next
    BY <1>1, <1>3, TypeStep, BufferStep, StuckStep, CutStep DEF CutIInv
  <1>4. QED
    BY <1>2, <1>3

\* In between two receives the rest yields no message.
LEMMA CutAfterRound == CutIInv => ChunksDoNotMatter
  <1> SUFFICES ASSUME CutIInv, rx = "recv" PROVE forwarded = Cut(received)
    BY DEF ChunksDoNotMatter
  <1>1. TypeOK /\ BufferInv /\ StuckInv /\ CutInv
    BY DEF CutIInv
  <1>2. received \in Seq(Byte) /\ forwarded \in Seq(Seq(Byte))
    BY <1>1, Numbers DEF TypeOK
  <1>3. Cuts(received)[1] = forwarded \o Cuts(received)[Place + 1]
    <2>1. PICK t \in Seq(Byte) : t = <<>>
      BY EmptySeq
    <2>2. received \o t = received
      BY <1>2, <2>1, ConcatEmptySeq
    <2>3. Cuts(received \o t)[1] = forwarded \o Cuts(received \o t)[Place + 1]
      BY <1>1 DEF CutInv
    <2>4. QED
      BY <2>2, <2>3
  <1>4. Cuts(received)[Place + 1] = <<>>
    BY <1>1, StuckCut
  <1>5. forwarded \o <<>> = forwarded
    BY <1>2, ConcatEmptySeq
  <1>6. QED
    BY <1>3, <1>4, <1>5, CutIsFirst

\* However the bytes were cut into receives, and whatever they are, read has
\* between two receives forwarded the messages in all of them.
THEOREM CutsDoNotMatter == Spec => []ChunksDoNotMatter
  <1>1. CutIInv /\ [Next]_vars => CutIInv'
    BY CutIInvStep
  <1>2. QED
    BY <1>1, CutInit, CutAfterRound, PTL DEF Spec
=============================================================================
