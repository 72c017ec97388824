-------------------------- MODULE ProxyPlaceProofs --------------------------
(***************************************************************************)
(* Proofs about Proxy, for any number of messages and requests: every      *)
(* message sent is in exactly one place, and the commands and the requests *)
(* keep their order to the end; so Proxy implements Carrier.               *)
(*                                                                         *)
(* The places are of two kinds: lines, which are sequences, and pools,     *)
(* which are sets.  A step takes a message from a place and puts it into   *)
(* another, or puts a new one into a place.  For the order, the places the *)
(* commands pass are numbered from the far end: a step moves a message to  *)
(* the next smaller number, or a new one in behind all others.  With both, *)
(* every step is one of Carrier, or of no concern to it.                   *)
(***************************************************************************)
EXTENDS ProxyProofs, FiniteSetTheorems, SequenceTheorems

At(kind)   == <<kind, 0>>
LinePlaces == {At("out"), At("delivered")}
                \cup {"queue"} \X QueueBlocks \cup {"stream"} \X Streams
PoolPlaces == {At("net"), At("inbound"), At("lost"), At("dropped")}

\* The messages in each place: q, st, o, dl and n, ib, ls, dr stand for queue,
\* stream, out, delivered and net, inbound, lost, dropped.
LineOf(q, st, o, dl) ==
  [c \in LinePlaces |->
     IF c[1] = "queue" THEN BodiesOf(q[c[2]])
     ELSE IF c[1] = "stream" THEN st[c[2]]
     ELSE IF c[1] = "out" THEN o
     ELSE BodiesOf(dl)]
PoolOf(n, ib, ls, dr) ==
  [c \in PoolPlaces |->
     IF c = At("net") THEN {d.body : d \in n}
     ELSE IF c = At("inbound") THEN ib
     ELSE IF c = At("lost") THEN ls ELSE dr]

Line == LineOf(queue, stream, out, delivered)
Pool == PoolOf(net, inbound, lost, dropped)

\* What has been sent, and nothing else, is in some place, and in one only.
WellPlaced(L, P, S) ==
  /\ \A x \in S : \/ \E c \in LinePlaces : \E i \in DOMAIN L[c] : L[c][i] = x
                  \/ \E c \in PoolPlaces : x \in P[c]
  /\ \A c \in LinePlaces : \A i \in DOMAIN L[c] : L[c][i] \in S
  /\ \A c \in PoolPlaces : P[c] \subseteq S
  /\ \A c, d \in LinePlaces : \A i \in DOMAIN L[c], j \in DOMAIN L[d] :
       L[c][i] = L[d][j] => c = d /\ i = j
  /\ \A c \in LinePlaces, d \in PoolPlaces : \A i \in DOMAIN L[c] : L[c][i] \notin P[d]
  /\ \A c, d \in PoolPlaces : c # d => P[c] \cap P[d] = {}

-----------------------------------------------------------------------------
\* Taking a message from a place and putting it into one.

LineTakes(L, c, x, L1) == L[c] # <<>> /\ x = Head(L[c]) /\ L1 = [L EXCEPT ![c] = Tail(@)]
PoolTakes(P, c, x, P1) == x \in P[c] /\ P1 = [P EXCEPT ![c] = @ \ {x}]
LinePuts(L, c, x, L1)  == L1 = [L EXCEPT ![c] = Append(@, x)]
PoolPuts(P, c, x, P1)  == P1 = [P EXCEPT ![c] = @ \cup {x}]

AllLines == [LinePlaces -> Seq(Bodies)]
AllPools == [PoolPlaces -> SUBSET Bodies]

\* What is left of a sequence without its head, and what an end adds to it.
LEMMA TailFacts ==
  ASSUME NEW T, NEW s \in Seq(T), s # <<>>
  PROVE  /\ Tail(s) \in Seq(T) /\ Head(s) = s[1] /\ 1 \in DOMAIN s
         /\ \A i \in DOMAIN Tail(s) : i + 1 # 1 /\ i + 1 \in DOMAIN s /\ Tail(s)[i] = s[i + 1]
         /\ \A i \in DOMAIN s : i # 1 => i - 1 \in DOMAIN Tail(s) /\ Tail(s)[i - 1] = s[i]
         /\ DOMAIN s \subseteq Nat
         /\ \A i, j \in DOMAIN Tail(s) : i + 1 = j + 1 => i = j
  OBVIOUS

\* What appending to a sequence adds to it.
LEMMA AppendFacts ==
  ASSUME NEW T, NEW s \in Seq(T), NEW x \in T
  PROVE  /\ Append(s, x) \in Seq(T)
         /\ Len(s) + 1 \in DOMAIN Append(s, x) /\ Append(s, x)[Len(s) + 1] = x
         /\ \A i \in DOMAIN s : i \in DOMAIN Append(s, x) /\ Append(s, x)[i] = s[i]
         /\ \A i \in DOMAIN Append(s, x) : i \in DOMAIN s \/ i = Len(s) + 1
         /\ DOMAIN s \subseteq Nat /\ \A i \in DOMAIN s : i < Len(s) + 1
  OBVIOUS

\* The four steps keep what is sent well placed: the message taken is in no place
\* any more, and a message in no place can be put into one.
LEMMA LineTaken ==
  ASSUME NEW L \in AllLines, NEW P \in AllPools, NEW S, WellPlaced(L, P, S),
         NEW c \in LinePlaces, NEW x, NEW L1, LineTakes(L, c, x, L1)
  PROVE  L1 \in AllLines /\ x \in S /\ x \in Bodies /\ WellPlaced(L1, P, S \ {x})
  <1>1. /\ L[c] \in Seq(Bodies) /\ L[c] # <<>> /\ x = Head(L[c])
        /\ L1 = [L EXCEPT ![c] = Tail(@)]
    BY DEF LineTakes, AllLines
  <1>2. /\ Tail(L[c]) \in Seq(Bodies) /\ x = L[c][1] /\ 1 \in DOMAIN L[c]
        /\ \A i \in DOMAIN Tail(L[c]) :
             i + 1 # 1 /\ i + 1 \in DOMAIN L[c] /\ Tail(L[c])[i] = L[c][i + 1]
        /\ \A i \in DOMAIN L[c] : i # 1 => /\ i - 1 \in DOMAIN Tail(L[c])
                                           /\ Tail(L[c])[i - 1] = L[c][i]
        /\ \A i, j \in DOMAIN Tail(L[c]) : i + 1 = j + 1 => i = j
    BY <1>1, TailFacts
  <1>3. /\ L1 \in AllLines /\ L1[c] = Tail(L[c])
        /\ \A d \in LinePlaces : d # c => L1[d] = L[d]
    BY <1>1, <1>2 DEF AllLines
  <1>4. x \in S /\ x \in Bodies
    BY <1>1, <1>2 DEF WellPlaced
  <1> DEFINE Old(d, i) == IF d = c THEN i + 1 ELSE i
  <1>5. \A d \in LinePlaces : \A i \in DOMAIN L1[d] :
          /\ Old(d, i) \in DOMAIN L[d] /\ L1[d][i] = L[d][Old(d, i)]
          /\ d = c => Old(d, i) # 1
    BY <1>2, <1>3
  <1>6. \A d \in LinePlaces : \A i, j \in DOMAIN L1[d] : Old(d, i) = Old(d, j) => i = j
    BY <1>2, <1>3
  <1>7. \A d \in LinePlaces : \A i \in DOMAIN L1[d] : L1[d][i] # x
    BY <1>2, <1>5 DEF WellPlaced
  <1>8. \A y \in S \ {x} : \/ \E d \in LinePlaces : \E i \in DOMAIN L1[d] : L1[d][i] = y
                           \/ \E d \in PoolPlaces : y \in P[d]
    <2>1. ASSUME NEW y \in S \ {x}, NEW d \in LinePlaces, NEW i \in DOMAIN L[d], L[d][i] = y
          PROVE  \E j \in DOMAIN L1[d] : L1[d][j] = y
      <3>1. CASE d = c
        <4>1. i # 1
          BY <1>2, <2>1, <3>1
        <4>2. i - 1 \in DOMAIN Tail(L[c]) /\ Tail(L[c])[i - 1] = y
          BY <1>2, <2>1, <3>1, <4>1
        <4>3. QED
          BY <1>3, <3>1, <4>2
      <3>2. CASE d # c
        BY <1>3, <2>1, <3>2
      <3>3. QED
        BY <3>1, <3>2
    <2>2. QED
      BY <2>1 DEF WellPlaced
  <1>9. \A d \in PoolPlaces : x \notin P[d]
    BY <1>2 DEF WellPlaced
  <1> HIDE DEF Old
  <1>10. WellPlaced(L1, P, S \ {x})
    <2>1. \A d \in LinePlaces : \A i \in DOMAIN L1[d] : L1[d][i] \in S \ {x}
      BY <1>5, <1>7 DEF WellPlaced
    <2>2. \A d \in PoolPlaces : P[d] \subseteq S \ {x}
      BY <1>9 DEF WellPlaced
    <2>3. ASSUME NEW d \in LinePlaces, NEW e \in LinePlaces, NEW i \in DOMAIN L1[d],
                 NEW j \in DOMAIN L1[e], L1[d][i] = L1[e][j]
          PROVE  d = e /\ i = j
      <3>1. d = e /\ Old(d, i) = Old(e, j)
        BY <1>5, <2>3 DEF WellPlaced
      <3>2. QED
        BY <1>6, <3>1
    <2>4. \A d \in LinePlaces, e \in PoolPlaces : \A i \in DOMAIN L1[d] : L1[d][i] \notin P[e]
      BY <1>5 DEF WellPlaced
    <2>5. \A d, e \in PoolPlaces : d # e => P[d] \cap P[e] = {}
      BY DEF WellPlaced
    <2>6. QED
      BY <1>8, <2>1, <2>2, <2>3, <2>4, <2>5 DEF WellPlaced
  <1>11. QED
    BY <1>3, <1>4, <1>10

\* Taking a message from a pool.
LEMMA PoolTaken ==
  ASSUME NEW L \in AllLines, NEW P \in AllPools, NEW S, WellPlaced(L, P, S),
         NEW c \in PoolPlaces, NEW x, NEW P1, PoolTakes(P, c, x, P1)
  PROVE  P1 \in AllPools /\ x \in S /\ x \in Bodies /\ WellPlaced(L, P1, S \ {x})
  <1>1. /\ P1 \in AllPools /\ P1[c] = P[c] \ {x} /\ x \in P[c]
        /\ \A d \in PoolPlaces : d # c => P1[d] = P[d]
    BY DEF PoolTakes, AllPools
  <1>2. x \in S /\ x \in Bodies
    BY <1>1 DEF WellPlaced, AllPools
  <1>3. /\ \A d \in LinePlaces : \A i \in DOMAIN L[d] : L[d][i] # x
        /\ \A d \in PoolPlaces : x \notin P1[d] /\ P1[d] \subseteq P[d]
    BY <1>1 DEF WellPlaced
  <1>4. \A d \in PoolPlaces : \A y \in P[d] : y # x => y \in P1[d]
    BY <1>1
  <1>5. WellPlaced(L, P1, S \ {x})
    BY <1>3, <1>4 DEF WellPlaced
  <1>6. QED
    BY <1>1, <1>2, <1>5

\* Putting a message into a line.
LEMMA LinePut ==
  ASSUME NEW L \in AllLines, NEW P \in AllPools, NEW S, WellPlaced(L, P, S),
         NEW c \in LinePlaces, NEW x \in Bodies, x \notin S, NEW L1, LinePuts(L, c, x, L1)
  PROVE  L1 \in AllLines /\ WellPlaced(L1, P, S \cup {x})
  <1>1. L[c] \in Seq(Bodies) /\ L1 = [L EXCEPT ![c] = Append(@, x)]
    BY DEF LinePuts, AllLines
  <1> DEFINE n == Len(L[c]) + 1
  <1>2. /\ Append(L[c], x) \in Seq(Bodies)
        /\ n \in DOMAIN Append(L[c], x) /\ Append(L[c], x)[n] = x
        /\ \A i \in DOMAIN L[c] : i \in DOMAIN Append(L[c], x) /\ Append(L[c], x)[i] = L[c][i]
        /\ \A i \in DOMAIN Append(L[c], x) : i \in DOMAIN L[c] \/ i = n
    BY <1>1, AppendFacts
  <1>3. /\ L1 \in AllLines /\ L1[c] = Append(L[c], x)
        /\ \A d \in LinePlaces : d # c => L1[d] = L[d]
    BY <1>1, <1>2 DEF AllLines
  <1> HIDE DEF n
  <1>4. \A d \in LinePlaces : \A i \in DOMAIN L[d] : i \in DOMAIN L1[d] /\ L1[d][i] = L[d][i]
    BY <1>2, <1>3
  <1>5. \A d \in LinePlaces : \A i \in DOMAIN L1[d] :
          \/ i \in DOMAIN L[d] /\ L1[d][i] = L[d][i]
          \/ d = c /\ i = n /\ L1[d][i] = x
    BY <1>2, <1>3
  <1>6. \A d \in LinePlaces : \A i \in DOMAIN L[d] : L[d][i] # x
    BY DEF WellPlaced
  <1>7. WellPlaced(L1, P, S \cup {x})
    <2>1. \A y \in S \cup {x} : \/ \E d \in LinePlaces : \E i \in DOMAIN L1[d] : L1[d][i] = y
                                \/ \E d \in PoolPlaces : y \in P[d]
      <3>1. n \in DOMAIN L1[c] /\ L1[c][n] = x
        BY <1>2, <1>3
      <3>2. QED
        BY <1>4, <3>1 DEF WellPlaced
    <2>2. \A d \in LinePlaces : \A i \in DOMAIN L1[d] : L1[d][i] \in S \cup {x}
      BY <1>5 DEF WellPlaced
    <2>3. \A d \in PoolPlaces : P[d] \subseteq S \cup {x}
      BY DEF WellPlaced
    <2>4. ASSUME NEW d \in LinePlaces, NEW e \in LinePlaces, NEW i \in DOMAIN L1[d],
                 NEW j \in DOMAIN L1[e], L1[d][i] = L1[e][j]
          PROVE  d = e /\ i = j
      BY <1>5, <1>6, <2>4 DEF WellPlaced
    <2>5. \A d \in LinePlaces, e \in PoolPlaces : \A i \in DOMAIN L1[d] : L1[d][i] \notin P[e]
      BY <1>5 DEF WellPlaced
    <2>6. \A d, e \in PoolPlaces : d # e => P[d] \cap P[e] = {}
      BY DEF WellPlaced
    <2>7. QED
      BY <2>1, <2>2, <2>3, <2>4, <2>5, <2>6 DEF WellPlaced
  <1>8. QED
    BY <1>3, <1>7

\* Putting a message into a pool.
LEMMA PoolPut ==
  ASSUME NEW L \in AllLines, NEW P \in AllPools, NEW S, WellPlaced(L, P, S),
         NEW c \in PoolPlaces, NEW x \in Bodies, x \notin S, NEW P1, PoolPuts(P, c, x, P1)
  PROVE  P1 \in AllPools /\ WellPlaced(L, P1, S \cup {x})
  <1>1. /\ P1 \in AllPools /\ P1[c] = P[c] \cup {x}
        /\ \A d \in PoolPlaces : d # c => P1[d] = P[d]
    BY DEF PoolPuts, AllPools
  <1>2. \A d \in PoolPlaces : P[d] \subseteq P1[d] /\ x \notin P[d]
    BY <1>1 DEF WellPlaced
  <1>3. \A d \in LinePlaces : \A i \in DOMAIN L[d] : L[d][i] # x
    BY DEF WellPlaced
  <1>4. \A d \in PoolPlaces : \A y \in P1[d] : y \in P[d] \/ (d = c /\ y = x)
    BY <1>1
  <1>5. WellPlaced(L, P1, S \cup {x})
    BY <1>1, <1>2, <1>3, <1>4 DEF WellPlaced
  <1>6. QED
    BY <1>1, <1>5

-----------------------------------------------------------------------------
\* The variables as lines and pools.

\* The lines by their names; no pool is one of them.
LEMMA PlaceNames ==
  /\ \A c \in LinePlaces : \/ c = At("out")
                           \/ c = At("delivered")
                           \/ \E b \in QueueBlocks : c = <<"queue", b>>
                           \/ \E s \in Streams : c = <<"stream", s>>
  /\ \A b \in QueueBlocks : <<"queue", b>> \in LinePlaces
  /\ \A s \in Streams : <<"stream", s>> \in LinePlaces
  /\ At("out") \in LinePlaces /\ At("delivered") \in LinePlaces
  /\ LinePlaces \cap PoolPlaces = {}
  <1>1. \A b \in QueueBlocks : <<"queue", b>> \in LinePlaces
    BY DEF LinePlaces
  <1>2. \A s \in Streams : <<"stream", s>> \in LinePlaces
    BY DEF LinePlaces
  <1>3. /\ At("out") \in LinePlaces /\ At("delivered") \in LinePlaces
    BY DEF LinePlaces
  <1>4. \A c \in LinePlaces : \/ c = At("out")
                              \/ c = At("delivered")
                              \/ \E b \in QueueBlocks : c = <<"queue", b>>
                              \/ \E s \in Streams : c = <<"stream", s>>
    <2>1. \A c \in {"queue"} \X QueueBlocks : \E b \in QueueBlocks : c = <<"queue", b>>
      OBVIOUS
    <2>2. \A c \in {"stream"} \X Streams : \E s \in Streams : c = <<"stream", s>>
      OBVIOUS
    <2>3. QED
      BY <2>1, <2>2 DEF LinePlaces
  <1>5. \A c \in PoolPlaces : c[1] \in {"net", "inbound", "lost", "dropped"}
    BY DEF PoolPlaces, At
  <1>6. \A c \in LinePlaces : c[1] \in {"out", "delivered", "queue", "stream"}
    BY <1>4 DEF At
  <1>7. LinePlaces \cap PoolPlaces = {}
    BY <1>5, <1>6
  <1>8. QED
    BY <1>1, <1>2, <1>3, <1>4, <1>7

\* What is in each line.
LEMMA LineValues ==
  ASSUME NEW q, NEW st, NEW o, NEW dl
  PROVE  /\ \A b \in QueueBlocks : LineOf(q, st, o, dl)[<<"queue", b>>] = BodiesOf(q[b])
         /\ \A s \in Streams : LineOf(q, st, o, dl)[<<"stream", s>>] = st[s]
         /\ LineOf(q, st, o, dl)[At("out")] = o
         /\ LineOf(q, st, o, dl)[At("delivered")] = BodiesOf(dl)
         /\ DOMAIN LineOf(q, st, o, dl) = LinePlaces
  BY PlaceNames DEF LineOf, At

\* The same, one line at a time.
LEMMA StreamLine ==
  ASSUME NEW q, NEW st, NEW o, NEW dl, NEW s \in Streams
  PROVE  LineOf(q, st, o, dl)[<<"stream", s>>] = st[s]
  BY LineValues

\* The line of a queue.
LEMMA QueueLine ==
  ASSUME NEW q, NEW st, NEW o, NEW dl, NEW b \in QueueBlocks
  PROVE  LineOf(q, st, o, dl)[<<"queue", b>>] = BodiesOf(q[b])
  BY LineValues

\* The line of ScreamClient's out.
LEMMA OutLine ==
  ASSUME NEW q, NEW st, NEW o, NEW dl
  PROVE  LineOf(q, st, o, dl)[At("out")] = o
  BY LineValues

\* The line of what has come out at the ends.
LEMMA DeliveredLine ==
  ASSUME NEW q, NEW st, NEW o, NEW dl
  PROVE  LineOf(q, st, o, dl)[At("delivered")] = BodiesOf(dl)
  BY LineValues

\* The pools.
LEMMA PoolValues ==

  ASSUME NEW n, NEW ib, NEW ls, NEW dr
  PROVE  /\ PoolOf(n, ib, ls, dr)[At("net")] = {d.body : d \in n}
         /\ PoolOf(n, ib, ls, dr)[At("inbound")] = ib
         /\ PoolOf(n, ib, ls, dr)[At("lost")] = ls
         /\ PoolOf(n, ib, ls, dr)[At("dropped")] = dr
         /\ DOMAIN PoolOf(n, ib, ls, dr) = PoolPlaces
  BY DEF PoolOf, PoolPlaces, At

\* The bodies of a sequence, of its tail and of what is appended to it.
LEMMA BodiesOfFacts ==
  ASSUME NEW T, NEW s \in Seq(T)
  PROVE  /\ (\A m \in T : m.body \in Bodies) => BodiesOf(s) \in Seq(Bodies)
         /\ s # <<>> => /\ BodiesOf(s) # <<>> /\ Head(BodiesOf(s)) = Head(s).body
                        /\ Tail(BodiesOf(s)) = BodiesOf(Tail(s))
         /\ \A m \in T : Append(BodiesOf(s), m.body) = BodiesOf(Append(s, m))
  <1> DEFINE B == {m.body : m \in T}
  <1>1. BodiesOf(s) \in Seq(B) /\ Len(BodiesOf(s)) = Len(s)
    BY DEF BodiesOf
  <1>2. (\A m \in T : m.body \in Bodies) => BodiesOf(s) \in Seq(Bodies)
    BY DEF BodiesOf
  <1>3. ASSUME s # <<>>
        PROVE  /\ BodiesOf(s) # <<>> /\ Head(BodiesOf(s)) = Head(s).body
               /\ Tail(BodiesOf(s)) = BodiesOf(Tail(s))
    <2>1. Len(s) \in Nat \ {0} /\ Head(s) = s[1] /\ DOMAIN s = 1..Len(s)
      BY <1>3
    <2>2. BodiesOf(s) # <<>> /\ Head(BodiesOf(s)) = Head(s).body
      BY <1>1, <2>1 DEF BodiesOf
    <2>3. /\ Tail(s) \in Seq(T) /\ Len(Tail(s)) = Len(s) - 1
          /\ \A i \in 1..Len(s) - 1 : Tail(s)[i] = s[i + 1] /\ i + 1 \in 1..Len(s)
      BY <1>3
    <2>4. /\ Tail(BodiesOf(s)) \in Seq(B) /\ Len(Tail(BodiesOf(s))) = Len(s) - 1
          /\ \A i \in 1..Len(s) - 1 : Tail(BodiesOf(s))[i] = BodiesOf(s)[i + 1]
      BY <1>1, <2>2
    <2>5. BodiesOf(Tail(s)) \in Seq(B) /\ Len(BodiesOf(Tail(s))) = Len(s) - 1
      BY <2>3 DEF BodiesOf
    <2>6. \A i \in 1..Len(s) - 1 : Tail(BodiesOf(s))[i] = BodiesOf(Tail(s))[i]
      BY <2>1, <2>3, <2>4 DEF BodiesOf
    <2>7. QED
      BY <2>2, <2>4, <2>5, <2>6, SeqEqual
  <1>4. ASSUME NEW m \in T
        PROVE  Append(BodiesOf(s), m.body) = BodiesOf(Append(s, m))
    <2>1. Append(BodiesOf(s), m.body)
            = [i \in 1..Len(s) + 1 |-> IF i = Len(s) + 1 THEN m.body ELSE BodiesOf(s)[i]]
      BY <1>1
    <2>2. /\ Append(s, m) \in Seq(T) /\ DOMAIN Append(s, m) = 1..Len(s) + 1
          /\ \A i \in 1..Len(s) + 1 : Append(s, m)[i] = IF i = Len(s) + 1 THEN m ELSE s[i]
      OBVIOUS
    <2>3. \A i \in 1..Len(s) + 1 :
            (IF i = Len(s) + 1 THEN m.body ELSE BodiesOf(s)[i]) = Append(s, m)[i].body
      BY <2>2 DEF BodiesOf
    <2>4. QED
      BY <2>1, <2>2, <2>3 DEF BodiesOf
  <1>5. QED
    BY <1>2, <1>3, <1>4

\* Lines and pools have their types.
LEMMA PlacesTyped ==
  ASSUME QueuesTyped(queue), stream \in [Streams -> Seq(Bodies)],
         out \in Seq(Packets), delivered \in Seq(Deliveries), net \subseteq Datagrams,
         inbound \subseteq Packets, lost \subseteq Bodies, dropped \subseteq Bodies
  PROVE  Line \in AllLines /\ Pool \in AllPools
  <1>1. ASSUME NEW c \in LinePlaces PROVE Line[c] \in Seq(Bodies)
    <2>1. CASE c = At("out")
      <3>1. out \in Seq(Bodies)
        BY BodyFacts
      <3>2. QED
        BY <2>1, <3>1, LineValues DEF Line
    <2>2. CASE c = At("delivered")
      <3>1. \A m \in Deliveries : m.body \in Bodies
        BY DEF Deliveries
      <3>2. BodiesOf(delivered) \in Seq(Bodies)
        BY <3>1, BodiesOfFacts
      <3>3. QED
        BY <2>2, <3>2, LineValues DEF Line
    <2>3. ASSUME NEW b \in QueueBlocks, c = <<"queue", b>> PROVE Line[c] \in Seq(Bodies)
      <3>1. queue[b] \in Seq(Messages)
        BY DEF QueuesTyped
      <3>2. \A m \in Messages : m.body \in Bodies
        BY DEF Messages
      <3>3. BodiesOf(queue[b]) \in Seq(Bodies)
        BY <3>1, <3>2, BodiesOfFacts
      <3>4. QED
        BY <2>3, <3>3, LineValues DEF Line
    <2>4. ASSUME NEW s \in Streams, c = <<"stream", s>> PROVE Line[c] \in Seq(Bodies)
      BY <2>4, LineValues DEF Line
    <2>5. QED
      BY <2>1, <2>2, <2>3, <2>4, PlaceNames
  <1>2. Line \in AllLines
    BY <1>1 DEF AllLines, Line, LineOf
  <1>3. {d.body : d \in net} \subseteq Bodies /\ inbound \subseteq Bodies
    BY BodyFacts DEF Datagrams
  <1>4. Pool \in AllPools
    BY <1>3 DEF AllPools, Pool, PoolOf
  <1>5. QED
    BY <1>2, <1>4

-----------------------------------------------------------------------------
\* What the steps of the model take and put.

\* A message is taken from a place, and put into one.
Takes(L, P, c, x, L1, P1) ==
  \/ c \in LinePlaces /\ LineTakes(L, c, x, L1) /\ P1 = P
  \/ c \in PoolPlaces /\ PoolTakes(P, c, x, P1) /\ L1 = L

Puts(L, P, d, x, L1, P1) ==
  \/ d \in LinePlaces /\ LinePuts(L, d, x, L1) /\ P1 = P
  \/ d \in PoolPlaces /\ PoolPuts(P, d, x, P1) /\ L1 = L

\* A step moves a message from the place c to one of D.
Moves(c, D) ==
  \E x, L, P : /\ Takes(Line, Pool, c, x, L, P)
               /\ \E d \in D : Puts(L, P, d, x, Line', Pool')

\* A step puts the new message x into one of the places D.
Enters(x, D) ==
  /\ \E d \in D : Puts(Line, Pool, d, x, Line', Pool')
  /\ x \in Bodies \ Sent /\ Sent' = Sent \cup {x}

\* Datagrams are told apart by their bodies.
NetDistinct == \A d, e \in net : d.body = e.body => d = e

\* The queues registered for what b forwards, and where it goes without one.
ForwardsTo(b, type) == {<<"queue", c>> : c \in Registered(b, type)} \cup {At("dropped")}

\* The variables are the same but for the line c, or for the pool c.
SameLinesBut(c, q, st, o, dl, q1, st1, o1, dl1) ==
  /\ \A b \in QueueBlocks : <<"queue", b>> # c => q1[b] = q[b]
  /\ \A s \in Streams : <<"stream", s>> # c => st1[s] = st[s]
  /\ At("out") # c => o1 = o
  /\ At("delivered") # c => dl1 = dl

SamePoolsBut(c, n, ib, ls, dr, n1, ib1, ls1, dr1) ==
  /\ At("net") # c => n1 = n
  /\ At("inbound") # c => ib1 = ib
  /\ At("lost") # c => ls1 = ls
  /\ At("dropped") # c => dr1 = dr

\* When the variables differ in one line, so do the lines.
LEMMA OneLineDiffers ==
  ASSUME NEW q, NEW st, NEW o, NEW dl, NEW q1, NEW st1, NEW o1, NEW dl1,
         NEW c \in LinePlaces, SameLinesBut(c, q, st, o, dl, q1, st1, o1, dl1)
  PROVE  LineOf(q1, st1, o1, dl1)
           = [LineOf(q, st, o, dl) EXCEPT ![c] = LineOf(q1, st1, o1, dl1)[c]]
  <1> DEFINE L  == LineOf(q, st, o, dl)
             L1 == LineOf(q1, st1, o1, dl1)
  <1>1. ASSUME NEW d \in LinePlaces, d # c PROVE L1[d] = L[d]
    <2>1. CASE d = At("out")
      BY <1>1, <2>1, LineValues DEF SameLinesBut
    <2>2. CASE d = At("delivered")
      BY <1>1, <2>2, LineValues DEF SameLinesBut
    <2>3. ASSUME NEW b \in QueueBlocks, d = <<"queue", b>> PROVE L1[d] = L[d]
      BY <1>1, <2>3, LineValues DEF SameLinesBut
    <2>4. ASSUME NEW s \in Streams, d = <<"stream", s>> PROVE L1[d] = L[d]
      BY <1>1, <2>4, LineValues DEF SameLinesBut
    <2>5. QED
      BY <2>1, <2>2, <2>3, <2>4, PlaceNames
  <1>2. L = [d \in LinePlaces |-> L[d]] /\ L1 = [d \in LinePlaces |-> L1[d]]
    BY DEF LineOf
  <1> HIDE DEF L, L1
  <1>3. L1 = [L EXCEPT ![c] = L1[c]]
    BY <1>1, <1>2
  <1>4. QED
    BY <1>3 DEF L, L1

\* Lines are told apart by their names.
LEMMA LinesApart ==
  /\ At("out") # At("delivered")
  /\ \A b \in QueueBlocks : /\ <<"queue", b>> # At("out") /\ <<"queue", b>> # At("delivered")
                            /\ \A e \in QueueBlocks : <<"queue", e>> = <<"queue", b>> => e = b
  /\ \A s \in Streams : /\ <<"stream", s>> # At("out") /\ <<"stream", s>> # At("delivered")
                        /\ \A e \in Streams : <<"stream", e>> = <<"stream", s>> => e = s
                        /\ \A b \in QueueBlocks : <<"queue", b>> # <<"stream", s>>
  BY DEF At

\* A step that takes the head of the variable of one line takes from that line.
LEMMA OneLineTaken ==
  ASSUME NEW q, NEW st, NEW o, NEW dl, NEW q1, NEW st1, NEW o1, NEW dl1,
         NEW c \in LinePlaces, SameLinesBut(c, q, st, o, dl, q1, st1, o1, dl1),
         NEW s, s # <<>>, NEW s1, s1 = Tail(s),
         LineOf(q, st, o, dl)[c] = s, LineOf(q1, st1, o1, dl1)[c] = s1
  PROVE  LineTakes(LineOf(q, st, o, dl), c, Head(s), LineOf(q1, st1, o1, dl1))
  <1> DEFINE L  == LineOf(q, st, o, dl)
             L1 == LineOf(q1, st1, o1, dl1)
  <1>1. L1 = [L EXCEPT ![c] = L1[c]]
    BY OneLineDiffers
  <1>2. L[c] = s /\ L1[c] = s1
    OBVIOUS
  <1> HIDE DEF L, L1
  <1>3. LineTakes(L, c, Head(s), L1)
    BY <1>1, <1>2 DEF LineTakes
  <1>4. QED
    BY <1>3 DEF L, L1

\* A step that appends to the variable of one line puts into that line.
LEMMA OneLinePut ==
  ASSUME NEW q, NEW st, NEW o, NEW dl, NEW q1, NEW st1, NEW o1, NEW dl1,
         NEW c \in LinePlaces, SameLinesBut(c, q, st, o, dl, q1, st1, o1, dl1), NEW x,
         LineOf(q1, st1, o1, dl1)[c] = Append(LineOf(q, st, o, dl)[c], x)
  PROVE  LinePuts(LineOf(q, st, o, dl), c, x, LineOf(q1, st1, o1, dl1))
  BY OneLineDiffers DEF LinePuts

\* What a block takes from its queue.
LEMMA QueueTakes ==
  ASSUME NEW q \in [QueueBlocks -> Seq(Messages)], NEW b \in QueueBlocks, q[b] # <<>>,
         NEW q1, q1[b] = Tail(q[b]), \A e \in QueueBlocks : e # b => q1[e] = q[e],
         NEW st, NEW o, NEW dl
  PROVE  LineTakes(LineOf(q, st, o, dl), <<"queue", b>>, Head(q[b]).body,
                   LineOf(q1, st, o, dl))
  <1> DEFINE c == <<"queue", b>>
  <1>1. q[b] \in Seq(Messages)
    OBVIOUS
  <1>2. /\ BodiesOf(q[b]) # <<>> /\ Head(BodiesOf(q[b])) = Head(q[b]).body
        /\ Tail(BodiesOf(q[b])) = BodiesOf(q1[b])
    BY <1>1, BodiesOfFacts
  <1>3. \A r : LineOf(r, st, o, dl)[c] = BodiesOf(r[b])
    BY QueueLine
  <1>4. LineOf(q, st, o, dl)[c] = BodiesOf(q[b]) /\ LineOf(q1, st, o, dl)[c] = BodiesOf(q1[b])
    BY <1>3
  <1>5. c \in LinePlaces /\ SameLinesBut(c, q, st, o, dl, q1, st, o, dl)
    BY PlaceNames DEF SameLinesBut
  <1> HIDE DEF c
  <1>6. LineTakes(LineOf(q, st, o, dl), c, Head(BodiesOf(q[b])), LineOf(q1, st, o, dl))
    BY <1>2, <1>4, <1>5, OneLineTaken
  <1>7. QED
    BY <1>2, <1>6 DEF c

\* What is put into the queue of a block.
LEMMA QueuePuts ==
  ASSUME NEW q \in [QueueBlocks -> Seq(Messages)], NEW b \in QueueBlocks,
         NEW m \in Messages, NEW q1, q1[b] = Append(q[b], m),
         \A e \in QueueBlocks : e # b => q1[e] = q[e], NEW st, NEW o, NEW dl
  PROVE  LinePuts(LineOf(q, st, o, dl), <<"queue", b>>, m.body, LineOf(q1, st, o, dl))
  <1> DEFINE c == <<"queue", b>>
  <1>1. q[b] \in Seq(Messages)
    OBVIOUS
  <1>2. Append(BodiesOf(q[b]), m.body) = BodiesOf(q1[b])
    BY <1>1, BodiesOfFacts
  <1>3. \A r : LineOf(r, st, o, dl)[c] = BodiesOf(r[b])
    BY QueueLine
  <1>4. LineOf(q, st, o, dl)[c] = BodiesOf(q[b]) /\ LineOf(q1, st, o, dl)[c] = BodiesOf(q1[b])
    BY <1>3
  <1>5. c \in LinePlaces /\ SameLinesBut(c, q, st, o, dl, q1, st, o, dl)
    BY PlaceNames DEF SameLinesBut
  <1> HIDE DEF c
  <1>6. LinePuts(LineOf(q, st, o, dl), c, m.body, LineOf(q1, st, o, dl))
    BY <1>2, <1>4, <1>5, OneLinePut
  <1>7. QED
    BY <1>6 DEF c

\* What is read from a stream, and what is written to one.
LEMMA StreamTakes ==
  ASSUME NEW st, NEW s \in Streams, st[s] # <<>>, NEW st1, st1[s] = Tail(st[s]),
         \A t \in Streams : t # s => st1[t] = st[t], NEW q, NEW o, NEW dl
  PROVE  LineTakes(LineOf(q, st, o, dl), <<"stream", s>>, Head(st[s]),
                   LineOf(q, st1, o, dl))
  <1> DEFINE c == <<"stream", s>>
  <1>1. LineOf(q, st, o, dl)[c] = st[s]
    BY StreamLine
  <1>2. LineOf(q, st1, o, dl)[c] = st1[s]
    BY StreamLine
  <1>3. c \in LinePlaces /\ SameLinesBut(c, q, st, o, dl, q, st1, o, dl)
    BY PlaceNames DEF SameLinesBut
  <1> HIDE DEF c
  <1>4. LineTakes(LineOf(q, st, o, dl), c, Head(st[s]), LineOf(q, st1, o, dl))
    BY <1>1, <1>2, <1>3, OneLineTaken
  <1>5. QED
    BY <1>4 DEF c

\* Writing to a stream.
LEMMA StreamPuts ==
  ASSUME NEW st, NEW s \in Streams, NEW x, NEW st1, st1[s] = Append(st[s], x),
         \A t \in Streams : t # s => st1[t] = st[t], NEW q, NEW o, NEW dl
  PROVE  LinePuts(LineOf(q, st, o, dl), <<"stream", s>>, x, LineOf(q, st1, o, dl))
  <1> DEFINE c == <<"stream", s>>
  <1>1. LineOf(q, st, o, dl)[c] = st[s]
    BY StreamLine
  <1>2. LineOf(q, st1, o, dl)[c] = st1[s]
    BY StreamLine
  <1>3. c \in LinePlaces /\ SameLinesBut(c, q, st, o, dl, q, st1, o, dl)
    BY PlaceNames DEF SameLinesBut
  <1> HIDE DEF c
  <1>4. LinePuts(LineOf(q, st, o, dl), c, x, LineOf(q, st1, o, dl))
    BY <1>1, <1>2, <1>3, OneLinePut
  <1>5. QED
    BY <1>4 DEF c

\* What comes out at an end.
LEMMA DeliverPuts ==
  ASSUME NEW dl \in Seq(Deliveries), NEW m \in Deliveries, NEW dl1, dl1 = Append(dl, m),
         NEW q, NEW st, NEW o
  PROVE  LinePuts(LineOf(q, st, o, dl), At("delivered"), m.body, LineOf(q, st, o, dl1))
  <1> DEFINE c == At("delivered")
  <1>1. Append(BodiesOf(dl), m.body) = BodiesOf(dl1)
    BY BodiesOfFacts
  <1>2. LineOf(q, st, o, dl)[c] = BodiesOf(dl)
    BY DeliveredLine
  <1>3. LineOf(q, st, o, dl1)[c] = BodiesOf(dl1)
    BY DeliveredLine
  <1>4. c \in LinePlaces /\ SameLinesBut(c, q, st, o, dl, q, st, o, dl1)
    BY PlaceNames DEF SameLinesBut
  <1> HIDE DEF c
  <1>5. LinePuts(LineOf(q, st, o, dl), c, m.body, LineOf(q, st, o, dl1))
    BY <1>1, <1>2, <1>3, <1>4, OneLinePut
  <1>6. QED
    BY <1>5 DEF c

\* What is taken from and added to ScreamClient's queue.
LEMMA OutTakes ==
  ASSUME NEW o, o # <<>>, NEW q, NEW st, NEW dl
  PROVE  LineTakes(LineOf(q, st, o, dl), At("out"), Head(o), LineOf(q, st, Tail(o), dl))
  <1> DEFINE c == At("out")
  <1>1. \A r : LineOf(q, st, r, dl)[c] = r
    BY OutLine
  <1>2. c \in LinePlaces /\ \A r : SameLinesBut(c, q, st, o, dl, q, st, r, dl)
    BY PlaceNames DEF SameLinesBut
  <1> HIDE DEF c
  <1>3. PICK r : r = Tail(o)
    OBVIOUS
  <1>4. LineOf(q, st, o, dl)[c] = o /\ LineOf(q, st, r, dl)[c] = r
    BY <1>1
  <1>5. SameLinesBut(c, q, st, o, dl, q, st, r, dl)
    BY <1>2
  <1>6. LineTakes(LineOf(q, st, o, dl), c, Head(o), LineOf(q, st, r, dl))
    BY <1>2, <1>3, <1>4, <1>5, OneLineTaken
  <1>7. QED
    BY <1>3, <1>6 DEF c

\* Handing a packet to the converter behind ScreamClient.
LEMMA OutPuts ==
  ASSUME NEW o, NEW x, NEW q, NEW st, NEW dl
  PROVE  LinePuts(LineOf(q, st, o, dl), At("out"), x, LineOf(q, st, Append(o, x), dl))
  <1> DEFINE c == At("out")
  <1>1. \A r : LineOf(q, st, r, dl)[c] = r
    BY OutLine
  <1>2. c \in LinePlaces /\ \A r : SameLinesBut(c, q, st, o, dl, q, st, r, dl)
    BY PlaceNames DEF SameLinesBut
  <1> HIDE DEF c
  <1>3. \A r : r = Append(o, x) =>
          LinePuts(LineOf(q, st, o, dl), c, x, LineOf(q, st, r, dl))
    BY <1>1, <1>2, OneLinePut
  <1>4. QED
    BY <1>3 DEF c

\* When the variables differ in one pool, so do the pools.
LEMMA OnePoolDiffers ==
  ASSUME NEW n, NEW ib, NEW ls, NEW dr, NEW n1, NEW ib1, NEW ls1, NEW dr1,
         NEW c \in PoolPlaces, SamePoolsBut(c, n, ib, ls, dr, n1, ib1, ls1, dr1)
  PROVE  PoolOf(n1, ib1, ls1, dr1)
           = [PoolOf(n, ib, ls, dr) EXCEPT ![c] = PoolOf(n1, ib1, ls1, dr1)[c]]
  <1> DEFINE P  == PoolOf(n, ib, ls, dr)
             P1 == PoolOf(n1, ib1, ls1, dr1)
  <1>1. \A d \in PoolPlaces : d # c => P1[d] = P[d]
    BY DEF PoolPlaces, PoolOf, SamePoolsBut
  <1>2. P = [d \in PoolPlaces |-> P[d]] /\ P1 = [d \in PoolPlaces |-> P1[d]]
    BY DEF PoolOf
  <1> HIDE DEF P, P1
  <1>3. P1 = [P EXCEPT ![c] = P1[c]]
    BY <1>1, <1>2
  <1>4. QED
    BY <1>3 DEF P, P1

\* What a pool gives, and what is put into one.
LEMMA OnePoolTaken ==
  ASSUME NEW n, NEW ib, NEW ls, NEW dr, NEW n1, NEW ib1, NEW ls1, NEW dr1,
         NEW c \in PoolPlaces, SamePoolsBut(c, n, ib, ls, dr, n1, ib1, ls1, dr1),
         NEW x \in PoolOf(n, ib, ls, dr)[c],
         PoolOf(n1, ib1, ls1, dr1)[c] = PoolOf(n, ib, ls, dr)[c] \ {x}
  PROVE  PoolTakes(PoolOf(n, ib, ls, dr), c, x, PoolOf(n1, ib1, ls1, dr1))
  <1> DEFINE P  == PoolOf(n, ib, ls, dr)
             P1 == PoolOf(n1, ib1, ls1, dr1)
  <1>1. P1 = [P EXCEPT ![c] = P1[c]]
    BY OnePoolDiffers
  <1>2. x \in P[c] /\ P1[c] = P[c] \ {x}
    OBVIOUS
  <1> HIDE DEF P, P1
  <1>3. PoolTakes(P, c, x, P1)
    BY <1>1, <1>2 DEF PoolTakes
  <1>4. QED
    BY <1>3 DEF P, P1

\* A step that adds to the variable of one pool puts into that pool.
LEMMA OnePoolPut ==
  ASSUME NEW n, NEW ib, NEW ls, NEW dr, NEW n1, NEW ib1, NEW ls1, NEW dr1,
         NEW c \in PoolPlaces, SamePoolsBut(c, n, ib, ls, dr, n1, ib1, ls1, dr1), NEW x,
         PoolOf(n1, ib1, ls1, dr1)[c] = PoolOf(n, ib, ls, dr)[c] \cup {x}
  PROVE  PoolPuts(PoolOf(n, ib, ls, dr), c, x, PoolOf(n1, ib1, ls1, dr1))
  <1> DEFINE P  == PoolOf(n, ib, ls, dr)
             P1 == PoolOf(n1, ib1, ls1, dr1)
  <1>1. P1 = [P EXCEPT ![c] = P1[c]]
    BY OnePoolDiffers
  <1>2. P1[c] = P[c] \cup {x}
    OBVIOUS
  <1> HIDE DEF P, P1
  <1>3. PoolPuts(P, c, x, P1)
    BY <1>1, <1>2 DEF PoolPuts
  <1>4. QED
    BY <1>3 DEF P, P1

\* A datagram taken from the network, and one sent.
LEMMA NetTakes ==
  ASSUME NEW n, \A d, e \in n : d.body = e.body => d = e, NEW d \in n,
         NEW ib, NEW ls, NEW dr
  PROVE  PoolTakes(PoolOf(n, ib, ls, dr), At("net"), d.body, PoolOf(n \ {d}, ib, ls, dr))
  <1> DEFINE c  == At("net")
             n1 == n \ {d}
  <1>1. {e.body : e \in n1} = {e.body : e \in n} \ {d.body} /\ d.body \in {e.body : e \in n}
    OBVIOUS
  <1> HIDE DEF n1
  <1>2. \A r : PoolOf(r, ib, ls, dr)[c] = {e.body : e \in r}
    BY PoolValues
  <1>3. c \in PoolPlaces /\ SamePoolsBut(c, n, ib, ls, dr, n1, ib, ls, dr)
    BY DEF PoolPlaces, SamePoolsBut
  <1>4. d.body \in PoolOf(n, ib, ls, dr)[c]
    BY <1>1, <1>2
  <1>5. PoolOf(n1, ib, ls, dr)[c] = PoolOf(n, ib, ls, dr)[c] \ {d.body}
    BY <1>1, <1>2
  <1> HIDE DEF c
  <1>6. PoolTakes(PoolOf(n, ib, ls, dr), c, d.body, PoolOf(n1, ib, ls, dr))
    BY <1>3, <1>4, <1>5, OnePoolTaken
  <1>7. QED
    BY <1>6 DEF c, n1

\* Sending a datagram.
LEMMA NetPuts ==
  ASSUME NEW n, NEW m, NEW ib, NEW ls, NEW dr
  PROVE  PoolPuts(PoolOf(n, ib, ls, dr), At("net"), m.body, PoolOf(n \cup {m}, ib, ls, dr))
  <1> DEFINE c  == At("net")
             n1 == n \cup {m}
  <1>1. {e.body : e \in n1} = {e.body : e \in n} \cup {m.body}
    OBVIOUS
  <1> HIDE DEF n1
  <1>2. \A r : PoolOf(r, ib, ls, dr)[c] = {e.body : e \in r}
    BY PoolValues
  <1>3. c \in PoolPlaces /\ SamePoolsBut(c, n, ib, ls, dr, n1, ib, ls, dr)
    BY DEF PoolPlaces, SamePoolsBut
  <1>4. PoolOf(n1, ib, ls, dr)[c] = PoolOf(n, ib, ls, dr)[c] \cup {m.body}
    BY <1>1, <1>2
  <1> HIDE DEF c
  <1>5. PoolPuts(PoolOf(n, ib, ls, dr), c, m.body, PoolOf(n1, ib, ls, dr))
    BY <1>3, <1>4, OnePoolPut
  <1>6. QED
    BY <1>5 DEF c, n1

\* A packet that leaves ScreamClient's socket, and one that comes to it.
LEMMA InboundTakes ==
  ASSUME NEW ib, NEW p \in ib, NEW n, NEW ls, NEW dr
  PROVE  PoolTakes(PoolOf(n, ib, ls, dr), At("inbound"), p, PoolOf(n, ib \ {p}, ls, dr))
  <1> DEFINE c   == At("inbound")
             ib1 == ib \ {p}
  <1>1. \A r : PoolOf(n, r, ls, dr)[c] = r
    BY PoolValues
  <1>2. ib1 = ib \ {p}
    OBVIOUS
  <1> HIDE DEF ib1
  <1>3. c \in PoolPlaces /\ SamePoolsBut(c, n, ib, ls, dr, n, ib1, ls, dr)
    BY DEF PoolPlaces, SamePoolsBut
  <1>4. p \in PoolOf(n, ib, ls, dr)[c]
    BY <1>1
  <1>5. PoolOf(n, ib1, ls, dr)[c] = PoolOf(n, ib, ls, dr)[c] \ {p}
    BY <1>1, <1>2
  <1> HIDE DEF c
  <1>6. PoolTakes(PoolOf(n, ib, ls, dr), c, p, PoolOf(n, ib1, ls, dr))
    BY <1>3, <1>4, <1>5, OnePoolTaken
  <1>7. QED
    BY <1>6 DEF c, ib1

\* Sending a datagram to ScreamClient's socket.
LEMMA InboundPuts ==
  ASSUME NEW ib, NEW p, NEW n, NEW ls, NEW dr
  PROVE  PoolPuts(PoolOf(n, ib, ls, dr), At("inbound"), p, PoolOf(n, ib \cup {p}, ls, dr))
  <1> DEFINE c   == At("inbound")
             ib1 == ib \cup {p}
  <1>1. \A r : PoolOf(n, r, ls, dr)[c] = r
    BY PoolValues
  <1>2. ib1 = ib \cup {p}
    OBVIOUS
  <1> HIDE DEF ib1
  <1>3. c \in PoolPlaces /\ SamePoolsBut(c, n, ib, ls, dr, n, ib1, ls, dr)
    BY DEF PoolPlaces, SamePoolsBut
  <1>4. PoolOf(n, ib1, ls, dr)[c] = PoolOf(n, ib, ls, dr)[c] \cup {p}
    BY <1>1, <1>2
  <1> HIDE DEF c
  <1>5. PoolPuts(PoolOf(n, ib, ls, dr), c, p, PoolOf(n, ib1, ls, dr))
    BY <1>3, <1>4, OnePoolPut
  <1>6. QED
    BY <1>5 DEF c, ib1

\* What is lost, and what is dropped.
LEMMA LostPuts ==
  ASSUME NEW ls, NEW x, NEW n, NEW ib, NEW dr
  PROVE  PoolPuts(PoolOf(n, ib, ls, dr), At("lost"), x, PoolOf(n, ib, ls \cup {x}, dr))
  <1> DEFINE c   == At("lost")
             ls1 == ls \cup {x}
  <1>1. \A r : PoolOf(n, ib, r, dr)[c] = r
    BY PoolValues
  <1>2. ls1 = ls \cup {x}
    OBVIOUS
  <1> HIDE DEF ls1
  <1>3. c \in PoolPlaces /\ SamePoolsBut(c, n, ib, ls, dr, n, ib, ls1, dr)
    BY DEF PoolPlaces, SamePoolsBut
  <1>4. PoolOf(n, ib, ls1, dr)[c] = PoolOf(n, ib, ls, dr)[c] \cup {x}
    BY <1>1, <1>2
  <1> HIDE DEF c
  <1>5. PoolPuts(PoolOf(n, ib, ls, dr), c, x, PoolOf(n, ib, ls1, dr))
    BY <1>3, <1>4, OnePoolPut
  <1>6. QED
    BY <1>5 DEF c, ls1

\* Dropping a message.
LEMMA DroppedPuts ==
  ASSUME NEW dr, NEW x, NEW n, NEW ib, NEW ls
  PROVE  PoolPuts(PoolOf(n, ib, ls, dr), At("dropped"), x, PoolOf(n, ib, ls, dr \cup {x}))
  <1> DEFINE c   == At("dropped")
             dr1 == dr \cup {x}
  <1>1. \A r : PoolOf(n, ib, ls, r)[c] = r
    BY PoolValues
  <1>2. dr1 = dr \cup {x}
    OBVIOUS
  <1> HIDE DEF dr1
  <1>3. c \in PoolPlaces /\ SamePoolsBut(c, n, ib, ls, dr, n, ib, ls, dr1)
    BY DEF PoolPlaces, SamePoolsBut
  <1>4. PoolOf(n, ib, ls, dr1)[c] = PoolOf(n, ib, ls, dr)[c] \cup {x}
    BY <1>1, <1>2
  <1> HIDE DEF c
  <1>5. PoolPuts(PoolOf(n, ib, ls, dr), c, x, PoolOf(n, ib, ls, dr1))
    BY <1>3, <1>4, OnePoolPut
  <1>6. QED
    BY <1>5 DEF c, dr1

\* What a block forwards is put into the one queue registered for its type, or
\* dropped.
LEMMA ForwardPuts ==
  ASSUME NEW q, QueuesTyped(q), NEW b, NEW type \in Types, NEW x \in Bodies,
         Forward(q, b, type, x), NEW n, NEW ib, NEW ls, NEW st, NEW o, NEW dl
  PROVE  \E d \in ForwardsTo(b, type) :
           Puts(LineOf(q, st, o, dl), PoolOf(n, ib, ls, dropped), d, x,
                LineOf(queue', st, o, dl), PoolOf(n, ib, ls, dropped'))
  <1>1. /\ queue' = ForwardInto(q, b, type, x)
        /\ dropped' = IF Registered(b, type) = {} THEN dropped \cup {x} ELSE dropped
    BY DEF Forward
  <1>2. q \in [QueueBlocks -> Seq(Messages)]
    BY DEF QueuesTyped
  <1>3. CASE Registered(b, type) = {}
    <2>1. queue' = q
      BY <1>1, <1>2, <1>3 DEF ForwardInto
    <2>2. dropped' = dropped \cup {x}
      BY <1>1, <1>3
    <2>3. PoolPuts(PoolOf(n, ib, ls, dropped), At("dropped"), x,
                   PoolOf(n, ib, ls, dropped \cup {x}))
      BY DroppedPuts
    <2>4. At("dropped") \in ForwardsTo(b, type) /\ At("dropped") \in PoolPlaces
      BY DEF ForwardsTo, PoolPlaces
    <2>5. QED
      BY <2>1, <2>2, <2>3, <2>4 DEF Puts
  <1>4. CASE Registered(b, type) # {}
    <2>1. PICK d \in Registered(b, type) : \A e \in Registered(b, type) : e = d
      BY <1>4, Registrations
    <2> DEFINE m == [type |-> type, body |-> x]
    <2>2. d \in QueueBlocks /\ m \in Messages /\ m.body = x
      BY <2>1 DEF Registered, Messages
    <2>3. /\ queue'[d] = Append(q[d], m)
          /\ \A e \in QueueBlocks : e # d => queue'[e] = q[e]
      BY <1>1, <2>1, <2>2 DEF ForwardInto
    <2> HIDE DEF m
    <2>4. LinePuts(LineOf(q, st, o, dl), <<"queue", d>>, m.body, LineOf(queue', st, o, dl))
      BY <1>2, <2>2, <2>3, QueuePuts
    <2>5. <<"queue", d>> \in ForwardsTo(b, type) /\ <<"queue", d>> \in LinePlaces
      BY <2>2, PlaceNames DEF ForwardsTo
    <2>6. dropped' = dropped
      BY <1>1, <1>4
    <2>7. QED
      BY <2>2, <2>4, <2>5, <2>6 DEF Puts
  <1>5. QED
    BY <1>3, <1>4

\* What a block sends is a datagram, or goes to ScreamClient's socket.
LEMMA SendPuts ==
  ASSUME NEW host, NEW port, NEW x, SendTo(host, port, x), NEW L, NEW ls, NEW dr
  PROVE  /\ \E d \in {At("net"), At("inbound")} :
              Puts(L, PoolOf(net, inbound, ls, dr), d, x, L, PoolOf(net', inbound', ls, dr))
         /\ NetDistinct /\ (\A d \in net : d.body # x) => NetDistinct'
  <1> DEFINE m == [host |-> host, port |-> port, body |-> x]
  <1>1. \/ net' = net /\ inbound' = inbound \cup {x}
        \/ net' = net \cup {m} /\ inbound' = inbound
    BY DEF SendTo
  <1>2. m.body = x
    OBVIOUS
  <1>3. At("net") \in PoolPlaces /\ At("inbound") \in PoolPlaces
    BY DEF PoolPlaces
  <1> HIDE DEF m
  <1>4. CASE net' = net /\ inbound' = inbound \cup {x}
    <2>1. PoolPuts(PoolOf(net, inbound, ls, dr), At("inbound"), x,
                   PoolOf(net, inbound \cup {x}, ls, dr))
      BY InboundPuts
    <2>2. Puts(L, PoolOf(net, inbound, ls, dr), At("inbound"), x,
               L, PoolOf(net', inbound', ls, dr))
      BY <1>3, <1>4, <2>1 DEF Puts
    <2>3. QED
      BY <1>4, <2>2 DEF NetDistinct
  <1>5. CASE net' = net \cup {m} /\ inbound' = inbound
    <2>1. PoolPuts(PoolOf(net, inbound, ls, dr), At("net"), m.body,
                   PoolOf(net \cup {m}, inbound, ls, dr))
      BY NetPuts
    <2>2. Puts(L, PoolOf(net, inbound, ls, dr), At("net"), x,
               L, PoolOf(net', inbound', ls, dr))
      BY <1>2, <1>3, <1>5, <2>1 DEF Puts
    <2>3. ASSUME NetDistinct, \A d \in net : d.body # x PROVE NetDistinct'
      BY <1>2, <1>5, <2>3 DEF NetDistinct
    <2>4. QED
      BY <2>2, <2>3
  <1>6. QED
    BY <1>1, <1>4, <1>5

\* What a block writes goes onto the stream, or is lost with the connection.
LEMMA WritePuts ==
  ASSUME stream \in [Streams -> Seq(Bodies)], NEW s \in Streams, NEW x, WriteTo(s, x),
         NEW q, NEW o, NEW dl, NEW n, NEW ib, NEW dr
  PROVE  \E d \in {<<"stream", s>>, At("lost")} :
           Puts(LineOf(q, stream, o, dl), PoolOf(n, ib, lost, dr), d, x,
                LineOf(q, stream', o, dl), PoolOf(n, ib, lost', dr))
  <1>1. CASE s[1] \in connected
    <2>1. /\ stream'[s] = Append(stream[s], x) /\ lost' = lost
          /\ \A t \in Streams : t # s => stream'[t] = stream[t]
      BY <1>1 DEF WriteTo
    <2>2. LinePuts(LineOf(q, stream, o, dl), <<"stream", s>>, x, LineOf(q, stream', o, dl))
      BY <2>1, StreamPuts
    <2>3. QED
      BY <2>1, <2>2, PlaceNames DEF Puts
  <1>2. CASE s[1] \notin connected
    <2>1. lost' = lost \cup {x} /\ stream' = stream
      BY <1>2 DEF WriteTo
    <2>2. PoolPuts(PoolOf(n, ib, lost, dr), At("lost"), x, PoolOf(n, ib, lost \cup {x}, dr))
      BY LostPuts
    <2>3. At("lost") \in PoolPlaces
      BY DEF PoolPlaces
    <2>4. QED
      BY <2>1, <2>2, <2>3 DEF Puts
  <1>3. QED
    BY <1>1, <1>2

-----------------------------------------------------------------------------
\* The steps, and where they take a message from and put it.

\* What has been sent is well placed, and no datagram is there twice.
PlaceInv == WellPlaced(Line, Pool, Sent) /\ NetDistinct

\* The variables have their types.
Typed == RelayTyped /\ inbound \subseteq Packets /\ out \in Seq(Packets)

\* Moving a message leaves every message in one place, and so does putting a new
\* one into a place.
LEMMA MoveKeeps ==
  ASSUME NEW L \in AllLines, NEW P \in AllPools, NEW S, WellPlaced(L, P, S),
         NEW c, NEW x, NEW L1, NEW P1, Takes(L, P, c, x, L1, P1),
         NEW d, NEW L2, NEW P2, Puts(L1, P1, d, x, L2, P2)
  PROVE  WellPlaced(L2, P2, S)
  <1>1. /\ L1 \in AllLines /\ P1 \in AllPools /\ x \in S /\ x \in Bodies
        /\ WellPlaced(L1, P1, S \ {x})
    BY LineTaken, PoolTaken DEF Takes
  <1>2. x \notin S \ {x}
    OBVIOUS
  <1>3. WellPlaced(L2, P2, (S \ {x}) \cup {x})
    BY <1>1, <1>2, LinePut, PoolPut DEF Puts
  <1>4. (S \ {x}) \cup {x} = S
    BY <1>1
  <1>5. QED
    BY <1>3, <1>4

\* The same for a step of the model that moves a message.
LEMMA MovesKeep ==
  ASSUME Line \in AllLines, Pool \in AllPools, WellPlaced(Line, Pool, Sent),
         NEW c, NEW D, Moves(c, D), Sent' = Sent
  PROVE  WellPlaced(Line', Pool', Sent')
  <1>1. PICK x, L, P : /\ Takes(Line, Pool, c, x, L, P)
                       /\ \E d \in D : Puts(L, P, d, x, Line', Pool')
    BY DEF Moves
  <1>2. PICK d \in D : Puts(L, P, d, x, Line', Pool')
    BY <1>1
  <1>3. PICK L2, P2 : L2 = Line' /\ P2 = Pool'
    OBVIOUS
  <1>4. WellPlaced(L2, P2, Sent)
    BY <1>1, <1>2, <1>3, MoveKeeps
  <1>5. QED
    BY <1>3, <1>4

\* The same for a step of the model that adds one.
LEMMA EntersKeep ==
  ASSUME Line \in AllLines, Pool \in AllPools, WellPlaced(Line, Pool, Sent),
         NEW x, NEW D, Enters(x, D)
  PROVE  WellPlaced(Line', Pool', Sent')
  <1>1. PICK d \in D : Puts(Line, Pool, d, x, Line', Pool')
    BY DEF Enters
  <1>2. x \in Bodies /\ x \notin Sent /\ Sent' = Sent \cup {x}
    BY DEF Enters
  <1>3. PICK L2, P2 : L2 = Line' /\ P2 = Pool'
    OBVIOUS
  <1>4. WellPlaced(L2, P2, Sent \cup {x})
    BY <1>1, <1>2, <1>3, LinePut, PoolPut DEF Puts
  <1>5. QED
    BY <1>2, <1>3, <1>4

\* A message in a queue is not on the network.
LEMMA QueuedNotInNet ==
  ASSUME Typed, PlaceInv, NEW b \in QueueBlocks, queue[b] # <<>>
  PROVE  \A d \in net : d.body # Head(queue[b]).body
  <1>1. queue[b] \in Seq(Messages)
    BY DEF Typed, RelayTyped, QueuesTyped
  <1>2. 1 \in DOMAIN BodiesOf(queue[b]) /\ BodiesOf(queue[b])[1] = Head(queue[b]).body
    BY <1>1 DEF BodiesOf
  <1>3. Line[<<"queue", b>>] = BodiesOf(queue[b]) /\ <<"queue", b>> \in LinePlaces
    BY LineValues, PlaceNames DEF Line
  <1>4. Pool[At("net")] = {d.body : d \in net} /\ At("net") \in PoolPlaces
    BY PoolValues DEF Pool, PoolPlaces
  <1>5. Head(queue[b]).body \notin Pool[At("net")]
    BY <1>2, <1>3, <1>4 DEF PlaceInv, WellPlaced
  <1>6. QED
    BY <1>4, <1>5

\* A block takes the first message of its queue.
LEMMA TakesQueue ==
  ASSUME Typed, NEW b \in QueueBlocks, queue[b] # <<>>
  PROVE  /\ Takes(Line, Pool, <<"queue", b>>, Head(queue[b]).body,
                  LineOf(Taken(b), stream, out, delivered), Pool)
         /\ Head(queue[b]) \in Messages /\ Head(queue[b]).body \in Bodies
         /\ QueuesTyped(Taken(b))
  <1>1. queue \in [QueueBlocks -> Seq(Messages)] /\ queue[b] \in Seq(Messages)
    BY DEF Typed, RelayTyped, QueuesTyped
  <1>2. /\ Taken(b)[b] = Tail(queue[b])
        /\ \A e \in QueueBlocks : e # b => Taken(b)[e] = queue[e]
    BY <1>1 DEF Taken
  <1>3. LineTakes(Line, <<"queue", b>>, Head(queue[b]).body,
                  LineOf(Taken(b), stream, out, delivered))
    BY <1>1, <1>2, QueueTakes DEF Line
  <1>4. Head(queue[b]) \in Messages /\ Head(queue[b]).body \in Bodies
    <2>1. Head(queue[b]) \in Messages
      BY <1>1
    <2>2. QED
      BY <2>1 DEF Messages
  <1>5. QueuesTyped(Taken(b))

    BY TakenTyped DEF Typed, RelayTyped
  <1>6. QED
    BY <1>3, <1>4, <1>5, PlaceNames DEF Takes

\* UdpSocket::read and UdpSocket::run.
LEMMA UdpMoves ==
  ASSUME Typed, PlaceInv, NEW b \in UdpBlocks
  PROVE  /\ UdpRead(b) => /\ Moves(At("net"), ForwardsTo(b, "RAW"))
                          /\ NetDistinct' /\ Sent' = Sent
         /\ UdpRun(b) => /\ Moves(<<"queue", b>>, {At("net"), At("inbound"), At("dropped")})
                         /\ NetDistinct' /\ Sent' = Sent
  <1>1. ASSUME UdpRead(b)
        PROVE  Moves(At("net"), ForwardsTo(b, "RAW")) /\ NetDistinct' /\ Sent' = Sent
    <2>1. PICK d \in net : net' = net \ {d} /\ Forward(queue, b, "RAW", d.body)
      BY <1>1 DEF UdpRead
    <2>2. UNCHANGED <<inbound, out, offered, requested, stream, delivered, lost>>
      BY <1>1 DEF UdpRead
    <2> DEFINE P == PoolOf(net \ {d}, inbound, lost, dropped)
    <2>3. PoolTakes(Pool, At("net"), d.body, P)
      BY NetTakes DEF PlaceInv, NetDistinct, Pool
    <2>4. Takes(Line, Pool, At("net"), d.body, Line, P)
      BY <2>3 DEF Takes, PoolPlaces
    <2>5. QueuesTyped(queue) /\ d.body \in Bodies /\ "RAW" \in Types
      BY BodyFacts DEF Typed, RelayTyped, Datagrams, Types
    <2>6. \E e \in ForwardsTo(b, "RAW") :
            Puts(LineOf(queue, stream, out, delivered), P, e, d.body,
                 LineOf(queue', stream, out, delivered),
                 PoolOf(net \ {d}, inbound, lost, dropped'))
      BY <2>1, <2>5, ForwardPuts
    <2>7. /\ Line' = LineOf(queue', stream, out, delivered)
          /\ Pool' = PoolOf(net \ {d}, inbound, lost, dropped')
      BY <2>1, <2>2 DEF Line, Pool
    <2>8. Moves(At("net"), ForwardsTo(b, "RAW"))
      BY <2>4, <2>6, <2>7 DEF Moves, Line
    <2>9. QED
      BY <2>1, <2>2, <2>8 DEF PlaceInv, NetDistinct, Sent
  <1>2. ASSUME UdpRun(b)
        PROVE  /\ Moves(<<"queue", b>>, {At("net"), At("inbound"), At("dropped")})
               /\ NetDistinct' /\ Sent' = Sent
    <2> DEFINE x == Head(queue[b]).body
               L == LineOf(Taken(b), stream, out, delivered)
               D == {At("net"), At("inbound"), At("dropped")}
    <2>1. /\ queue[b] # <<>> /\ queue' = Taken(b)
          /\ IF Socket(b).remote = 0
             THEN dropped' = dropped \cup {x} /\ UNCHANGED <<net, inbound>>
             ELSE SendTo(Socket(b).host, Socket(b).remote, x) /\ UNCHANGED dropped
          /\ UNCHANGED <<out, offered, requested, stream, delivered, lost>>
      BY <1>2 DEF UdpRun
    <2>2. b \in QueueBlocks
      BY DEF QueueBlocks
    <2>3. Takes(Line, Pool, <<"queue", b>>, x, L, Pool)
      BY <2>1, <2>2, TakesQueue
    <2>4. Line' = L /\ Sent' = Sent
      BY <2>1 DEF Line, Sent
    <2>5. CASE Socket(b).remote = 0
      <3>1. PoolPuts(Pool, At("dropped"), x, Pool')
        <4>1. PoolPuts(Pool, At("dropped"), x, PoolOf(net, inbound, lost, dropped \cup {x}))
          BY DroppedPuts DEF Pool
        <4>2. Pool' = PoolOf(net, inbound, lost, dropped \cup {x})
          BY <2>1, <2>5 DEF Pool
        <4>3. QED
          BY <4>1, <4>2
      <3>2. At("dropped") \in D /\ Puts(L, Pool, At("dropped"), x, Line', Pool')
        BY <2>4, <3>1 DEF Puts, PoolPlaces
      <3>3. NetDistinct'
        BY <2>1, <2>5 DEF PlaceInv, NetDistinct
      <3> HIDE DEF x, L, D
      <3>4. Moves(<<"queue", b>>, D)
        BY <2>3, <3>2 DEF Moves
      <3>5. QED
        BY <2>4, <3>3, <3>4 DEF D
    <2>6. CASE Socket(b).remote # 0
      <3>1. SendTo(Socket(b).host, Socket(b).remote, x) /\ UNCHANGED dropped
        BY <2>1, <2>6
      <3>2. \A d \in net : d.body # x
        BY <2>1, <2>2, QueuedNotInNet
      <3>3. Pool' = PoolOf(net', inbound', lost, dropped)
        BY <2>1, <3>1 DEF Pool
      <3> HIDE DEF x, L, D
      <3>4. /\ \E d \in {At("net"), At("inbound")} :
                 Puts(L, PoolOf(net, inbound, lost, dropped), d, x, L,
                      PoolOf(net', inbound', lost, dropped))
            /\ NetDistinct'
        BY <3>1, <3>2, SendPuts DEF PlaceInv
      <3>5. \E d \in D : Puts(L, Pool, d, x, Line', Pool')
        BY <2>4, <3>3, <3>4 DEF Pool, D
      <3>6. Moves(<<"queue", b>>, D)
        BY <2>3, <3>5 DEF Moves
      <3>7. QED
        BY <2>4, <3>4, <3>6 DEF D
    <2>7. QED
      BY <2>5, <2>6
  <1>3. QED
    BY <1>1, <1>2

\* The converters.
LEMMA ConvertMoves ==
  ASSUME Typed, PlaceInv, NEW b \in QueueBlocks, NEW U, NEW V \in Types, Convert(b, U, V)
  PROVE  Moves(<<"queue", b>>, ForwardsTo(b, V)) /\ NetDistinct' /\ Sent' = Sent
  <1> DEFINE m == Head(queue[b])
             L == LineOf(Taken(b), stream, out, delivered)
  <1>1. /\ queue[b] # <<>>
        /\ IF m.type = U THEN Forward(Taken(b), b, V, m.body)
           ELSE queue' = Taken(b) /\ dropped' = dropped \cup {m.body}
        /\ UNCHANGED <<inbound, out, offered, requested, net, stream, delivered, lost>>
    BY DEF Convert, clientVars, packetVars
  <1>2. /\ Takes(Line, Pool, <<"queue", b>>, m.body, L, Pool)
        /\ m.body \in Bodies /\ QueuesTyped(Taken(b))
    BY <1>1, TakesQueue
  <1>3. \E d \in ForwardsTo(b, V) : Puts(L, Pool, d, m.body, Line', Pool')
    <2>1. /\ Line' = LineOf(queue', stream, out, delivered)
          /\ Pool' = PoolOf(net, inbound, lost, dropped')
      BY <1>1 DEF Line, Pool
    <2>2. CASE m.type = U
      <3>1. Forward(Taken(b), b, V, m.body)
        BY <1>1, <2>2
      <3>2. QED
        BY <1>2, <2>1, <3>1, ForwardPuts DEF Pool
    <2>3. CASE m.type # U
      <3>1. PoolPuts(Pool, At("dropped"), m.body,
                     PoolOf(net, inbound, lost, dropped \cup {m.body}))
        BY DroppedPuts DEF Pool
      <3>2. Line' = L /\ Pool' = PoolOf(net, inbound, lost, dropped \cup {m.body})
        BY <1>1, <2>1, <2>3
      <3>3. At("dropped") \in ForwardsTo(b, V) /\ At("dropped") \in PoolPlaces
        BY DEF ForwardsTo, PoolPlaces
      <3> HIDE DEF m, L
      <3>4. QED
        BY <3>1, <3>2, <3>3 DEF Puts
    <2>4. QED
      BY <2>2, <2>3
  <1>4. NetDistinct' /\ Sent' = Sent
    BY <1>1 DEF PlaceInv, NetDistinct, Sent
  <1> HIDE DEF m, L
  <1>5. QED
    BY <1>2, <1>3, <1>4 DEF Moves

\* The converter behind ScreamClient.
LEMMA ConvertToRawMoves ==
  ASSUME Typed, PlaceInv, ConvertToRaw
  PROVE  Moves(At("out"), ForwardsTo(ClientConverter, "RAW")) /\ NetDistinct' /\ Sent' = Sent
  <1>1. /\ out # <<>> /\ out' = Tail(out)
        /\ Forward(queue, ClientConverter, "RAW", Head(out))
        /\ UNCHANGED <<inbound, offered, requested, net, stream, delivered, lost>>
    BY DEF ConvertToRaw, Take
  <1> DEFINE L == LineOf(queue, stream, Tail(out), delivered)
  <1>2. Takes(Line, Pool, At("out"), Head(out), L, Pool)
    BY <1>1, OutTakes, PlaceNames DEF Takes, Line
  <1>3. Head(out) \in Bodies /\ "RAW" \in Types /\ QueuesTyped(queue)
    <2>1. Head(out) \in Packets
      BY <1>1 DEF Typed
    <2>2. QED
      BY <2>1, BodyFacts DEF Typed, RelayTyped, Types
  <1>4. \E d \in ForwardsTo(ClientConverter, "RAW") :
          Puts(LineOf(queue, stream, out', delivered), PoolOf(net, inbound, lost, dropped),
               d, Head(out), LineOf(queue', stream, out', delivered),
               PoolOf(net, inbound, lost, dropped'))
    BY <1>1, <1>3, ForwardPuts
  <1>5. /\ Line' = LineOf(queue', stream, out', delivered)
        /\ Pool' = PoolOf(net, inbound, lost, dropped')
        /\ L = LineOf(queue, stream, out', delivered)
    BY <1>1 DEF Line, Pool
  <1>6. NetDistinct' /\ Sent' = Sent
    BY <1>1 DEF PlaceInv, NetDistinct, Sent
  <1> HIDE DEF L
  <1>7. QED
    BY <1>2, <1>4, <1>5, <1>6 DEF Moves, Pool

\* The controller sends a packet on its way, and its requests are new messages.
LEMMA ScreamMoves ==
  ASSUME Typed, PlaceInv, ScreamSend
  PROVE  /\ Moves(<<"queue", ServerScream>>, {At("net"), At("inbound")})
         /\ NetDistinct' /\ Sent' = Sent
  <1> DEFINE x == Head(queue[ServerScream]).body
             L == LineOf(Taken(ServerScream), stream, out, delivered)
  <1>1. /\ queue[ServerScream] # <<>> /\ queue' = Taken(ServerScream)
        /\ SendTo(Socket(ServerScream).host, Socket(ServerScream).remote, x)
        /\ UNCHANGED <<out, offered, requested, stream, delivered, lost, dropped>>
    BY DEF ScreamSend
  <1>2. ServerScream \in QueueBlocks
    BY DEF QueueBlocks
  <1>3. Takes(Line, Pool, <<"queue", ServerScream>>, x, L, Pool)
    BY <1>1, <1>2, TakesQueue
  <1>4. \A d \in net : d.body # x
    BY <1>1, <1>2, QueuedNotInNet
  <1>5. Line' = L /\ Sent' = Sent /\ Pool' = PoolOf(net', inbound', lost, dropped)
    BY <1>1 DEF Line, Pool, Sent
  <1> HIDE DEF x, L
  <1>6. /\ \E d \in {At("net"), At("inbound")} :
             Puts(L, PoolOf(net, inbound, lost, dropped), d, x, L,
                  PoolOf(net', inbound', lost, dropped))
        /\ NetDistinct'
    BY <1>1, <1>4, SendPuts DEF PlaceInv
  <1>7. QED
    BY <1>3, <1>5, <1>6 DEF Moves, Pool

\* What the controller gives up is dropped.
LEMMA DiscardMoves ==
  ASSUME Typed, PlaceInv, ScreamDiscard
  PROVE  /\ Moves(<<"queue", ServerScream>>, {At("dropped")})
         /\ NetDistinct' /\ Sent' = Sent
  <1> DEFINE x == Head(queue[ServerScream]).body
             L == LineOf(Taken(ServerScream), stream, out, delivered)
  <1>1. /\ queue[ServerScream] # <<>> /\ queue' = Taken(ServerScream)
        /\ dropped' = dropped \cup {x}
        /\ UNCHANGED <<inbound, out, offered, requested, net, stream, delivered, lost>>
    BY DEF ScreamDiscard, clientVars, packetVars
  <1>2. ServerScream \in QueueBlocks
    BY DEF QueueBlocks
  <1>3. Takes(Line, Pool, <<"queue", ServerScream>>, x, L, Pool)
    BY <1>1, <1>2, TakesQueue
  <1>4. Line' = L /\ Pool' = PoolOf(net, inbound, lost, dropped \cup {x})
    BY <1>1 DEF Line, Pool
  <1>5. PoolPuts(Pool, At("dropped"), x, PoolOf(net, inbound, lost, dropped \cup {x}))
    BY DroppedPuts DEF Pool
  <1>6. NetDistinct' /\ Sent' = Sent
    BY <1>1 DEF PlaceInv, NetDistinct, Sent
  <1>7. At("dropped") \in PoolPlaces
    BY DEF PoolPlaces
  <1> HIDE DEF x, L
  <1>8. QED
    BY <1>3, <1>4, <1>5, <1>6, <1>7 DEF Moves, Puts

\* A bitrate request is new, and goes to its converter or nowhere.
LEMMA RequestEnters ==
  ASSUME Typed, PlaceInv, ScreamRequest
  PROVE  /\ Enters(MaxPackets + requested + 1, ForwardsTo(ServerScream, "BITRATE_REQUEST"))
         /\ NetDistinct'
  <1> DEFINE x == MaxPackets + requested + 1
  <1>1. /\ requested < MaxRequests /\ requested' = requested + 1
        /\ Forward(queue, ServerScream, "BITRATE_REQUEST", x)
        /\ UNCHANGED <<inbound, out, offered, net, stream, delivered, lost>>
    BY DEF ScreamRequest, clientVars, packetVars
  <1>2. /\ offered \in 0..MaxPackets /\ requested \in 0..MaxRequests
        /\ QueuesTyped(queue) /\ "BITRATE_REQUEST" \in Types
    BY DEF Typed, RelayTyped, Types
  <1>3. x \in Bodies \ Sent
    BY <1>1, <1>2, ClientAssumption, RequestsAssumption DEF Bodies, Requests, Packets, Sent
  <1>4. Sent' = Sent \cup {x}
    <2>1. PICK r \in Nat : r = requested'
      BY <1>1, <1>2
    <2>2. 1..offered \cup MaxPackets + 1..MaxPackets + r
            = (1..offered \cup MaxPackets + 1..MaxPackets + requested) \cup {x}
      BY <1>1, <1>2, <2>1, ClientAssumption
    <2>3. QED
      BY <1>1, <2>1, <2>2 DEF Sent
  <1> HIDE DEF x
  <1>5. \E d \in ForwardsTo(ServerScream, "BITRATE_REQUEST") :
          Puts(Line, Pool, d, x, LineOf(queue', stream, out, delivered),
               PoolOf(net, inbound, lost, dropped'))
    BY <1>1, <1>2, <1>3, ForwardPuts DEF Line, Pool
  <1>6. /\ Line' = LineOf(queue', stream, out, delivered)
        /\ Pool' = PoolOf(net, inbound, lost, dropped')
    BY <1>1 DEF Line, Pool
  <1>7. NetDistinct'
    BY <1>1 DEF PlaceInv, NetDistinct
  <1>8. Enters(x, ForwardsTo(ServerScream, "BITRATE_REQUEST"))
    BY <1>3, <1>4, <1>5, <1>6 DEF Enters
  <1>9. QED
    BY <1>7, <1>8 DEF x

\* What a TCP block takes from its queue it writes, loses or discards.
LEMMA TcpRunMoves ==
  ASSUME Typed, PlaceInv, NEW b \in TcpBlocks, WritesOrDrops(b)
  PROVE  /\ Moves(<<"queue", b>>, {<<"stream", WritesOf(b)>>, At("lost"), At("dropped")})
         /\ NetDistinct' /\ Sent' = Sent
  <1> DEFINE m == Head(queue[b])
             L == LineOf(Taken(b), stream, out, delivered)
             D == {<<"stream", WritesOf(b)>>, At("lost"), At("dropped")}
  <1>1. /\ queue[b] # <<>> /\ queue' = Taken(b)
        /\ \/ WriteTo(WritesOf(b), m.body) /\ dropped' = dropped
           \/ dropped' = dropped \cup {m.body} /\ stream' = stream /\ lost' = lost
        /\ UNCHANGED <<inbound, out, offered, requested, net, delivered>>
    BY DEF WritesOrDrops, clientVars, packetVars
  <1>2. b \in QueueBlocks
    BY DEF QueueBlocks
  <1>3. Takes(Line, Pool, <<"queue", b>>, m.body, L, Pool)
    BY <1>1, <1>2, TakesQueue
  <1>4. \E d \in D : Puts(L, Pool, d, m.body, Line', Pool')
    <2>1. /\ Line' = LineOf(Taken(b), stream', out, delivered)
          /\ Pool' = PoolOf(net, inbound, lost', dropped')
      BY <1>1 DEF Line, Pool
    <2>2. CASE WriteTo(WritesOf(b), m.body) /\ dropped' = dropped
      <3>1. WriteTo(WritesOf(b), m.body) /\ dropped' = dropped
        BY <2>2
      <3>2. stream \in [Streams -> Seq(Bodies)] /\ WritesOf(b) \in Streams
        BY StreamNames DEF Typed, RelayTyped
      <3>3. \E d \in {<<"stream", WritesOf(b)>>, At("lost")} :
              Puts(L, Pool, d, m.body, Line', Pool')
        BY <2>1, <3>1, <3>2, WritePuts DEF Pool
      <3>4. QED
        BY <3>3
    <2>3. CASE dropped' = dropped \cup {m.body} /\ stream' = stream /\ lost' = lost
      <3>1. PoolPuts(Pool, At("dropped"), m.body,
                     PoolOf(net, inbound, lost, dropped \cup {m.body}))
        BY DroppedPuts DEF Pool
      <3>2. Line' = L /\ Pool' = PoolOf(net, inbound, lost, dropped \cup {m.body})
        BY <1>1, <2>1, <2>3
      <3>3. At("dropped") \in D /\ At("dropped") \in PoolPlaces
        BY DEF PoolPlaces
      <3> HIDE DEF m, L, D
      <3>4. QED
        BY <3>1, <3>2, <3>3 DEF Puts
    <2>4. QED
      BY <1>1, <2>2, <2>3
  <1>5. NetDistinct' /\ Sent' = Sent
    BY <1>1 DEF PlaceInv, NetDistinct, Sent
  <1> HIDE DEF m, L
  <1>6. QED
    BY <1>3, <1>4, <1>5 DEF Moves

\* The first message of a stream is taken.
LEMMA TakesStream ==
  ASSUME Typed, NEW s \in Streams, stream[s] # <<>>, stream' = [stream EXCEPT ![s] = Tail(@)]
  PROVE  /\ Takes(Line, Pool, <<"stream", s>>, Head(stream[s]),
                  LineOf(queue, stream', out, delivered), Pool)
         /\ Head(stream[s]) \in Bodies
  <1>1. stream \in [Streams -> Seq(Bodies)] /\ stream[s] \in Seq(Bodies)
    BY DEF Typed, RelayTyped
  <1>2. /\ stream'[s] = Tail(stream[s])
        /\ \A t \in Streams : t # s => stream'[t] = stream[t]
    BY <1>1
  <1>3. LineTakes(Line, <<"stream", s>>, Head(stream[s]),
                  LineOf(queue, stream', out, delivered))
    BY <1>2, StreamTakes DEF Line
  <1>4. Head(stream[s]) \in Bodies
    BY <1>1
  <1>5. QED
    BY <1>3, <1>4, PlaceNames DEF Takes

\* What a TCP block reads goes to the queue registered for it, or is dropped.
LEMMA TcpReadMoves ==
  ASSUME Typed, PlaceInv, NEW b \in TcpBlocks, ForwardsOrDrops(b)
  PROVE  /\ Moves(<<"stream", ReadsOf(b)>>, ForwardsTo(b, "RAW"))
         /\ NetDistinct' /\ Sent' = Sent
  <1> DEFINE s == ReadsOf(b)
             x == Head(stream[s])
             L == LineOf(queue, stream', out, delivered)
  <1>1. /\ stream[s] # <<>> /\ stream' = [stream EXCEPT ![s] = Tail(@)]
        /\ Forward(queue, b, "RAW", x) \/ (dropped' = dropped \cup {x} /\ queue' = queue)
        /\ UNCHANGED <<inbound, out, offered, requested, net, delivered, lost>>
    BY DEF ForwardsOrDrops, clientVars, packetVars
  <1>2. s \in Streams
    BY StreamNames
  <1>3. Takes(Line, Pool, <<"stream", s>>, x, L, Pool) /\ x \in Bodies
    BY <1>1, <1>2, TakesStream
  <1>4. QueuesTyped(queue) /\ "RAW" \in Types
    BY DEF Typed, RelayTyped, Types
  <1>5. /\ Line' = LineOf(queue', stream', out, delivered)
        /\ Pool' = PoolOf(net, inbound, lost, dropped')
    BY <1>1 DEF Line, Pool
  <1>6. NetDistinct' /\ Sent' = Sent
    BY <1>1 DEF PlaceInv, NetDistinct, Sent
  <1>7. \E d \in ForwardsTo(b, "RAW") : Puts(L, Pool, d, x, Line', Pool')
    <2>1. CASE Forward(queue, b, "RAW", x)
      BY <1>3, <1>4, <1>5, <2>1, ForwardPuts DEF Pool
    <2>2. CASE dropped' = dropped \cup {x} /\ queue' = queue
      <3>1. PoolPuts(Pool, At("dropped"), x, PoolOf(net, inbound, lost, dropped \cup {x}))
        BY DroppedPuts DEF Pool
      <3>2. Line' = L /\ Pool' = PoolOf(net, inbound, lost, dropped \cup {x})
        BY <1>5, <2>2
      <3>3. At("dropped") \in ForwardsTo(b, "RAW") /\ At("dropped") \in PoolPlaces
        BY DEF ForwardsTo, PoolPlaces
      <3> HIDE DEF x, L
      <3>4. QED
        BY <3>1, <3>2, <3>3 DEF Puts
    <2>3. QED
      BY <1>1, <2>1, <2>2
  <1> HIDE DEF x, L
  <1>8. QED
    BY <1>3, <1>6, <1>7 DEF Moves

\* The ends receive and read.
LEMMA GameReceiveMoves ==
  ASSUME Typed, PlaceInv, GameReceive
  PROVE  Moves(At("net"), {At("delivered")}) /\ NetDistinct' /\ Sent' = Sent
  <1>1. PICK d \in net : /\ d.host \in Ends /\ net' = net \ {d}
                         /\ Deliver(d.host, d.port, d.body)
    BY DEF GameReceive
  <1>2. UNCHANGED <<inbound, out, offered, requested, queue, stream, lost, dropped>>
    BY DEF GameReceive, clientVars, packetVars
  <1> DEFINE m == [host |-> d.host, port |-> d.port, body |-> d.body]
             P == PoolOf(net \ {d}, inbound, lost, dropped)
  <1>3. Takes(Line, Pool, At("net"), d.body, Line, P)
    <2>1. PoolTakes(Pool, At("net"), d.body, P)
      BY NetTakes DEF PlaceInv, NetDistinct, Pool
    <2>2. QED
      BY <2>1 DEF Takes, PoolPlaces
  <1>4. delivered' = Append(delivered, m) /\ m \in Deliveries /\ m.body = d.body
    BY <1>1, BodyFacts DEF Deliver, Deliveries, Typed, RelayTyped, Datagrams
  <1>5. delivered \in Seq(Deliveries)
    BY DEF Typed, RelayTyped
  <1> HIDE DEF m
  <1>6. LinePuts(Line, At("delivered"), m.body, LineOf(queue, stream, out, delivered'))
    BY <1>4, <1>5, DeliverPuts DEF Line
  <1>7. Line' = LineOf(queue, stream, out, delivered') /\ Pool' = P
    BY <1>1, <1>2 DEF Line, Pool
  <1>8. NetDistinct' /\ Sent' = Sent
    BY <1>1, <1>2 DEF PlaceInv, NetDistinct, Sent
  <1>9. Puts(Line, P, At("delivered"), d.body, Line', Pool')
    BY <1>4, <1>6, <1>7, PlaceNames DEF Puts
  <1> HIDE DEF P
  <1>10. QED
    BY <1>3, <1>8, <1>9 DEF Moves

\* What an end reads from its stream has come out.
LEMMA GameReadMoves ==
  ASSUME Typed, PlaceInv, NEW end \in Ends, GameRead(end)
  PROVE  /\ Moves(<<"stream", EndReads(end)>>, {At("delivered")})
         /\ NetDistinct' /\ Sent' = Sent
  <1> DEFINE s == EndReads(end)
             x == Head(stream[s])
             m == [host |-> end, port |-> s[1][2], body |-> x]
             L == LineOf(queue, stream', out, delivered)
  <1>1. /\ stream[s] # <<>> /\ stream' = [stream EXCEPT ![s] = Tail(@)]
        /\ Deliver(end, s[1][2], x)
        /\ UNCHANGED <<inbound, out, offered, requested, queue, net, lost, dropped>>
    BY DEF GameRead, clientVars, packetVars
  <1>2. s \in Streams /\ s[1][2] \in Nat
    BY StreamNames
  <1>3. Takes(Line, Pool, <<"stream", s>>, x, L, Pool) /\ x \in Bodies
    BY <1>1, <1>2, TakesStream
  <1>4. delivered' = Append(delivered, m) /\ m \in Deliveries /\ m.body = x
    BY <1>1, <1>2, <1>3 DEF Deliver, Deliveries
  <1>5. delivered \in Seq(Deliveries)
    BY DEF Typed, RelayTyped
  <1> HIDE DEF m
  <1>6. LinePuts(L, At("delivered"), m.body, LineOf(queue, stream', out, delivered'))
    BY <1>4, <1>5, DeliverPuts
  <1>7. Line' = LineOf(queue, stream', out, delivered') /\ Pool' = Pool
    BY <1>1 DEF Line, Pool
  <1>8. NetDistinct' /\ Sent' = Sent
    BY <1>1 DEF PlaceInv, NetDistinct, Sent
  <1> HIDE DEF x, L
  <1>9. Puts(L, Pool, At("delivered"), x, Line', Pool')
    BY <1>4, <1>6, <1>7, PlaceNames DEF Puts
  <1>10. QED
    BY <1>3, <1>8, <1>9 DEF Moves

\* The network loses a datagram.
LEMMA LoseMoves ==
  ASSUME Typed, PlaceInv, LoseDatagram
  PROVE  /\ Moves(At("net"), {At("lost")}) \/ Moves(At("inbound"), {At("lost")})
         /\ NetDistinct' /\ Sent' = Sent
  <1>1. UNCHANGED <<offered, requested, queue, stream, delivered, dropped>>
    BY DEF LoseDatagram
  <1>2. ASSUME NEW d \in net, net' = net \ {d}, lost' = lost \cup {d.body},
               UNCHANGED clientVars
        PROVE  Moves(At("net"), {At("lost")}) /\ NetDistinct'
    <2> DEFINE P == PoolOf(net \ {d}, inbound, lost, dropped)
    <2>1. PoolTakes(Pool, At("net"), d.body, P)
      BY NetTakes DEF PlaceInv, NetDistinct, Pool
    <2>2. PoolPuts(P, At("lost"), d.body, PoolOf(net \ {d}, inbound, lost \cup {d.body}, dropped))
      BY LostPuts
    <2>3. Line' = Line /\ Pool' = PoolOf(net \ {d}, inbound, lost \cup {d.body}, dropped)
      BY <1>1, <1>2 DEF Line, Pool, clientVars, packetVars
    <2>4. NetDistinct'
      BY <1>2 DEF PlaceInv, NetDistinct
    <2> HIDE DEF P
    <2>5. /\ Takes(Line, Pool, At("net"), d.body, Line, P)
          /\ Puts(Line, P, At("lost"), d.body, Line', Pool')
      BY <2>1, <2>2, <2>3 DEF Takes, Puts, PoolPlaces
    <2>6. QED
      BY <2>4, <2>5 DEF Moves
  <1>3. ASSUME NEW p \in inbound, Lose(p), lost' = lost \cup {p}, UNCHANGED net
        PROVE  Moves(At("inbound"), {At("lost")}) /\ NetDistinct'
    <2> DEFINE P == PoolOf(net, inbound \ {p}, lost, dropped)
    <2>1. PoolTakes(Pool, At("inbound"), p, P)
      BY InboundTakes DEF Pool
    <2>2. PoolPuts(P, At("lost"), p, PoolOf(net, inbound \ {p}, lost \cup {p}, dropped))
      BY LostPuts
    <2>3. Line' = Line /\ Pool' = PoolOf(net, inbound \ {p}, lost \cup {p}, dropped)
      BY <1>1, <1>3 DEF Line, Pool, Lose
    <2>4. NetDistinct'
      BY <1>3 DEF PlaceInv, NetDistinct
    <2> HIDE DEF P
    <2>5. /\ Takes(Line, Pool, At("inbound"), p, Line, P)
          /\ Puts(Line, P, At("lost"), p, Line', Pool')
      BY <2>1, <2>2, <2>3 DEF Takes, Puts, PoolPlaces
    <2>6. QED
      BY <2>4, <2>5 DEF Moves
  <1>4. Sent' = Sent
    BY <1>1 DEF Sent
  <1>5. QED
    BY <1>2, <1>3, <1>4 DEF LoseDatagram

\* ScreamClient moves packets from its socket to its queue; its other steps move
\* nothing.
LEMMA ReceiverMoves ==
  ASSUME Typed, PlaceInv, Receiver, UNCHANGED <<flow, relayVars>>
  PROVE  /\ Moves(At("inbound"), {At("out")}) \/ (Line' = Line /\ Pool' = Pool)
         /\ NetDistinct' /\ Sent' = Sent
  <1>1. UNCHANGED <<offered, requested, queue, net, stream, delivered, lost, dropped>>
    BY DEF relayVars
  <1>2. ASSUME NEW p \in Packets, RunRecv(p) PROVE Moves(At("inbound"), {At("out")})
    <2>1. p \in inbound /\ inbound' = inbound \ {p} /\ out' = Append(out, p)
      BY <1>2 DEF RunRecv
    <2> DEFINE P == PoolOf(net, inbound \ {p}, lost, dropped)
               L == LineOf(queue, stream, Append(out, p), delivered)
    <2>2. PoolTakes(Pool, At("inbound"), p, P)
      BY <2>1, InboundTakes DEF Pool
    <2>3. LinePuts(Line, At("out"), p, L)
      BY OutPuts DEF Line
    <2>4. Line' = L /\ Pool' = P
      BY <1>1, <2>1 DEF Line, Pool
    <2> HIDE DEF P, L
    <2>5. /\ Takes(Line, Pool, At("inbound"), p, Line, P)
          /\ Puts(Line, P, At("out"), p, Line', Pool')
      BY <2>2, <2>3, <2>4, PlaceNames DEF Takes, Puts, PoolPlaces
    <2>6. QED
      BY <2>5 DEF Moves
  <1>3. CASE \E p \in Packets : RunRecv(p)
    BY <1>1, <1>2, <1>3 DEF PlaceInv, NetDistinct, Sent
  <1>4. CASE ~\E p \in Packets : RunRecv(p)
    <2>1. UNCHANGED <<inbound, out>>
      BY <1>4 DEF Receiver, Ending, Looping, Feedback, Clock, Start, Stop, Run, RunSpawn,
                  RunTop, RunNothing, RunReceive, RunFeedback, RunNoFeedback, RunEnd,
                  Rtcp, RtcpTop, RtcpClock, RtcpIsFeedback, RtcpFlush, RtcpInterval,
                  RtcpFeedback, RtcpNoFeedback, Tick, Move, packetVars
    <2>2. QED
      BY <1>1, <2>1 DEF PlaceInv, NetDistinct, Sent, Line, Pool
  <1>5. QED
    BY <1>3, <1>4

\* An end sends a new message.
LEMMA GameSendEnters ==
  ASSUME Typed, PlaceInv, GameSend
  PROVE  /\ Enters(offered + 1, IF flow.name = "commands"
                                THEN {<<"stream", EndWrites(flow.from)>>, At("lost")}
                                ELSE {At("net"), At("inbound")})
         /\ NetDistinct'
  <1> DEFINE x == offered + 1
  <1>1. /\ offered < MaxPackets /\ offered' = x
        /\ IF flow.name = "commands"
           THEN WriteTo(EndWrites(flow.from), offered') /\ UNCHANGED <<net, inbound>>
           ELSE SendTo(Near(flow.from), flow.entry, offered') /\ UNCHANGED <<stream, lost>>
        /\ UNCHANGED <<out, requested, queue, delivered, dropped>>
    BY DEF GameSend
  <1>2. /\ offered \in 0..MaxPackets /\ requested \in 0..MaxRequests /\ flow \in Flows
        /\ stream \in [Streams -> Seq(Bodies)]
    BY DEF Typed, RelayTyped
  <1>3. x \in Bodies \ Sent
    BY <1>1, <1>2, ClientAssumption, RequestsAssumption DEF Bodies, Requests, Packets, Sent
  <1>4. Sent' = Sent \cup {x}
    <2>1. PICK r \in Nat : r = offered' /\ r = x
      BY <1>1, <1>2
    <2>2. 1..r \cup MaxPackets + 1..MaxPackets + requested
            = (1..offered \cup MaxPackets + 1..MaxPackets + requested) \cup {x}
      BY <1>1, <1>2, <2>1, ClientAssumption
    <2>3. QED
      BY <1>1, <2>1, <2>2 DEF Sent
  <1>5. \A d \in net : d.body # x
    <2>1. Pool[At("net")] = {d.body : d \in net} /\ At("net") \in PoolPlaces
      BY PoolValues DEF Pool, PoolPlaces
    <2>2. x \notin Pool[At("net")]
      BY <1>3, <2>1 DEF PlaceInv, WellPlaced
    <2>3. QED
      BY <2>1, <2>2
  <1> HIDE DEF x
  <1>6. CASE flow.name = "commands"
    <2>1. WriteTo(EndWrites(flow.from), x) /\ UNCHANGED <<net, inbound>>
      BY <1>1, <1>6
    <2>2. EndWrites(flow.from) \in Streams
      BY <1>2, <1>6, FlowFields, StreamNames
    <2>3. \E d \in {<<"stream", EndWrites(flow.from)>>, At("lost")} :
            Puts(Line, Pool, d, x, LineOf(queue, stream', out, delivered),
                 PoolOf(net, inbound, lost', dropped))
      BY <1>2, <2>1, <2>2, WritePuts DEF Line, Pool
    <2>4. /\ Line' = LineOf(queue, stream', out, delivered)
          /\ Pool' = PoolOf(net, inbound, lost', dropped)
      BY <1>1, <2>1 DEF Line, Pool
    <2>5. NetDistinct'
      BY <2>1 DEF PlaceInv, NetDistinct
    <2>6. Enters(x, {<<"stream", EndWrites(flow.from)>>, At("lost")})
      BY <1>3, <1>4, <2>3, <2>4 DEF Enters
    <2>7. QED
      BY <1>6, <2>5, <2>6 DEF x
  <1>7. CASE flow.name # "commands"
    <2>1. SendTo(Near(flow.from), flow.entry, x) /\ UNCHANGED <<stream, lost>>
      BY <1>1, <1>7
    <2>2. /\ \E d \in {At("net"), At("inbound")} :
               Puts(Line, PoolOf(net, inbound, lost, dropped), d, x, Line,
                    PoolOf(net', inbound', lost, dropped))
          /\ NetDistinct'
      BY <1>5, <2>1, SendPuts DEF PlaceInv
    <2>3. Line' = Line /\ Pool' = PoolOf(net', inbound', lost, dropped)
      BY <1>1, <2>1 DEF Line, Pool
    <2>4. Enters(x, {At("net"), At("inbound")})
      BY <1>3, <1>4, <2>2, <2>3 DEF Enters, Pool
    <2>5. QED
      BY <1>7, <2>2, <2>4 DEF x
  <1>8. QED
    BY <1>6, <1>7

\* What some lines hold moves to a pool all at once.
Emptied(L, P, E, c, L1, P1) ==
  /\ \A d \in E : DOMAIN L1[d] = {}
  /\ \A d \in LinePlaces \ E : L1[d] = L[d]
  /\ \A x : x \in P1[c] <=> x \in P[c] \/ \E d \in E : \E i \in DOMAIN L[d] : x = L[d][i]
  /\ \A d \in PoolPlaces \ {c} : P1[d] = P[d]

\* What a connection loses when it goes away is still in one place each.
LEMMA EmptiedKeeps ==
  ASSUME NEW L, NEW P, NEW S, WellPlaced(L, P, S), NEW E \in SUBSET LinePlaces,
         NEW c \in PoolPlaces, NEW L1, NEW P1, Emptied(L, P, E, c, L1, P1)
  PROVE  WellPlaced(L1, P1, S)
  <1>1. \A d \in E : DOMAIN L1[d] = {}
    BY DEF Emptied
  <1>2. \A d \in LinePlaces \ E : L1[d] = L[d]
    BY DEF Emptied
  <1>3. \A x : x \in P1[c] <=> x \in P[c] \/ \E d \in E : \E i \in DOMAIN L[d] : x = L[d][i]
    BY DEF Emptied
  <1>4. \A d \in PoolPlaces \ {c} : P1[d] = P[d]
    BY DEF Emptied
  <1>5. \A x \in S : \/ \E d \in LinePlaces : \E i \in DOMAIN L1[d] : L1[d][i] = x
                     \/ \E d \in PoolPlaces : x \in P1[d]
    <2>1. ASSUME NEW x \in S, NEW d \in LinePlaces, NEW i \in DOMAIN L[d], L[d][i] = x
          PROVE  \/ \E e \in LinePlaces : \E j \in DOMAIN L1[e] : L1[e][j] = x
                 \/ \E e \in PoolPlaces : x \in P1[e]
      <3>1. CASE d \in E
        BY <1>3, <2>1, <3>1
      <3>2. CASE d \notin E
        BY <1>2, <2>1, <3>2
      <3>3. QED
        BY <3>1, <3>2
    <2>2. ASSUME NEW x \in S, NEW d \in PoolPlaces, x \in P[d]
          PROVE  \E e \in PoolPlaces : x \in P1[e]
      BY <1>3, <1>4, <2>2
    <2>3. QED
      BY <2>1, <2>2 DEF WellPlaced
  <1>6. \A d \in LinePlaces : \A i \in DOMAIN L1[d] :
          d \notin E /\ i \in DOMAIN L[d] /\ L1[d][i] = L[d][i]
    BY <1>1, <1>2, <1>3, <1>4
  <1>7. \A d \in PoolPlaces : \A x \in P1[d] :
          \/ x \in P[d]
          \/ d = c /\ \E e \in E : \E i \in DOMAIN L[e] : x = L[e][i]
    BY <1>1, <1>2, <1>3, <1>4
  <1>8. \A d \in LinePlaces : \A i \in DOMAIN L1[d] : L1[d][i] \in S
    BY <1>6 DEF WellPlaced
  <1>9. \A d \in PoolPlaces : P1[d] \subseteq S
    BY <1>7 DEF WellPlaced
  <1>10. \A d, e \in LinePlaces : \A i \in DOMAIN L1[d], j \in DOMAIN L1[e] :
          L1[d][i] = L1[e][j] => d = e /\ i = j
    BY <1>6 DEF WellPlaced
  <1>11. \A d \in LinePlaces, e \in PoolPlaces : \A i \in DOMAIN L1[d] : L1[d][i] \notin P1[e]
    BY <1>6, <1>7 DEF WellPlaced
  <1>12. \A d, e \in PoolPlaces : d # e => P1[d] \cap P1[e] = {}
    BY <1>7 DEF WellPlaced
  <1>13. QED
    BY <1>5, <1>8, <1>9, <1>10, <1>11, <1>12 DEF WellPlaced

\* A connection goes away with what is on it.
LEMMA BreakKeeps ==
  ASSUME Typed, PlaceInv, NEW k \in Connections, Break(k)
  PROVE  /\ PlaceInv'
         /\ \A d \in LinePlaces : DOMAIN Line'[d] = {} \/ Line'[d] = Line[d]
  <1>1. /\ stream' = [s \in Streams |-> IF s[1] = k THEN <<>> ELSE stream[s]]
        /\ lost' = lost \cup ToSet(stream[<<k, "to">>]) \cup ToSet(stream[<<k, "back">>])
        /\ UNCHANGED <<inbound, out, offered, requested, queue, net, delivered, dropped>>
    BY DEF Break, clientVars, packetVars
  <1> DEFINE E  == {<<"stream", <<k, "to">>>>, <<"stream", <<k, "back">>>>}
             st == stream'
             ls == lost'
             L  == LineOf(queue, st, out, delivered)
             P  == PoolOf(net, inbound, ls, dropped)
  <1>2. Line' = L /\ Pool' = P
    BY <1>1 DEF Line, Pool
  <1>3. <<k, "to">> \in Streams /\ <<k, "back">> \in Streams
    BY DEF Streams
  <1>4. /\ st[<<k, "to">>] = <<>> /\ st[<<k, "back">>] = <<>>
        /\ \A s \in Streams : st[s] = <<>> \/ st[s] = stream[s]
        /\ \A s \in Streams : s # <<k, "to">> /\ s # <<k, "back">> => st[s] = stream[s]
    <2>1. \A s \in Streams : s[1] = k => s = <<k, "to">> \/ s = <<k, "back">>
      BY DEF Streams
    <2>2. QED
      BY <1>1, <1>3, <2>1
  <1>5. \A x : x \in ls <=> \/ x \in lost
                            \/ \E d \in E : \E i \in DOMAIN Line[d] : x = Line[d][i]
    <2>1. /\ Line[<<"stream", <<k, "to">>>>] = stream[<<k, "to">>]
          /\ Line[<<"stream", <<k, "back">>>>] = stream[<<k, "back">>]
      BY <1>3, StreamLine DEF Line
    <2>2. QED
      BY <1>1, <2>1 DEF ToSet
  <1> HIDE DEF st, ls
  <1>6. /\ \A d \in E : L[d] = <<>>
        /\ \A d \in LinePlaces : L[d] = <<>> \/ L[d] = Line[d]
        /\ \A d \in LinePlaces \ E : L[d] = Line[d]
    <2>1. ASSUME NEW s \in Streams
          PROVE  L[<<"stream", s>>] = st[s] /\ Line[<<"stream", s>>] = stream[s]
      <3>1. L[<<"stream", s>>] = st[s]
        BY StreamLine
      <3>2. Line[<<"stream", s>>] = stream[s]
        BY StreamLine DEF Line
      <3>3. QED
        BY <3>1, <3>2
    <2>2. ASSUME NEW b \in QueueBlocks PROVE L[<<"queue", b>>] = Line[<<"queue", b>>]
      <3>1. L[<<"queue", b>>] = BodiesOf(queue[b])
        BY QueueLine
      <3>2. Line[<<"queue", b>>] = BodiesOf(queue[b])
        BY QueueLine DEF Line
      <3>3. QED
        BY <3>1, <3>2
    <2>3. L[At("out")] = Line[At("out")] /\ L[At("delivered")] = Line[At("delivered")]
      BY LineValues DEF Line
    <2> HIDE DEF L
    <2>4. \A d \in E : L[d] = <<>>
      BY <1>3, <1>4, <2>1
    <2>5. ASSUME NEW d \in LinePlaces
          PROVE  (L[d] = <<>> \/ L[d] = Line[d]) /\ (d \notin E => L[d] = Line[d])
      <3>1. ASSUME NEW s \in Streams, d = <<"stream", s>>
            PROVE  (L[d] = <<>> \/ L[d] = Line[d]) /\ (d \notin E => L[d] = Line[d])
        <4>1. L[d] = st[s] /\ Line[d] = stream[s]
          BY <2>1, <3>1
        <4>2. d \notin E => s # <<k, "to">> /\ s # <<k, "back">>
          BY <3>1
        <4>3. QED
          BY <1>4, <4>1, <4>2
      <3>2. QED
        BY <2>2, <2>3, <3>1, PlaceNames
    <2>6. QED
      BY <2>4, <2>5
  <1>7. E \subseteq LinePlaces /\ At("lost") \in PoolPlaces
    BY <1>3, PlaceNames DEF PoolPlaces
  <1>8. P[At("lost")] = ls /\ \A d \in PoolPlaces \ {At("lost")} : P[d] = Pool[d]
    BY DEF PoolPlaces, PoolOf, Pool, At
  <1>9. Pool[At("lost")] = lost
    BY PoolValues DEF Pool
  <1> HIDE DEF E, L, P
  <1>10. DOMAIN << >> = {}
    OBVIOUS
  <1>11. WellPlaced(L, P, Sent)
    <2>1. /\ WellPlaced(Line, Pool, Sent) /\ E \in SUBSET LinePlaces
          /\ \A d \in E : DOMAIN L[d] = {}
          /\ \A d \in LinePlaces \ E : L[d] = Line[d]
      BY <1>6, <1>7, <1>10 DEF PlaceInv
    <2>2. PICK c \in PoolPlaces : c = At("lost")
      BY <1>7
    <2>3. \A x : x \in P[c] <=> \/ x \in Pool[c]
                                \/ \E d \in E : \E i \in DOMAIN Line[d] : x = Line[d][i]
      BY <1>5, <1>8, <1>9, <2>2
    <2>4. \A d \in PoolPlaces \ {c} : P[d] = Pool[d]
      BY <1>8, <2>2
    <2>5. QED
      <3>1. Emptied(Line, Pool, E, c, L, P)
        BY <2>1, <2>3, <2>4 DEF Emptied
      <3>2. QED
        BY <2>1, <3>1, EmptiedKeeps

  <1>12. Sent' = Sent /\ NetDistinct'
    BY <1>1 DEF PlaceInv, NetDistinct, Sent
  <1>13. QED
    BY <1>2, <1>6, <1>10, <1>11, <1>12 DEF PlaceInv

-----------------------------------------------------------------------------
\* Every message is in one place.

\* At first every place is empty.
LEMMA PlacesEmpty ==
  ASSUME Init
  PROVE  (\A c \in LinePlaces : Line[c] = <<>>) /\ \A c \in PoolPlaces : Pool[c] = {}
  <1>1. /\ queue = [b \in QueueBlocks |-> <<>>] /\ stream = [s \in Streams |-> <<>>]
        /\ out = <<>> /\ delivered = <<>> /\ net = {} /\ inbound = {}
        /\ lost = {} /\ dropped = {}
    BY DEF Init, ClientInit
  <1>2. BodiesOf(<<>>) = <<>>
    BY DEF BodiesOf
  <1>3. ASSUME NEW c \in LinePlaces PROVE Line[c] = <<>>
    <2>1. ASSUME NEW b \in QueueBlocks PROVE Line[<<"queue", b>>] = BodiesOf(queue[b])
      BY QueueLine DEF Line
    <2>2. ASSUME NEW s \in Streams PROVE Line[<<"stream", s>>] = stream[s]
      BY StreamLine DEF Line
    <2>3. Line[At("out")] = out /\ Line[At("delivered")] = BodiesOf(delivered)
      BY OutLine, DeliveredLine DEF Line
    <2>4. (\A b \in QueueBlocks : queue[b] = <<>>) /\ \A s \in Streams : stream[s] = <<>>
      BY <1>1
    <2>5. QED
      BY <1>1, <1>2, <2>1, <2>2, <2>3, <2>4, PlaceNames
  <1>4. ASSUME NEW c \in PoolPlaces PROVE Pool[c] = {}
    BY <1>1, PoolValues DEF Pool, PoolPlaces
  <1>5. QED
    BY <1>3, <1>4

\* At first nothing has been sent.
LEMMA PlaceInit == Init => PlaceInv
  <1> SUFFICES ASSUME Init PROVE PlaceInv
    OBVIOUS
  <1>1. net = {} /\ offered = 0 /\ requested = 0
    BY DEF Init
  <1>2. Sent = {}
    BY <1>1, ClientAssumption DEF Sent
  <1>3. WellPlaced(Line, Pool, Sent)
    BY <1>2, PlacesEmpty DEF WellPlaced
  <1>4. QED
    BY <1>1, <1>3 DEF PlaceInv, NetDistinct

\* Every step keeps each message in one place.
LEMMA PlaceStep == Typed /\ PlaceInv /\ [Next]_proxyVars => PlaceInv'
  <1> SUFFICES ASSUME Typed, PlaceInv, [Next]_proxyVars PROVE PlaceInv'
    OBVIOUS
  <1>1. Line \in AllLines /\ Pool \in AllPools
    BY PlacesTyped DEF Typed, RelayTyped
  <1>2. WellPlaced(Line, Pool, Sent)
    BY DEF PlaceInv
  <1>3. ASSUME NEW c, NEW D, Moves(c, D), NetDistinct', Sent' = Sent PROVE PlaceInv'
    BY <1>1, <1>2, <1>3, MovesKeep DEF PlaceInv
  <1>4. ASSUME NEW x, NEW D, Enters(x, D), NetDistinct' PROVE PlaceInv'
    BY <1>1, <1>2, <1>4, EntersKeep DEF PlaceInv
  <1>5. ASSUME Line' = Line, Pool' = Pool, NetDistinct', Sent' = Sent PROVE PlaceInv'
    BY <1>2, <1>5 DEF PlaceInv
  <1>6. CASE UNCHANGED proxyVars
    BY <1>6 DEF proxyVars, relayVars, clientVars, packetVars, PlaceInv, NetDistinct,
                Line, Pool, Sent
  <1>7. CASE Receiver /\ UNCHANGED <<flow, relayVars>>
    BY <1>3, <1>5, <1>7, ReceiverMoves
  <1>8. CASE Relay
    <2>1. ASSUME NEW b \in UdpBlocks, UdpRead(b) \/ UdpRun(b) PROVE PlaceInv'
      BY <1>3, <2>1, UdpMoves
    <2>2. ASSUME ConvertToRtp \/ ConvertToCommand PROVE PlaceInv'
      <3>1. /\ ServerConverter \in QueueBlocks /\ BrmConverter \in QueueBlocks
            /\ "RAW" \in Types /\ "RTP_PACKET" \in Types
        BY DEF QueueBlocks, Types
      <3>2. QED
        BY <1>3, <2>2, <3>1, ConvertMoves DEF ConvertToRtp, ConvertToCommand
    <2>3. CASE ConvertToRaw
      BY <1>3, <2>3, ConvertToRawMoves
    <2>4. CASE ScreamSend
      BY <1>3, <2>4, ScreamMoves
    <2>5. ASSUME NEW b \in TcpBlocks, WritesOrDrops(b) \/ ForwardsOrDrops(b)
          PROVE  PlaceInv'
      BY <1>3, <2>5, TcpRunMoves, TcpReadMoves
    <2>6. CASE GameReceive
      BY <1>3, <2>6, GameReceiveMoves
    <2>7. ASSUME NEW end \in Ends, GameRead(end) PROVE PlaceInv'
      BY <1>3, <2>7, GameReadMoves
    <2>8. QED
      BY <1>8, <2>1, <2>2, <2>3, <2>4, <2>5, <2>6, <2>7, TcpSteps, TcpKinds DEF Relay
  <1>0. ASSUME NEW b \in Servers,
               Reader(b) \/ TcpServerReport(b, "run") \/ ReaderSpuriousWakeup(b)
        PROVE  PlaceInv'
    <2>1. ServerOnly
      BY <1>0, ReaderSteps DEF Typed
    <2>2. QED
      BY <1>5, <2>1
         DEF ServerOnly, clientVars, packetVars, PlaceInv, NetDistinct, Line, Pool, Sent
  <1>9. CASE Environment
    <2>0. CASE ScreamDiscard
      BY <1>3, <2>0, DiscardMoves
    <2>1. CASE GameSend
      BY <1>4, <2>1, GameSendEnters
    <2>2. CASE ScreamRequest
      BY <1>4, <2>2, RequestEnters
    <2>3. CASE LoseDatagram
      BY <1>3, <2>3, LoseMoves
    <2>4. CASE Reconnect
      BY <2>4 DEF Reconnect, clientVars, packetVars, PlaceInv, NetDistinct, Line, Pool, Sent
    <2>5. ASSUME NEW k \in Connections, Break(k) PROVE PlaceInv'
      BY <2>5, BreakKeeps
    <2>6. QED
      BY <1>0, <1>9, <2>0, <2>1, <2>2, <2>3, <2>4, <2>5 DEF Environment
  <1>10. QED
    BY <1>0, <1>6, <1>7, <1>8, <1>9 DEF Next


\* So each message always is in one.
LEMMA InPlace == Spec => [](Typed /\ PlaceInv)
  <1>1. IInv /\ RelayTyped => Typed
    BY DEF IInv, ClientTypeOK, Typed
  <1>2. QED
    BY <1>1, PlaceInit, PlaceStep, ProxyInvariance, PTL DEF Spec

\* The place of message x as PlacesOf names it.
Spot(c, i) == IF c[1] \in {"queue", "stream"} THEN <<c[2], i>> ELSE <<c[1], i>>

\* The members of PlacesOf, variable by variable.
LEMMA PlacesParts ==
  ASSUME NEW x, NEW e
  PROVE  e \in PlacesOf(x) <=>
           \/ e \in net /\ e.body = x
           \/ e = <<"inbound">> /\ x \in inbound
           \/ \E i \in DOMAIN out : out[i] = x /\ e = <<"out", i>>
           \/ \E b \in QueueBlocks : \E i \in DOMAIN queue[b] : queue[b][i].body = x /\ e = <<b, i>>
           \/ \E s \in Streams : \E i \in DOMAIN stream[s] : stream[s][i] = x /\ e = <<s, i>>
           \/ \E i \in DOMAIN delivered : delivered[i].body = x /\ e = <<"delivered", i>>
           \/ e = <<"lost">> /\ x \in lost
           \/ e = <<"dropped">> /\ x \in dropped
  <1> DEFINE A1 == {d \in net : d.body = x}
             A2 == {<<"inbound">> : p \in inbound \cap {x}}
             A3 == {<<"out", i>> : i \in {i \in DOMAIN out : out[i] = x}}
             QueueOf(b) == {<<b, i>> : i \in {i \in DOMAIN queue[b] : queue[b][i].body = x}}
             A4 == UNION {QueueOf(b) : b \in QueueBlocks}
             StreamOf(s) == {<<s, i>> : i \in {i \in DOMAIN stream[s] : stream[s][i] = x}}
             A5 == UNION {StreamOf(s) : s \in Streams}
             A6 == {<<"delivered", i>> : i \in {i \in DOMAIN delivered : delivered[i].body = x}}
             A7 == {<<"lost">> : p \in lost \cap {x}}
             A8 == {<<"dropped">> : p \in dropped \cap {x}}
  <1>1. PlacesOf(x) = A1 \cup A2 \cup A3 \cup A4 \cup A5 \cup A6 \cup A7 \cup A8
    BY DEF PlacesOf
  <1>2. e \in A1 <=> e \in net /\ e.body = x
    OBVIOUS
  <1>3. e \in A2 <=> e = <<"inbound">> /\ x \in inbound
    OBVIOUS
  <1>4. e \in A3 <=> \E i \in DOMAIN out : out[i] = x /\ e = <<"out", i>>
    OBVIOUS
  <1>5. e \in A4 <=> \E b \in QueueBlocks : \E i \in DOMAIN queue[b] :
                       queue[b][i].body = x /\ e = <<b, i>>
    <2>1. \A b : e \in QueueOf(b) <=> \E i \in DOMAIN queue[b] :
                                        queue[b][i].body = x /\ e = <<b, i>>
      OBVIOUS
    <2> HIDE DEF QueueOf
    <2>2. QED
      BY <2>1
  <1>6. e \in A5 <=> \E s \in Streams : \E i \in DOMAIN stream[s] : stream[s][i] = x /\ e = <<s, i>>
    <2>1. \A s : e \in StreamOf(s) <=> \E i \in DOMAIN stream[s] : stream[s][i] = x /\ e = <<s, i>>
      OBVIOUS
    <2> HIDE DEF StreamOf
    <2>2. QED
      BY <2>1
  <1>7. e \in A6 <=> \E i \in DOMAIN delivered : delivered[i].body = x /\ e = <<"delivered", i>>
    OBVIOUS
  <1>8. e \in A7 <=> e = <<"lost">> /\ x \in lost
    OBVIOUS
  <1>9. e \in A8 <=> e = <<"dropped">> /\ x \in dropped
    OBVIOUS
  <1> HIDE DEF A1, A2, A3, A4, A5, A6, A7, A8
  <1>10. QED
    BY <1>1, <1>2, <1>3, <1>4, <1>5, <1>6, <1>7, <1>8, <1>9

\* They are the places above: no other names message x.
LEMMA PlacesInLines ==
  ASSUME NEW x, NEW e \in PlacesOf(x)
  PROVE  \/ \E c \in LinePlaces : \E i \in DOMAIN Line[c] : Line[c][i] = x /\ e = Spot(c, i)
         \/ x \in Pool[At("net")] /\ e \in net /\ e.body = x
         \/ \E c \in PoolPlaces \ {At("net")} : x \in Pool[c] /\ e = <<c[1]>>
  <1> DEFINE InLine == \E c \in LinePlaces : \E i \in DOMAIN Line[c] :
                         Line[c][i] = x /\ e = Spot(c, i)
             InPool == \E c \in PoolPlaces \ {At("net")} : x \in Pool[c] /\ e = <<c[1]>>
  <1>1. \/ e \in net /\ e.body = x
        \/ e = <<"inbound">> /\ x \in inbound
        \/ \E i \in DOMAIN out : out[i] = x /\ e = <<"out", i>>
        \/ \E b \in QueueBlocks : \E i \in DOMAIN queue[b] : queue[b][i].body = x /\ e = <<b, i>>
        \/ \E s \in Streams : \E i \in DOMAIN stream[s] : stream[s][i] = x /\ e = <<s, i>>
        \/ \E i \in DOMAIN delivered : delivered[i].body = x /\ e = <<"delivered", i>>
        \/ e = <<"lost">> /\ x \in lost
        \/ e = <<"dropped">> /\ x \in dropped
    BY PlacesParts
  <1>2. ASSUME e \in net, e.body = x PROVE x \in Pool[At("net")]
    BY <1>2, PoolValues DEF Pool
  <1>3. ASSUME e = <<"inbound">>, x \in inbound PROVE InPool
    BY <1>3, PoolValues DEF Pool, PoolPlaces, At
  <1>4. ASSUME e = <<"lost">>, x \in lost PROVE InPool
    BY <1>4, PoolValues DEF Pool, PoolPlaces, At
  <1>5. ASSUME e = <<"dropped">>, x \in dropped PROVE InPool
    BY <1>5, PoolValues DEF Pool, PoolPlaces, At
  <1>6. ASSUME NEW i \in DOMAIN out, out[i] = x, e = <<"out", i>> PROVE InLine
    <2>1. At("out") \in LinePlaces /\ Line[At("out")] = out
      BY OutLine, PlaceNames DEF Line
    <2>2. Spot(At("out"), i) = <<"out", i>>
      BY DEF Spot, At
    <2>3. QED
      BY <1>6, <2>1, <2>2
  <1>7. ASSUME NEW i \in DOMAIN delivered, delivered[i].body = x, e = <<"delivered", i>>
        PROVE  InLine
    <2>1. At("delivered") \in LinePlaces /\ Line[At("delivered")] = BodiesOf(delivered)
      BY DeliveredLine, PlaceNames DEF Line
    <2>2. Spot(At("delivered"), i) = <<"delivered", i>>
      BY DEF Spot, At
    <2>3. i \in DOMAIN BodiesOf(delivered) /\ BodiesOf(delivered)[i] = x
      BY <1>7 DEF BodiesOf
    <2>4. QED
      BY <1>7, <2>1, <2>2, <2>3
  <1>8. ASSUME NEW b \in QueueBlocks, NEW i \in DOMAIN queue[b], queue[b][i].body = x,
               e = <<b, i>>
        PROVE  InLine
    <2>1. <<"queue", b>> \in LinePlaces /\ Line[<<"queue", b>>] = BodiesOf(queue[b])
      BY QueueLine, PlaceNames DEF Line
    <2>2. Spot(<<"queue", b>>, i) = <<b, i>>
      BY DEF Spot
    <2>3. i \in DOMAIN BodiesOf(queue[b]) /\ BodiesOf(queue[b])[i] = x
      BY <1>8 DEF BodiesOf
    <2>4. QED
      BY <1>8, <2>1, <2>2, <2>3
  <1>9. ASSUME NEW s \in Streams, NEW i \in DOMAIN stream[s], stream[s][i] = x, e = <<s, i>>
        PROVE  InLine
    <2>1. <<"stream", s>> \in LinePlaces /\ Line[<<"stream", s>>] = stream[s]
      BY StreamLine, PlaceNames DEF Line
    <2>2. Spot(<<"stream", s>>, i) = <<s, i>>
      BY DEF Spot
    <2>3. QED
      BY <1>9, <2>1, <2>2
  <1> HIDE DEF InLine, InPool
  <1>10. InLine \/ (x \in Pool[At("net")] /\ e \in net /\ e.body = x) \/ InPool
    BY <1>1, <1>2, <1>3, <1>4, <1>5, <1>6, <1>7, <1>8, <1>9
  <1>11. QED
    BY <1>10 DEF InLine, InPool

\* A message in a line is in PlacesOf.
LEMMA LinesInPlaces ==
  ASSUME NEW c \in LinePlaces, NEW i \in DOMAIN Line[c]
  PROVE  Spot(c, i) \in PlacesOf(Line[c][i])
  <1>1. CASE c = At("out")
    BY <1>1, OutLine, PlacesParts DEF Line, Spot, At
  <1>2. CASE c = At("delivered")
    <2>1. Line[c] = BodiesOf(delivered)
      BY <1>2, DeliveredLine DEF Line
    <2>2. i \in DOMAIN delivered /\ delivered[i].body = Line[c][i]
      BY <2>1 DEF BodiesOf
    <2>3. Spot(c, i) = <<"delivered", i>>
      BY <1>2 DEF Spot, At
    <2>4. QED
      BY <2>2, <2>3, PlacesParts
  <1>3. ASSUME NEW b \in QueueBlocks, c = <<"queue", b>>
        PROVE  Spot(c, i) \in PlacesOf(Line[c][i])
    <2>1. Line[c] = BodiesOf(queue[b])
      BY <1>3, QueueLine DEF Line
    <2>2. i \in DOMAIN queue[b] /\ queue[b][i].body = Line[c][i]
      BY <2>1 DEF BodiesOf
    <2>3. Spot(c, i) = <<b, i>>
      BY <1>3 DEF Spot
    <2>4. QED
      BY <2>2, <2>3, PlacesParts
  <1>4. ASSUME NEW s \in Streams, c = <<"stream", s>>
        PROVE  Spot(c, i) \in PlacesOf(Line[c][i])
    <2>1. Line[c] = stream[s]
      BY <1>4, StreamLine DEF Line
    <2>2. Spot(c, i) = <<s, i>>
      BY <1>4 DEF Spot
    <2>3. QED
      BY <2>1, <2>2, PlacesParts
  <1>5. QED
    BY <1>1, <1>2, <1>3, <1>4, PlaceNames

\* A message in a pool is in PlacesOf.
LEMMA PoolsInPlaces ==
  ASSUME NEW x
  PROVE  /\ \A d \in net : d.body = x => d \in PlacesOf(x)
         /\ \A c \in PoolPlaces \ {At("net")} : x \in Pool[c] => <<c[1]>> \in PlacesOf(x)
         /\ x \in Pool[At("net")] => \E d \in net : d.body = x
  <1>1. \A d \in net : d.body = x => d \in PlacesOf(x)
    BY PlacesParts
  <1>2. /\ Pool[At("net")] = {d.body : d \in net} /\ Pool[At("inbound")] = inbound
        /\ Pool[At("lost")] = lost /\ Pool[At("dropped")] = dropped
    BY PoolValues DEF Pool
  <1>3. /\ x \in inbound => <<"inbound">> \in PlacesOf(x)
        /\ x \in lost => <<"lost">> \in PlacesOf(x)
        /\ x \in dropped => <<"dropped">> \in PlacesOf(x)
    BY PlacesParts
  <1>4. \A c \in PoolPlaces \ {At("net")} : x \in Pool[c] => <<c[1]>> \in PlacesOf(x)
    BY <1>2, <1>3 DEF PoolPlaces, At
  <1>5. QED
    BY <1>1, <1>2, <1>4

\* No proxy loses or doubles a message: whatever was sent is in one place, from the
\* moment it is sent.
THEOREM EachInOnePlace == Spec => []OnePlace
  <1>1. ASSUME PlaceInv, NEW x \in Sent PROVE Cardinality(PlacesOf(x)) = 1
    <2>1. ASSUME NEW c \in LinePlaces, NEW i \in DOMAIN Line[c], Line[c][i] = x
          PROVE  PlacesOf(x) = {Spot(c, i)}
      <3>1. Spot(c, i) \in PlacesOf(x)
        BY <2>1, LinesInPlaces
      <3>2. \A d \in PoolPlaces : x \notin Pool[d]
        BY <1>1, <2>1 DEF PlaceInv, WellPlaced
      <3>3. \A d \in LinePlaces : \A j \in DOMAIN Line[d] : Line[d][j] = x => d = c /\ j = i
        BY <1>1, <2>1 DEF PlaceInv, WellPlaced
      <3>4. At("net") \in PoolPlaces
        BY DEF PoolPlaces
      <3>5. ASSUME NEW e \in PlacesOf(x) PROVE e = Spot(c, i)
        BY <3>2, <3>3, <3>4, PlacesInLines
      <3>6. QED
        BY <3>1, <3>5
    <2>2. ASSUME NEW c \in PoolPlaces, x \in Pool[c]
          PROVE  \E p : PlacesOf(x) = {p}
      <3>1. /\ \A d \in LinePlaces : \A j \in DOMAIN Line[d] : Line[d][j] # x
            /\ \A d \in PoolPlaces : x \in Pool[d] => d = c
        BY <1>1, <2>2 DEF PlaceInv, WellPlaced
      <3>2. At("net") \in PoolPlaces
        BY DEF PoolPlaces
      <3>3. CASE c = At("net")
        <4>1. PICK p \in net : p.body = x
          BY <2>2, <3>3, PoolsInPlaces
        <4>2. p \in PlacesOf(x)
          BY <4>1, PoolsInPlaces
        <4>3. \A e \in PlacesOf(x) : e = p
          BY <1>1, <3>1, <3>3, <4>1, PlacesInLines DEF PlaceInv, NetDistinct
        <4>4. QED
          BY <4>2, <4>3
      <3>4. CASE c # At("net")
        <4>1. <<c[1]>> \in PlacesOf(x)
          BY <2>2, <3>4, PoolsInPlaces
        <4>2. \A e \in PlacesOf(x) : e = <<c[1]>>
          BY <3>1, <3>2, <3>4, PlacesInLines
        <4>3. QED
          BY <4>1, <4>2
      <3>5. QED
        BY <3>3, <3>4
    <2>3. \E p : PlacesOf(x) = {p}
      BY <1>1, <2>1, <2>2 DEF PlaceInv, WellPlaced
    <2>4. QED
      BY <2>3, FS_Singleton
  <1>2. PlaceInv => OnePlace
    BY <1>1 DEF OnePlace
  <1>3. QED
    BY <1>2, InPlace, PTL

-----------------------------------------------------------------------------
\* The order of the commands and of the requests.

\* How far each place is from where the commands of the flow come out; the bitrate
\* requests join those of the game client.
Stage(f, c) ==
  IF c = At("delivered") THEN 0
  ELSE IF f.from = "game_server" THEN
    IF c = <<"stream", <<<<"proxy_client", 19999>>, "back">>>> THEN 1
    ELSE IF c = <<"queue", <<"proxy_client", "client_side_command_stream">>>> THEN 2
    ELSE IF c = <<"stream", <<<<"proxy_server", 29999>>, "back">>>> THEN 3
    ELSE IF c = <<"queue", <<"proxy_server", "tcp_server">>>> THEN 4
    ELSE IF c = <<"stream", <<<<"game_server", 9999>>, "back">>>> THEN 5 ELSE 6
  ELSE
    IF c = <<"stream", <<<<"game_server", 9999>>, "to">>>> THEN 1
    ELSE IF c = <<"queue", <<"proxy_server", "tcp_client">>>> THEN 2
    ELSE IF c = <<"stream", <<<<"proxy_server", 29999>>, "to">>>> THEN 3
    ELSE IF c = <<"queue", BrmConverter>> THEN 3
    ELSE IF c = <<"queue", <<"proxy_client", "server_side_command_stream">>>> THEN 4
    ELSE IF c = <<"stream", <<<<"proxy_client", 19999>>, "to">>>> THEN 5 ELSE 6

\* The messages that may be there: until they share a queue, only one kind.
KindAt(f, c) ==
  IF Stage(f, c) = 6 THEN {}
  ELSE IF Stage(f, c) <= 2 THEN Bodies
  ELSE IF c = <<"queue", BrmConverter>> THEN Requests ELSE Packets

\* Message x was sent before y, if they are of one kind.
Precedes(x, y) == (x \in Packets <=> y \in Packets) => x < y

\* Nearer the end, and nearer the head of a line, messages were sent earlier.
Ordered(L, f) ==
  \A c, d \in LinePlaces : \A i \in DOMAIN L[c], j \in DOMAIN L[d] :
    Stage(f, c) <= Stage(f, d) /\ (c = d => i < j) => Precedes(L[c][i], L[d][j])

KindsKept(L, f) == \A c \in LinePlaces : \A i \in DOMAIN L[c] : L[c][i] \in KindAt(f, c)

OrderInv == flow.name = "commands" => Ordered(Line, flow) /\ KindsKept(Line, flow)

\* There are seven stages.
LEMMA StageRange == ASSUME NEW f, NEW c PROVE Stage(f, c) \in 0..6
  BY DEF Stage

\* What taking a message from a line does to the order.
LEMMA OrderTaken ==
  ASSUME NEW f, NEW L \in AllLines, Ordered(L, f), KindsKept(L, f),
         NEW c \in LinePlaces, NEW x, NEW L1, LineTakes(L, c, x, L1)
  PROVE  /\ Ordered(L1, f) /\ KindsKept(L1, f) /\ x \in KindAt(f, c)
         /\ \A e \in LinePlaces : \A i \in DOMAIN L1[e] :
              /\ Stage(f, e) <= Stage(f, c) /\ e # c => Precedes(L1[e][i], x)
              /\ Stage(f, c) <= Stage(f, e) => Precedes(x, L1[e][i])
  <1>1. /\ L[c] \in Seq(Bodies) /\ L[c] # <<>> /\ x = Head(L[c])
        /\ L1 = [L EXCEPT ![c] = Tail(@)]
    BY DEF LineTakes, AllLines
  <1>2. /\ x = L[c][1] /\ 1 \in DOMAIN L[c] /\ DOMAIN L[c] \subseteq Nat
        /\ \A i \in DOMAIN Tail(L[c]) :
             i \in Nat /\ 1 < i + 1 /\ i + 1 \in DOMAIN L[c] /\ Tail(L[c])[i] = L[c][i + 1]
    BY <1>1
  <1>3. /\ L1[c] = Tail(L[c])
        /\ \A d \in LinePlaces : d # c => L1[d] = L[d]
    BY <1>1 DEF AllLines
  <1> DEFINE Old(d, i) == IF d = c THEN i + 1 ELSE i
  <1>4. \A d \in LinePlaces : \A i \in DOMAIN L1[d] :
          /\ Old(d, i) \in DOMAIN L[d] /\ L1[d][i] = L[d][Old(d, i)]
          /\ d = c => 1 < Old(d, i)
    BY <1>2, <1>3
  <1>5. \A d \in LinePlaces : \A i, j \in DOMAIN L1[d] : i < j => Old(d, i) < Old(d, j)
    BY <1>2, <1>3
  <1> HIDE DEF Old
  <1>6. KindsKept(L1, f)
    BY <1>4 DEF KindsKept
  <1>7. x \in KindAt(f, c)
    BY <1>2 DEF KindsKept
  <1>8. ASSUME NEW d \in LinePlaces, NEW e \in LinePlaces, NEW i \in DOMAIN L1[d],
               NEW j \in DOMAIN L1[e], Stage(f, d) <= Stage(f, e), d = e => i < j
        PROVE  Precedes(L1[d][i], L1[e][j])
    <2>1. d = e => Old(d, i) < Old(e, j)
      BY <1>5, <1>8
    <2>2. QED
      BY <1>4, <1>8, <2>1 DEF Ordered
  <1>9. Ordered(L1, f)
    BY <1>8 DEF Ordered
  <1>10. ASSUME NEW e \in LinePlaces, NEW i \in DOMAIN L1[e],
                Stage(f, e) <= Stage(f, c), e # c
         PROVE  Precedes(L1[e][i], x)
    BY <1>2, <1>4, <1>10 DEF Ordered
  <1>11. ASSUME NEW e \in LinePlaces, NEW i \in DOMAIN L1[e], Stage(f, c) <= Stage(f, e)
         PROVE  Precedes(x, L1[e][i])
    BY <1>2, <1>4, <1>11 DEF Ordered
  <1>12. QED
    BY <1>6, <1>7, <1>9, <1>10, <1>11

\* What adding a message to a line does to it.
LEMMA OrderPut ==
  ASSUME NEW f, NEW L \in AllLines, Ordered(L, f), KindsKept(L, f),
         NEW d \in LinePlaces, NEW x \in Bodies, x \in KindAt(f, d),
         \A e \in LinePlaces : \A i \in DOMAIN L[e] :
           /\ Stage(f, e) <= Stage(f, d) => Precedes(L[e][i], x)
           /\ Stage(f, d) <= Stage(f, e) /\ e # d => Precedes(x, L[e][i]),
         NEW L1, LinePuts(L, d, x, L1)
  PROVE  Ordered(L1, f) /\ KindsKept(L1, f)
  <1>1. L[d] \in Seq(Bodies) /\ L1 = [L EXCEPT ![d] = Append(@, x)]
    BY DEF LinePuts, AllLines
  <1> DEFINE n == Len(L[d]) + 1
  <1>2. /\ Append(L[d], x)[n] = x
        /\ \A i \in DOMAIN L[d] : i < n /\ Append(L[d], x)[i] = L[d][i]
        /\ \A i \in DOMAIN Append(L[d], x) : i \in DOMAIN L[d] \/ i = n
        /\ n \in Nat /\ DOMAIN L[d] \subseteq Nat
    BY <1>1, AppendFacts
  <1>3. /\ L1[d] = Append(L[d], x)
        /\ \A e \in LinePlaces : e # d => L1[e] = L[e]
    BY <1>1 DEF AllLines
  <1> HIDE DEF n
  <1>4. \A e \in LinePlaces : \A i \in DOMAIN L1[e] :
          \/ i \in DOMAIN L[e] /\ L1[e][i] = L[e][i] /\ (e = d => i < n)
          \/ e = d /\ i = n /\ L1[e][i] = x
    BY <1>2, <1>3
  <1>5. KindsKept(L1, f)
    BY <1>4 DEF KindsKept
  <1>6. ASSUME NEW c \in LinePlaces, NEW e \in LinePlaces, NEW i \in DOMAIN L1[c],
               NEW j \in DOMAIN L1[e], Stage(f, c) <= Stage(f, e), c = e => i < j
        PROVE  Precedes(L1[c][i], L1[e][j])
    <2>1. CASE c = d /\ i = n /\ L1[c][i] = x
      <3>1. e # d
        <4>1. SUFFICES ASSUME e = d PROVE FALSE
          OBVIOUS
        <4>2. n < j
          BY <1>6, <2>1, <4>1
        <4>3. j = n \/ (j < n /\ j \in Nat)
          BY <1>2, <1>4, <4>1
        <4>4. QED
          BY <1>2, <4>2, <4>3
      <3>2. j \in DOMAIN L[e] /\ L1[e][j] = L[e][j]
        BY <1>4, <3>1
      <3>3. QED
        BY <1>6, <2>1, <3>1, <3>2
    <2>2. CASE i \in DOMAIN L[c] /\ L1[c][i] = L[c][i]
      <3>1. CASE e = d /\ j = n /\ L1[e][j] = x
        BY <1>6, <2>2, <3>1
      <3>2. CASE j \in DOMAIN L[e] /\ L1[e][j] = L[e][j]
        BY <1>6, <2>2, <3>2 DEF Ordered
      <3>3. QED
        BY <1>4, <3>1, <3>2
    <2>3. QED
      BY <1>4, <2>1, <2>2
  <1>7. QED
    BY <1>5, <1>6 DEF Ordered

\* Places at one distance hold messages of different kinds, if they hold any.
LEMMA StageApart ==
  ASSUME NEW f, NEW c, NEW d, c # d, Stage(f, c) = Stage(f, d),
         NEW x \in KindAt(f, c), NEW y \in KindAt(f, d)
  PROVE  Precedes(x, y)
  <1>1. Packets \cap Requests = {}
    BY ClientAssumption, RequestsAssumption DEF Packets, Requests
  <1>2. /\ \/ c = <<"queue", BrmConverter>> /\ d # <<"queue", BrmConverter>>
           \/ c # <<"queue", BrmConverter>> /\ d = <<"queue", BrmConverter>>
        /\ Stage(f, c) = 3 /\ Stage(f, d) = 3
    <2>1. Stage(f, c) # 6 /\ Stage(f, d) # 6
      BY DEF KindAt
    <2>2. Stage(f, c) \in {0, 1, 2, 3, 4, 5}
      BY <2>1, StageRange
    <2>3. CASE f.from = "game_server"
      <3>1. \A e : /\ Stage(f, e) = 0 => e = At("delivered")
                   /\ Stage(f, e) = 1 => e = <<"stream", <<<<"proxy_client", 19999>>, "back">>>>
                   /\ Stage(f, e) = 2
                         => e = <<"queue", <<"proxy_client", "client_side_command_stream">>>>
                   /\ Stage(f, e) = 3 => e = <<"stream", <<<<"proxy_server", 29999>>, "back">>>>
                   /\ Stage(f, e) = 4 => e = <<"queue", <<"proxy_server", "tcp_server">>>>
                   /\ Stage(f, e) = 5 => e = <<"stream", <<<<"game_server", 9999>>, "back">>>>
        BY <2>3 DEF Stage
      <3>2. c = d
        BY <2>1, <2>2, <3>1
      <3>3. QED
        BY <3>2
    <2>4. CASE f.from # "game_server"
      <3>1. \A e : /\ Stage(f, e) = 0 => e = At("delivered")
                   /\ Stage(f, e) = 1 => e = <<"stream", <<<<"game_server", 9999>>, "to">>>>
                   /\ Stage(f, e) = 2 => e = <<"queue", <<"proxy_server", "tcp_client">>>>
                   /\ Stage(f, e) = 3 => \/ e = <<"stream", <<<<"proxy_server", 29999>>, "to">>>>
                                         \/ e = <<"queue", BrmConverter>>
                   /\ Stage(f, e) = 4
                         => e = <<"queue", <<"proxy_client", "server_side_command_stream">>>>
                   /\ Stage(f, e) = 5 => e = <<"stream", <<<<"proxy_client", 19999>>, "to">>>>
        BY <2>4 DEF Stage
      <3>2. Stage(f, c) = 3
        BY <2>1, <2>2, <3>1
      <3>3. Stage(f, d) = 3
        BY <3>2
      <3>4. c = <<"queue", BrmConverter>> \/ c = <<"stream", <<<<"proxy_server", 29999>>, "to">>>>
        BY <3>1, <3>2
      <3>5. d = <<"queue", BrmConverter>> \/ d = <<"stream", <<<<"proxy_server", 29999>>, "to">>>>
        BY <3>1, <3>3
      <3>6. QED
        BY <3>2, <3>3, <3>4, <3>5
    <2>5. QED
      BY <2>3, <2>4
  <1>3. \/ x \in Packets /\ y \in Requests
        \/ x \in Requests /\ y \in Packets
    BY <1>2 DEF KindAt
  <1>4. QED
    BY <1>1, <1>3 DEF Precedes

\* What may be at one distance may be one step further, the converter apart.
LEMMA KindsGrow ==
  ASSUME NEW f, NEW c, NEW d, Stage(f, d) = Stage(f, c) - 1, d # <<"queue", BrmConverter>>
  PROVE  KindAt(f, c) \subseteq KindAt(f, d) /\ KindAt(f, c) \subseteq Bodies
  <1>1. Stage(f, c) \in 0..6 /\ Stage(f, d) \in 0..6
    BY StageRange
  <1>2. c = <<"queue", BrmConverter>> => Stage(f, c) \in {3, 6}
    BY DEF Stage, At, BrmConverter
  <1>3. Packets \subseteq Bodies /\ Requests \subseteq Bodies
    BY DEF Bodies
  <1>4. QED
    BY <1>1, <1>2, <1>3 DEF KindAt

\* The lines of D are one step further than c, and not the converter's.
Onward(f, c, D) ==
  \A d \in D \cap LinePlaces : /\ Stage(f, d) = Stage(f, c) - 1
                               /\ d # <<"queue", BrmConverter>>

\* Message x may be in the lines of D, and nothing of its kind may be as far from
\* the end or further.
Behind(f, x, D) ==
  \A d \in D \cap LinePlaces :
    /\ x \in KindAt(f, d)
    /\ \A e \in LinePlaces \ {d} : \A y \in KindAt(f, e) :
         Stage(f, d) <= Stage(f, e) => Precedes(x, y)

\* Message x comes after all that have been sent.
Newest(x) == \A y \in Sent : Precedes(y, x)

\* A message that goes one step further leaves the order as it was; so does one
\* that goes into a pool.
LEMMA OrderMoved ==
  ASSUME NEW f, Line \in AllLines, Pool \in AllPools, Ordered(Line, f), KindsKept(Line, f),
         NEW c \in LinePlaces, NEW D, Moves(c, D), Onward(f, c, D)
  PROVE  Ordered(Line', f) /\ KindsKept(Line', f)
  <1>1. PICK x, L, P : /\ Takes(Line, Pool, c, x, L, P)
                       /\ \E d \in D : Puts(L, P, d, x, Line', Pool')
    BY DEF Moves
  <1>2. PICK d \in D : Puts(L, P, d, x, Line', Pool')
    BY <1>1
  <1>3. PICK L2 : L2 = Line'
    OBVIOUS
  <1>4. LineTakes(Line, c, x, L)
    BY <1>1, PlaceNames DEF Takes
  <1>5. /\ Ordered(L, f) /\ KindsKept(L, f) /\ x \in KindAt(f, c)
        /\ \A e \in LinePlaces : \A i \in DOMAIN L[e] :
             /\ Stage(f, e) <= Stage(f, c) /\ e # c => Precedes(L[e][i], x)
             /\ Stage(f, c) <= Stage(f, e) => Precedes(x, L[e][i])
    BY <1>4, OrderTaken
  <1>6. CASE d \in PoolPlaces
    <2>1. L2 = L
      BY <1>2, <1>3, <1>6, PlaceNames DEF Puts
    <2>2. QED
      BY <1>3, <1>5, <2>1
  <1>7. CASE d \in LinePlaces
    <2>1. LinePuts(L, d, x, L2)
      BY <1>2, <1>3, <1>7, PlaceNames DEF Puts
    <2>2. Stage(f, d) = Stage(f, c) - 1 /\ d # <<"queue", BrmConverter>>
      BY <1>7 DEF Onward
    <2>3. x \in KindAt(f, d) /\ x \in Bodies
      BY <1>5, <2>2, KindsGrow
    <2>4. L \in AllLines
      <3>1. Tail(Line[c]) \in Seq(Bodies)
        BY <1>4 DEF LineTakes, AllLines
      <3>2. QED
        BY <1>4, <3>1 DEF LineTakes, AllLines
    <2>5. \A e \in LinePlaces : Stage(f, e) \in 0..6
      BY StageRange
    <2>6. ASSUME NEW e \in LinePlaces, NEW i \in DOMAIN L[e], Stage(f, e) <= Stage(f, d)
          PROVE  Precedes(L[e][i], x)
      <3>1. Stage(f, e) <= Stage(f, c) /\ e # c
        BY <1>7, <2>2, <2>5, <2>6
      <3>2. QED
        BY <1>5, <3>1
    <2>7. ASSUME NEW e \in LinePlaces, NEW i \in DOMAIN L[e], Stage(f, d) <= Stage(f, e), e # d
          PROVE  Precedes(x, L[e][i])
      <3>1. CASE Stage(f, c) <= Stage(f, e)
        BY <1>5, <3>1
      <3>2. CASE Stage(f, d) = Stage(f, e)
        <4>1. L[e][i] \in KindAt(f, e)
          BY <1>5 DEF KindsKept
        <4>2. QED
          BY <2>3, <2>7, <3>2, <4>1, StageApart
      <3>3. QED
        BY <1>7, <2>2, <2>5, <2>7, <3>1, <3>2
    <2>8. Ordered(L2, f) /\ KindsKept(L2, f)
      BY <1>5, <1>7, <2>1, <2>3, <2>4, <2>6, <2>7, OrderPut
    <2>9. QED
      BY <1>3, <2>8
  <1>8. QED
    BY <1>2, <1>6, <1>7 DEF Puts

\* So does a new message sent after all others of its kind, where nothing of its
\* kind is as far or further from the end.
LEMMA OrderEntered ==
  ASSUME NEW f, Line \in AllLines, Pool \in AllPools, Ordered(Line, f), KindsKept(Line, f),
         WellPlaced(Line, Pool, Sent), NEW x, NEW D, Enters(x, D), Newest(x), Behind(f, x, D)
  PROVE  Ordered(Line', f) /\ KindsKept(Line', f)
  <1>1. PICK d \in D : Puts(Line, Pool, d, x, Line', Pool')
    BY DEF Enters
  <1>2. PICK L2 : L2 = Line'
    OBVIOUS
  <1>3. x \in Bodies
    BY DEF Enters
  <1>4. CASE d \in PoolPlaces
    <2>1. L2 = Line
      BY <1>1, <1>2, <1>4, PlaceNames DEF Puts
    <2>2. QED
      BY <1>2, <2>1
  <1>5. CASE d \in LinePlaces
    <2>1. LinePuts(Line, d, x, L2)
      BY <1>1, <1>2, <1>5, PlaceNames DEF Puts
    <2>2. \A e \in LinePlaces : \A i \in DOMAIN Line[e] :
            Line[e][i] \in Sent /\ Line[e][i] \in KindAt(f, e)
      BY DEF WellPlaced, KindsKept
    <2>3. \A e \in LinePlaces : \A i \in DOMAIN Line[e] :
            /\ Stage(f, e) <= Stage(f, d) => Precedes(Line[e][i], x)
            /\ Stage(f, d) <= Stage(f, e) /\ e # d => Precedes(x, Line[e][i])
      BY <1>5, <2>2 DEF Newest, Behind
    <2>4. x \in KindAt(f, d)
      BY <1>5 DEF Behind
    <2>5. Ordered(L2, f) /\ KindsKept(L2, f)
      BY <1>3, <1>5, <2>1, <2>3, <2>4, OrderPut
    <2>6. QED
      BY <1>2, <2>5
  <1>6. QED
    BY <1>1, <1>4, <1>5 DEF Puts

-----------------------------------------------------------------------------
\* The stages and the wiring.

\* The queue and the two streams of each TCP block.
LEMMA TcpStreams ==
  /\ ReadsOf(<<"proxy_server", "tcp_server">>) = <<<<"proxy_server", 29999>>, "to">>
  /\ WritesOf(<<"proxy_server", "tcp_server">>) = <<<<"proxy_server", 29999>>, "back">>
  /\ ReadsOf(<<"proxy_server", "tcp_client">>) = <<<<"game_server", 9999>>, "back">>
  /\ WritesOf(<<"proxy_server", "tcp_client">>) = <<<<"game_server", 9999>>, "to">>
  /\ ReadsOf(<<"proxy_client", "client_side_command_stream">>)
       = <<<<"proxy_client", 19999>>, "to">>
  /\ WritesOf(<<"proxy_client", "client_side_command_stream">>)
       = <<<<"proxy_client", 19999>>, "back">>
  /\ ReadsOf(<<"proxy_client", "server_side_command_stream">>)
       = <<<<"proxy_server", 29999>>, "back">>
  /\ WritesOf(<<"proxy_client", "server_side_command_stream">>)
       = <<<<"proxy_server", 29999>>, "to">>
  BY DEF ReadsOf, WritesOf, Connection, Accepting, Tcp, ServerTcp, ClientTcp, To

\* A TCP block writes what it is handed one stage nearer the end.
LEMMA WritesNearer ==
  ASSUME NEW f \in Flows, f.name = "commands", NEW b \in TcpBlocks \cap QueuesOf(f)
  PROVE  /\ Stage(f, <<"stream", WritesOf(b)>>) = Stage(f, <<"queue", b>>) - 1
         /\ <<"stream", WritesOf(b)>> # <<"queue", BrmConverter>>
  <1>1. f.from = "game_server" \/ f.from = "game_client"
    BY DEF Flows, Flow
  <1>2. <<f.name, f.from, b>> \in QueueRoutes
    BY DEF QueuesOf
  <1>3. CASE b = <<"proxy_server", "tcp_server">>
    <2>1. f.from = "game_server"
      BY <1>2, <1>3 DEF QueueRoutes, ServerConverter, ServerScream, BrmConverter
    <2>2. QED
      BY <1>3, <2>1, TcpStreams DEF Stage, At
  <1>4. CASE b = <<"proxy_server", "tcp_client">>
    <2>1. f.from = "game_client"
      BY <1>2, <1>4 DEF QueueRoutes, ServerConverter, ServerScream, BrmConverter
    <2>2. QED
      BY <1>4, <2>1, TcpStreams DEF Stage, At, BrmConverter
  <1>5. CASE b = <<"proxy_client", "client_side_command_stream">>
    <2>1. f.from = "game_server"
      BY <1>2, <1>5 DEF QueueRoutes, ServerConverter, ServerScream, BrmConverter
    <2>2. QED
      BY <1>5, <2>1, TcpStreams DEF Stage, At
  <1>6. CASE b = <<"proxy_client", "server_side_command_stream">>
    <2>1. f.from = "game_client"
      BY <1>2, <1>6 DEF QueueRoutes, ServerConverter, ServerScream, BrmConverter
    <2>2. QED
      BY <1>6, <2>1, TcpStreams DEF Stage, At, BrmConverter
  <1>7. QED
    BY <1>3, <1>4, <1>5, <1>6, TcpNames

\* What it reads it forwards one stage nearer the end.
LEMMA ReadsNearer ==
  ASSUME NEW f \in Flows, NEW b \in TcpBlocks, ReadsOf(b) \in StreamsOf(f),
         NEW c \in Registered(b, "RAW")
  PROVE  /\ Stage(f, <<"queue", c>>) = Stage(f, <<"stream", ReadsOf(b)>>) - 1
         /\ <<"queue", c>> # <<"queue", BrmConverter>>
  <1>1. /\ f.name = "commands"
        /\ f.from = "game_server" \/ f.from = "game_client"
        /\ ReadsOf(b)[2] = IF f.from = "game_server" THEN "back" ELSE "to"
    BY DEF StreamsOf, Flows, Flow
  <1>2. /\ c \in QueueBlocks /\ c = <<b[1], c[2]>>
        /\ <<b[2], "RAW", c[2]>> \in Queues[b[1]]
    BY BlockNames DEF Registered
  <1>3. CASE b = <<"proxy_server", "tcp_server">>
    <2>1. c = <<"proxy_server", "tcp_client">>
      BY <1>2, <1>3 DEF Queues, ServerQueues
    <2>2. f.from = "game_client"
      BY <1>1, <1>3, TcpStreams
    <2>3. QED
      BY <1>3, <2>1, <2>2, TcpStreams DEF Stage, At, BrmConverter
  <1>4. CASE b = <<"proxy_server", "tcp_client">>
    <2>1. c = <<"proxy_server", "tcp_server">>
      BY <1>2, <1>4 DEF Queues, ServerQueues
    <2>2. f.from = "game_server"
      BY <1>1, <1>4, TcpStreams
    <2>3. QED
      BY <1>4, <2>1, <2>2, TcpStreams DEF Stage, At, BrmConverter
  <1>5. CASE b = <<"proxy_client", "client_side_command_stream">>
    <2>1. c = <<"proxy_client", "server_side_command_stream">>
      BY <1>2, <1>5 DEF Queues, ClientQueues
    <2>2. f.from = "game_client"
      BY <1>1, <1>5, TcpStreams
    <2>3. QED
      BY <1>5, <2>1, <2>2, TcpStreams DEF Stage, At, BrmConverter
  <1>6. CASE b = <<"proxy_client", "server_side_command_stream">>
    <2>1. c = <<"proxy_client", "client_side_command_stream">>
      BY <1>2, <1>6 DEF Queues, ClientQueues
    <2>2. f.from = "game_server"
      BY <1>1, <1>6, TcpStreams
    <2>3. QED
      BY <1>6, <2>1, <2>2, TcpStreams DEF Stage, At, BrmConverter
  <1>7. QED
    BY <1>3, <1>4, <1>5, <1>6, TcpNames

\* The requests join the commands one stage after their converter; the ends write
\* to the first stage and read from the last.
LEMMA EndStages ==
  ASSUME NEW f \in Flows, f.name = "commands"
  PROVE  /\ Stage(f, <<"stream", EndWrites(f.from)>>) = 5
         /\ <<"stream", EndWrites(f.from)>> # <<"queue", BrmConverter>>
         /\ \A end \in Ends : EndReads(end) \in StreamsOf(f) =>
              Stage(f, <<"stream", EndReads(end)>>) = 1 /\ Stage(f, At("delivered")) = 0
         /\ f.from = "game_client" =>
              /\ Stage(f, <<"queue", BrmConverter>>) = 3
              /\ \A c \in Registered(BrmConverter, "RAW") :
                   Stage(f, <<"queue", c>>) = 2 /\ c # BrmConverter
              /\ \A c \in Registered(ServerScream, "BITRATE_REQUEST") : c = BrmConverter
  <1>1. f.from = "game_server" \/ f.from = "game_client"
    BY DEF Flows, Flow
  <1>2. /\ Stage(f, <<"stream", EndWrites(f.from)>>) = 5
        /\ <<"stream", EndWrites(f.from)>> # <<"queue", BrmConverter>>
    BY <1>1 DEF EndWrites, Stage, At, BrmConverter
  <1>3. ASSUME NEW end \in Ends, EndReads(end) \in StreamsOf(f)
        PROVE  Stage(f, <<"stream", EndReads(end)>>) = 1 /\ Stage(f, At("delivered")) = 0
    BY <1>1, <1>3 DEF EndReads, StreamsOf, Ends, Stage, At
  <1>4. ASSUME f.from = "game_client"
        PROVE  /\ Stage(f, <<"queue", BrmConverter>>) = 3
               /\ \A c \in Registered(BrmConverter, "RAW") :
                    Stage(f, <<"queue", c>>) = 2 /\ c # BrmConverter
               /\ \A c \in Registered(ServerScream, "BITRATE_REQUEST") : c = BrmConverter
    <2>1. Stage(f, <<"queue", BrmConverter>>) = 3
      BY <1>4 DEF Stage, At, BrmConverter
    <2>2. ASSUME NEW c \in Registered(BrmConverter, "RAW")
          PROVE  Stage(f, <<"queue", c>>) = 2 /\ c # BrmConverter
      <3>1. c = <<"proxy_server", "tcp_client">>
        BY <2>2, BlockNames DEF Registered, Queues, ServerQueues, BrmConverter
      <3>2. QED
        BY <1>4, <3>1 DEF Stage, At, BrmConverter
    <2>3. ASSUME NEW c \in Registered(ServerScream, "BITRATE_REQUEST") PROVE c = BrmConverter
      BY <2>3, BlockNames DEF Registered, Queues, ServerQueues, BrmConverter, ServerScream
    <2>4. QED
      BY <2>1, <2>2, <2>3
  <1>5. QED
    BY <1>2, <1>3, <1>4

-----------------------------------------------------------------------------
\* The order is kept.

\* A new command is behind all commands, at the far end.
LEMMA CommandBehind ==
  ASSUME Typed, NEW f \in Flows, f.name = "commands", offered < MaxPackets
  PROVE  /\ Newest(offered + 1)
         /\ Behind(f, offered + 1, {<<"stream", EndWrites(f.from)>>, At("lost")})
  <1> DEFINE x == offered + 1
             d == <<"stream", EndWrites(f.from)>>
  <1>1. x \in Packets /\ Packets \cap Requests = {} /\ offered \in Nat /\ requested \in Nat
    BY ClientAssumption, RequestsAssumption DEF Typed, RelayTyped, Packets, Requests
  <1>2. ASSUME NEW y \in Sent PROVE Precedes(y, x)
    BY <1>1, ClientAssumption DEF Sent, Precedes, Packets
  <1>3. Stage(f, d) = 5 /\ d # <<"queue", BrmConverter>>
    BY EndStages
  <1>4. x \in KindAt(f, d)
    BY <1>1, <1>3 DEF KindAt
  <1> HIDE DEF x, d
  <1>5. ASSUME NEW e \in LinePlaces \ {d}, NEW y \in KindAt(f, e), Stage(f, d) <= Stage(f, e)
        PROVE  Precedes(x, y)
    <2>1. Stage(f, e) = 5 \/ Stage(f, e) = 6
      BY <1>3, <1>5, StageRange
    <2>2. CASE Stage(f, e) = 5
      BY <1>3, <1>4, <1>5, <2>2, StageApart
    <2>3. CASE Stage(f, e) = 6
      BY <1>5, <2>3 DEF KindAt
    <2>4. QED
      BY <2>1, <2>2, <2>3
  <1>6. {d, At("lost")} \cap LinePlaces \subseteq {d}
    BY PlaceNames DEF PoolPlaces
  <1>7. Newest(x) /\ Behind(f, x, {d, At("lost")})
    BY <1>2, <1>4, <1>5, <1>6 DEF Newest, Behind
  <1>8. QED
    BY <1>7 DEF x, d

\* A new request is behind all requests, at the converter.
LEMMA RequestBehind ==
  ASSUME Typed, NEW f \in Flows, f.name = "commands", f.from = "game_client",
         requested < MaxRequests
  PROVE  /\ Newest(MaxPackets + requested + 1)
         /\ Behind(f, MaxPackets + requested + 1, ForwardsTo(ServerScream, "BITRATE_REQUEST"))
  <1> DEFINE x == MaxPackets + requested + 1
             d == <<"queue", BrmConverter>>
  <1>1. /\ x \in Requests /\ Packets \cap Requests = {}
        /\ offered \in 0..MaxPackets /\ requested \in Nat
    BY ClientAssumption, RequestsAssumption DEF Typed, RelayTyped, Packets, Requests
  <1>2. ASSUME NEW y \in Sent PROVE Precedes(y, x)
    BY <1>1, ClientAssumption DEF Sent, Precedes, Packets
  <1>3. Stage(f, d) = 3 /\ \A c \in Registered(ServerScream, "BITRATE_REQUEST") : c = BrmConverter
    BY EndStages
  <1>4. x \in KindAt(f, d)
    BY <1>1, <1>3 DEF KindAt
  <1>5. \A c \in ForwardsTo(ServerScream, "BITRATE_REQUEST") : c = d \/ c = At("dropped")
    BY <1>3 DEF ForwardsTo
  <1> HIDE DEF x, d
  <1>6. ASSUME NEW e \in LinePlaces \ {d}, NEW y \in KindAt(f, e), Stage(f, d) <= Stage(f, e)
        PROVE  Precedes(x, y)
    <2>1. Stage(f, e) \in {3, 4, 5, 6}
      BY <1>3, <1>6, StageRange
    <2>2. y \in Packets
      BY <1>6, <2>1 DEF KindAt, d
    <2>3. QED
      BY <1>1, <2>2 DEF Precedes
  <1>7. At("dropped") \notin LinePlaces
    BY PlaceNames DEF PoolPlaces
  <1>8. Newest(x) /\ Behind(f, x, ForwardsTo(ServerScream, "BITRATE_REQUEST"))
    BY <1>2, <1>4, <1>5, <1>6, <1>7 DEF Newest, Behind
  <1>9. QED
    BY <1>8 DEF x

\* Commands travel in the TCP blocks, and no datagram with them.
LEMMA CommandsOnly ==
  ASSUME Typed, RouteInv, flow.name = "commands"
  PROVE  /\ net = {} /\ inbound = {} /\ out = <<>>
         /\ \A b \in QueueBlocks : queue[b] # <<>> => b \in TcpBlocks \cup {BrmConverter}
         /\ \A b \in UdpBlocks : queue[b] = <<>>
         /\ queue[ServerConverter] = <<>> /\ queue[ServerScream] = <<>>
  <1>1. net = {}
    BY DEF RouteInv, NetRouted, AddressesOf, AddressRoutes
  <1>2. inbound = {} /\ out = <<>>
    BY DEF RouteInv, NetRouted, ThroughScream
  <1>3. \A b \in QueueBlocks : queue[b] # <<>> => b \in TcpBlocks \cup {BrmConverter}
    <2>1. ASSUME NEW b \in QueueBlocks, queue[b] # <<>>
          PROVE  b \in TcpBlocks \cup {BrmConverter}
      <3>1. <<flow.name, flow.from, b>> \in QueueRoutes
        BY <2>1 DEF RouteInv, QueuesRouted, QueuesOf
      <3>2. QED
        BY <3>1, TcpNames DEF QueueRoutes
    <2>2. QED
      BY <2>1
  <1>4. /\ ServerConverter \in QueueBlocks /\ ServerScream \in QueueBlocks
        /\ ServerConverter \notin TcpBlocks \cup {BrmConverter}
        /\ ServerScream \notin TcpBlocks \cup {BrmConverter}
    BY TcpNames DEF QueueBlocks, ServerConverter, ServerScream, BrmConverter
  <1>5. ASSUME NEW b \in UdpBlocks PROVE b \in QueueBlocks /\ b \notin TcpBlocks \cup {BrmConverter}
    BY BlockNames, TcpNames
       DEF QueueBlocks, BrmConverter, Sockets, ServerSockets, ClientSockets, Proxies
  <1>6. QED
    BY <1>1, <1>2, <1>3, <1>4, <1>5

\* At first there is nothing to be out of order.
LEMMA OrderInit == Init => OrderInv
  <1> SUFFICES ASSUME Init PROVE Ordered(Line, flow) /\ KindsKept(Line, flow)
    BY DEF OrderInv
  <1>1. \A c \in LinePlaces : DOMAIN Line[c] = {}
    BY PlacesEmpty
  <1>2. QED
    BY <1>1 DEF Ordered, KindsKept

\* With commands, the steps that move datagrams are not taken.
LEMMA NoDatagrams ==
  ASSUME Typed, PlaceInv, RouteInv, flow.name = "commands"
  PROVE  /\ \A b \in UdpBlocks : ~UdpRead(b) /\ ~UdpRun(b)
         /\ ~ConvertToRtp /\ ~ConvertToRaw /\ ~ScreamSend /\ ~ScreamDiscard
         /\ ~GameReceive /\ ~LoseDatagram
         /\ Receiver /\ UNCHANGED <<flow, relayVars>> => Line' = Line
  <1>1. \A b \in UdpBlocks : ~UdpRead(b) /\ ~UdpRun(b)
    BY CommandsOnly DEF UdpRead, UdpRun
  <1>2. ~ConvertToRtp /\ ~ConvertToRaw /\ ~ScreamSend /\ ~ScreamDiscard
    BY CommandsOnly DEF ConvertToRtp, Convert, ConvertToRaw, Take, ScreamSend, ScreamDiscard
  <1>3. ~GameReceive /\ ~LoseDatagram
    BY CommandsOnly DEF GameReceive, LoseDatagram
  <1>4. ASSUME Receiver, UNCHANGED <<flow, relayVars>> PROVE Line' = Line
    <2>1. Pool[At("inbound")] = {}
      BY CommandsOnly, PoolValues DEF Pool
    <2>2. At("inbound") \notin LinePlaces
      BY PlaceNames DEF PoolPlaces
    <2>3. ~Moves(At("inbound"), {At("out")})
      BY <2>1, <2>2 DEF Moves, Takes, PoolTakes
    <2>4. QED
      BY <1>4, <2>3, ReceiverMoves
  <1>5. QED
    BY <1>1, <1>2, <1>3, <1>4

\* A behaviour carries one flow.
LEMMA FlowStays == [Next]_proxyVars => flow' = flow
  <1>1. (Receiver /\ UNCHANGED <<flow, relayVars>>) \/ UNCHANGED proxyVars => flow' = flow
    BY DEF proxyVars
  <1>2. Relay => flow' = flow
    <2>1. \A b \in UdpBlocks : UdpRead(b) \/ UdpRun(b) => flow' = flow
      BY DEF UdpRead, UdpRun
    <2>2. ConvertToRtp \/ ConvertToCommand \/ ConvertToRaw \/ ScreamSend => flow' = flow
      BY DEF ConvertToRtp, ConvertToCommand, Convert, ConvertToRaw, ScreamSend
    <2>3. /\ \A b \in TcpClients : TcpClientRun(b) \/ TcpClientRead(b) => flow' = flow
          /\ \A b \in Servers : TcpServerRun(b) \/ TcpServerRead(b) => flow' = flow
      BY TcpSteps DEF WritesOrDrops, ForwardsOrDrops
    <2>4. GameReceive \/ (\E end \in Ends : GameRead(end)) => flow' = flow
      BY DEF GameReceive, GameRead
    <2>5. QED
      BY <2>1, <2>2, <2>3, <2>4 DEF Relay
  <1>3. \A b \in Servers : Reader(b) \/ TcpServerReport(b, "run") \/ ReaderSpuriousWakeup(b)
                             => flow' = flow
    BY DEF Reader, TcpServerReport, ReaderSpuriousWakeup, ReaderDecides, ReaderSleeps,
           ReaderGoes, TcpServerReadFails, ServerOnly
  <1>4. Environment => flow' = flow
    <2>1. GameSend \/ ScreamRequest \/ ScreamDiscard => flow' = flow
      BY DEF GameSend, ScreamRequest, ScreamDiscard
    <2>2. LoseDatagram \/ Reconnect => flow' = flow
      BY DEF LoseDatagram, Reconnect
    <2>3. \A c \in Connections : Break(c) => flow' = flow
      BY DEF Break
    <2>4. QED
      BY <1>3, <2>1, <2>2, <2>3 DEF Environment
  <1>5. QED
    BY <1>1, <1>2, <1>3, <1>4 DEF Next

\* Every step with the commands moves a message one stage nearer the end, adds the
\* newest behind the others, or takes some away.
LEMMA OrderStep ==
  Typed /\ PlaceInv /\ RouteInv /\ OrderInv /\ [Next]_proxyVars => OrderInv'
  <1>1. SUFFICES ASSUME Typed, PlaceInv, RouteInv, OrderInv, [Next]_proxyVars,
                        flow.name = "commands"
                 PROVE  Ordered(Line', flow) /\ KindsKept(Line', flow)
    <2>1. [Next]_proxyVars => flow' = flow
      BY FlowStays
    <2>2. QED
      BY <2>1 DEF OrderInv
  <1>2. /\ flow \in Flows /\ Line \in AllLines /\ Pool \in AllPools
        /\ WellPlaced(Line, Pool, Sent)
        /\ Ordered(Line, flow) /\ KindsKept(Line, flow)
    BY <1>1, PlacesTyped DEF Typed, RelayTyped, PlaceInv, OrderInv
  <1>3. ASSUME NEW c \in LinePlaces, NEW D, Moves(c, D), Onward(flow, c, D)
        PROVE  Ordered(Line', flow) /\ KindsKept(Line', flow)
    BY <1>2, <1>3, OrderMoved
  <1>4. ASSUME NEW x, NEW D, Enters(x, D), Newest(x), Behind(flow, x, D)
        PROVE  Ordered(Line', flow) /\ KindsKept(Line', flow)
    BY <1>2, <1>4, OrderEntered
  <1>5. ASSUME Line' = Line PROVE Ordered(Line', flow) /\ KindsKept(Line', flow)
    BY <1>2, <1>5
  <1>6. At("lost") \notin LinePlaces /\ At("dropped") \notin LinePlaces
    BY PlaceNames DEF PoolPlaces
  <1>7. ASSUME ConvertToCommand PROVE Ordered(Line', flow) /\ KindsKept(Line', flow)
    <2> DEFINE D == ForwardsTo(BrmConverter, "RAW")
    <2>1. BrmConverter \in QueueBlocks /\ "RAW" \in Types
      BY DEF QueueBlocks, Types
    <2>2. Moves(<<"queue", BrmConverter>>, D)
      BY <1>1, <1>7, <2>1, ConvertMoves DEF ConvertToCommand
    <2>3. BrmConverter \in QueuesOf(flow)
      BY <1>1, <1>7, <2>1 DEF ConvertToCommand, Convert, RouteInv, QueuesRouted
    <2>4. flow.from = "game_client"
      BY <1>2, <2>3, BrmRoute
    <2>5. /\ Stage(flow, <<"queue", BrmConverter>>) = 3
          /\ \A c \in Registered(BrmConverter, "RAW") :
               Stage(flow, <<"queue", c>>) = 2 /\ c # BrmConverter
      BY <1>1, <1>2, <2>4, EndStages
    <2>6. \A c : <<"queue", c>> = <<"queue", BrmConverter>> => c = BrmConverter
      OBVIOUS
    <2>7. \A d \in D \cap LinePlaces :
            \E c \in Registered(BrmConverter, "RAW") : d = <<"queue", c>>
      BY <1>6 DEF ForwardsTo
    <2>8. Onward(flow, <<"queue", BrmConverter>>, D)
      BY <2>5, <2>6, <2>7 DEF Onward
    <2>9. QED
      BY <1>3, <2>1, <2>2, <2>8, PlaceNames
  <1>8. ASSUME NEW b \in TcpBlocks, WritesOrDrops(b)
        PROVE  Ordered(Line', flow) /\ KindsKept(Line', flow)
    <2> DEFINE D == {<<"stream", WritesOf(b)>>, At("lost"), At("dropped")}
    <2>1. b \in QueueBlocks /\ b \in QueuesOf(flow)
      BY <1>1, <1>8, PacketBlockFacts DEF WritesOrDrops, RouteInv, QueuesRouted
    <2>2. Moves(<<"queue", b>>, D)
      BY <1>1, <1>8, TcpRunMoves
    <2>3. Onward(flow, <<"queue", b>>, D)
      BY <1>1, <1>2, <1>6, <2>1, WritesNearer DEF Onward
    <2>4. QED
      BY <1>3, <2>1, <2>2, <2>3, PlaceNames
  <1>9. ASSUME NEW b \in TcpBlocks, ForwardsOrDrops(b)
        PROVE  Ordered(Line', flow) /\ KindsKept(Line', flow)
    <2> DEFINE D == ForwardsTo(b, "RAW")
    <2>1. ReadsOf(b) \in Streams /\ ReadsOf(b) \in StreamsOf(flow)
      BY <1>1, <1>9, StreamNames DEF ForwardsOrDrops, RouteInv, StreamsRouted
    <2>2. Moves(<<"stream", ReadsOf(b)>>, D)
      BY <1>1, <1>9, TcpReadMoves
    <2>3. \A c \in Registered(b, "RAW") :
            /\ Stage(flow, <<"queue", c>>) = Stage(flow, <<"stream", ReadsOf(b)>>) - 1
            /\ <<"queue", c>> # <<"queue", BrmConverter>>
      BY <1>2, <2>1, ReadsNearer
    <2>4. Onward(flow, <<"stream", ReadsOf(b)>>, D)
      BY <1>6, <2>3 DEF Onward, ForwardsTo
    <2>5. QED
      BY <1>3, <2>1, <2>2, <2>4, PlaceNames
  <1>10. ASSUME NEW end \in Ends, GameRead(end)
         PROVE  Ordered(Line', flow) /\ KindsKept(Line', flow)
    <2>1. EndReads(end) \in Streams /\ EndReads(end) \in StreamsOf(flow)
      BY <1>1, <1>10, StreamNames DEF GameRead, RouteInv, StreamsRouted
    <2>2. Moves(<<"stream", EndReads(end)>>, {At("delivered")})
      BY <1>1, <1>10, GameReadMoves
    <2>3. At("delivered") # <<"queue", BrmConverter>>
      BY DEF At
    <2>4. Stage(flow, <<"stream", EndReads(end)>>) = 1 /\ Stage(flow, At("delivered")) = 0
      BY <1>1, <1>2, <2>1, EndStages
    <2>5. Onward(flow, <<"stream", EndReads(end)>>, {At("delivered")})
      BY <2>3, <2>4 DEF Onward
    <2>6. QED
      BY <1>3, <2>1, <2>2, <2>5, PlaceNames
  <1>11. ASSUME GameSend PROVE Ordered(Line', flow) /\ KindsKept(Line', flow)
    <2> DEFINE D == {<<"stream", EndWrites(flow.from)>>, At("lost")}
    <2>1. offered < MaxPackets
      BY <1>11 DEF GameSend
    <2>2. Enters(offered + 1, D)
      BY <1>1, <1>11, GameSendEnters
    <2>3. Newest(offered + 1) /\ Behind(flow, offered + 1, D)
      BY <1>1, <1>2, <2>1, CommandBehind
    <2>4. QED
      BY <1>4, <2>2, <2>3
  <1>12. ASSUME ScreamRequest PROVE Ordered(Line', flow) /\ KindsKept(Line', flow)
    <2> DEFINE D == ForwardsTo(ServerScream, "BITRATE_REQUEST")
    <2>1. flow.from = "game_client" /\ requested < MaxRequests
      BY <1>12 DEF ScreamRequest
    <2>2. Enters(MaxPackets + requested + 1, D)
      BY <1>1, <1>12, RequestEnters
    <2>3. Newest(MaxPackets + requested + 1) /\ Behind(flow, MaxPackets + requested + 1, D)
      BY <1>1, <1>2, <2>1, RequestBehind
    <2>4. QED
      BY <1>4, <2>2, <2>3
  <1>13. ASSUME NEW k \in Connections, Break(k)
         PROVE  Ordered(Line', flow) /\ KindsKept(Line', flow)
    <2>1. PICK L : L = Line'
      OBVIOUS
    <2>2. \A d \in LinePlaces : DOMAIN L[d] = {} \/ L[d] = Line[d]
      BY <1>1, <1>13, <2>1, BreakKeeps
    <2>3. Ordered(L, flow) /\ KindsKept(L, flow)
      BY <1>2, <2>2 DEF Ordered, KindsKept
    <2>4. QED
      BY <2>1, <2>3
  <1>14. CASE Reconnect
    BY <1>5, <1>14 DEF Reconnect, clientVars, packetVars, Line
  <1>15. CASE UNCHANGED proxyVars
    BY <1>5, <1>15 DEF proxyVars, relayVars, clientVars, packetVars, Line
  <1>16. CASE Relay
    BY <1>1, <1>7, <1>8, <1>9, <1>10, <1>16, NoDatagrams, TcpSteps, TcpKinds DEF Relay
  <1>17. ASSUME NEW b \in Servers,
                Reader(b) \/ TcpServerReport(b, "run") \/ ReaderSpuriousWakeup(b)
         PROVE  Ordered(Line', flow) /\ KindsKept(Line', flow)
    <2>1. ServerOnly
      BY <1>1, <1>17, ReaderSteps DEF Typed
    <2>2. QED
      BY <1>5, <2>1 DEF ServerOnly, clientVars, packetVars, Line
  <1>18. CASE Environment
    BY <1>1, <1>11, <1>12, <1>13, <1>14, <1>17, <1>18, NoDatagrams DEF Environment
  <1>19. CASE Receiver /\ UNCHANGED <<flow, relayVars>>
    BY <1>1, <1>5, <1>19, NoDatagrams
  <1>20. QED
    BY <1>1, <1>15, <1>16, <1>17, <1>18, <1>19 DEF Next

\* The commands of an end come out in the order it sent them, and so do the bitrate
\* requests that share a queue with them, however the two kinds interleave and
\* whatever the connections lose.
THEOREM OrderKept == Spec => []OrderPerProducer
  <1>1. ASSUME Typed, OrderInv PROVE OrderPerProducer
    <2>1. SUFFICES ASSUME flow.name = "commands",
                          NEW i \in DOMAIN delivered, NEW j \in DOMAIN delivered, i < j
                   PROVE  Precedes(delivered[i].body, delivered[j].body)
      <3>1. Packets \cap Requests = {}
        BY ClientAssumption, RequestsAssumption DEF Packets, Requests
      <3>2. QED
        BY <3>1 DEF OrderPerProducer, InOrder, Precedes
    <2>2. Line[At("delivered")] = BodiesOf(delivered)
      BY DeliveredLine DEF Line
    <2>3. /\ i \in DOMAIN BodiesOf(delivered) /\ BodiesOf(delivered)[i] = delivered[i].body
          /\ j \in DOMAIN BodiesOf(delivered) /\ BodiesOf(delivered)[j] = delivered[j].body
      BY DEF BodiesOf
    <2>4. Stage(flow, At("delivered")) = 0 /\ At("delivered") \in LinePlaces
      BY PlaceNames DEF Stage
    <2>5. Ordered(Line, flow)
      BY <1>1, <2>1 DEF OrderInv
    <2>6. QED
      BY <2>1, <2>2, <2>3, <2>4, <2>5 DEF Ordered
  <1>2. Spec => [](Typed /\ PlaceInv /\ OrderInv)
    BY InPlace, OnRoute, OrderInit, OrderStep, PTL DEF Spec
  <1>3. QED
    BY <1>1, <1>2, PTL

-----------------------------------------------------------------------------
\* The refinement of Carrier.

Final == {At("delivered"), At("lost"), At("dropped")}

\* What has come out and what will not, by place.
Out  == Line[At("delivered")]
Gone == Pool[At("lost")] \cup Pool[At("dropped")]

\* They are what the variables say.
LEMMA CarrierPlaces == Out = BodiesOf(delivered) /\ Gone = lost \cup dropped
  <1>1. Line[At("delivered")] = BodiesOf(delivered)
    BY DeliveredLine DEF Line
  <1>2. Pool[At("lost")] = lost /\ Pool[At("dropped")] = dropped
    BY PoolValues DEF Pool
  <1>3. QED
    BY <1>1, <1>2 DEF Out, Gone

\* The same after a step.
LEMMA CarrierPlacesNext ==
  Out' = BodiesOf(delivered') /\ Gone' = lost' \cup dropped'
  <1>1. PICK L, P, d : /\ L = Line' /\ P = Pool' /\ d = delivered'
                       /\ L = LineOf(queue', stream', out', d)
                       /\ P = PoolOf(net', inbound', lost', dropped')
    BY DEF Line, Pool
  <1>2. L[At("delivered")] = BodiesOf(d)
    BY <1>1, DeliveredLine
  <1>3. P[At("lost")] = lost' /\ P[At("dropped")] = dropped'
    BY <1>1, PoolValues
  <1>4. Out' = L[At("delivered")] /\ Gone' = P[At("lost")] \cup P[At("dropped")]
    BY <1>1 DEF Out, Gone
  <1>5. QED
    BY <1>1, <1>2, <1>3, <1>4

\* A message that is taken has not come out and is not gone, and taking it changes
\* nothing about either.
LEMMA TakenOnTheWay ==
  ASSUME NEW L \in AllLines, NEW P \in AllPools, NEW S, WellPlaced(L, P, S),
         NEW c, c \notin Final, NEW x, NEW L1, NEW P1, Takes(L, P, c, x, L1, P1)
  PROVE  /\ x \in S /\ x \notin P[At("lost")] /\ x \notin P[At("dropped")]
         /\ \A i \in DOMAIN L[At("delivered")] : L[At("delivered")][i] # x
         /\ L1[At("delivered")] = L[At("delivered")]
         /\ P1[At("lost")] = P[At("lost")] /\ P1[At("dropped")] = P[At("dropped")]
  <1>1. /\ At("delivered") \in LinePlaces
        /\ At("lost") \in PoolPlaces /\ At("dropped") \in PoolPlaces
        /\ c # At("delivered") /\ c # At("lost") /\ c # At("dropped")
    BY PlaceNames DEF PoolPlaces, Final
  <1>2. CASE c \in LinePlaces /\ LineTakes(L, c, x, L1) /\ P1 = P
    <2>1. L[c] \in Seq(Bodies) /\ L[c] # <<>> /\ x = Head(L[c])
      BY <1>2 DEF LineTakes, AllLines
    <2>2. 1 \in DOMAIN L[c] /\ L[c][1] = x
      BY <2>1
    <2>3. L1[At("delivered")] = L[At("delivered")]
      BY <1>1, <1>2 DEF LineTakes, AllLines
    <2>4. /\ x \in S /\ x \notin P[At("lost")] /\ x \notin P[At("dropped")]
      BY <1>1, <1>2, <2>2 DEF WellPlaced
    <2>5. \A i \in DOMAIN L[At("delivered")] : L[At("delivered")][i] # x
      BY <1>1, <1>2, <2>2 DEF WellPlaced
    <2>6. QED
      BY <1>2, <2>3, <2>4, <2>5
  <1>3. CASE c \in PoolPlaces /\ PoolTakes(P, c, x, P1) /\ L1 = L
    <2>1. x \in P[c] /\ P1 = [P EXCEPT ![c] = @ \ {x}]
      BY <1>3 DEF PoolTakes
    <2>2. P1[At("lost")] = P[At("lost")] /\ P1[At("dropped")] = P[At("dropped")]
      BY <1>1, <2>1 DEF AllPools
    <2>3. /\ x \in S /\ x \notin P[At("lost")] /\ x \notin P[At("dropped")]
      BY <1>1, <1>3, <2>1 DEF WellPlaced
    <2>4. \A i \in DOMAIN L[At("delivered")] : L[At("delivered")][i] # x
      BY <1>1, <1>3, <2>1 DEF WellPlaced
    <2>5. QED
      BY <1>3, <2>2, <2>3, <2>4
  <1>4. QED
    BY <1>2, <1>3 DEF Takes

\* What is left of the places is places.
LEMMA TakenTypes ==
  ASSUME NEW L \in AllLines, NEW P \in AllPools, NEW c, NEW x, NEW L1, NEW P1,
         Takes(L, P, c, x, L1, P1)
  PROVE  L1 \in AllLines /\ P1 \in AllPools
  <1>1. CASE c \in LinePlaces /\ LineTakes(L, c, x, L1) /\ P1 = P
    <2>1. Tail(L[c]) \in Seq(Bodies)
      BY <1>1 DEF LineTakes, AllLines
    <2>2. QED
      BY <1>1, <2>1 DEF LineTakes, AllLines
  <1>2. CASE c \in PoolPlaces /\ PoolTakes(P, c, x, P1) /\ L1 = L
    <2>1. P[c] \ {x} \in SUBSET Bodies
      BY <1>2 DEF AllPools
    <2>2. QED
      BY <1>2, <2>1 DEF PoolTakes, AllPools
  <1>3. QED
    BY <1>1, <1>2 DEF Takes

\* Putting a message somewhere lets it come out, makes it gone, or does neither.
LEMMA PutArrives ==
  ASSUME NEW L \in AllLines, NEW P \in AllPools, NEW d, NEW x, NEW L1, NEW P1,
         Puts(L, P, d, x, L1, P1)
  PROVE  LET G  == P[At("lost")] \cup P[At("dropped")]
             G1 == P1[At("lost")] \cup P1[At("dropped")]
         IN  \/ L1[At("delivered")] = L[At("delivered")] /\ G1 = G
             \/ L1[At("delivered")] = Append(L[At("delivered")], x) /\ G1 = G
             \/ L1[At("delivered")] = L[At("delivered")] /\ G1 = G \cup {x}
  <1>1. /\ At("delivered") \in LinePlaces
        /\ At("lost") \in PoolPlaces /\ At("dropped") \in PoolPlaces
    BY PlaceNames DEF PoolPlaces
  <1>2. CASE d \in LinePlaces /\ LinePuts(L, d, x, L1) /\ P1 = P
    <2>1. \/ L1[At("delivered")] = L[At("delivered")]
          \/ L1[At("delivered")] = Append(L[At("delivered")], x)
      BY <1>1, <1>2 DEF LinePuts, AllLines
    <2>2. QED
      BY <1>2, <2>1
  <1>3. CASE d \in PoolPlaces /\ PoolPuts(P, d, x, P1) /\ L1 = L
    <2>1. \A e \in PoolPlaces : P1[e] = IF e = d THEN P[e] \cup {x} ELSE P[e]
      BY <1>3 DEF PoolPuts, AllPools
    <2>2. QED
      BY <1>1, <1>3, <2>1
  <1>4. QED
    BY <1>2, <1>3 DEF Puts

\* What is on its way.
Way == {x \in Sent : x \notin Gone /\ \A i \in DOMAIN Out : Out[i] # x}

\* So a step of the model that moves a message lets one on its way come out, makes
\* one gone, or does neither.
LEMMA MoveArrives ==
  ASSUME Line \in AllLines, Pool \in AllPools, WellPlaced(Line, Pool, Sent),
         NEW c, c \notin Final, NEW D, Moves(c, D)
  PROVE  \/ Out' = Out /\ Gone' = Gone
         \/ \E x \in Way : Out' = Append(Out, x) /\ Gone' = Gone
         \/ \E x \in Way : Out' = Out /\ Gone' = Gone \cup {x}
  <1>1. PICK x, L, P : /\ Takes(Line, Pool, c, x, L, P)
                       /\ \E d \in D : Puts(L, P, d, x, Line', Pool')
    BY DEF Moves
  <1>2. PICK d \in D : Puts(L, P, d, x, Line', Pool')
    BY <1>1
  <1>3. PICK L2, P2 : L2 = Line' /\ P2 = Pool'
    OBVIOUS
  <1>4. L \in AllLines /\ P \in AllPools
    BY <1>1, TakenTypes
  <1>5. x \in Way /\ L[At("delivered")] = Out /\ P[At("lost")] \cup P[At("dropped")] = Gone
    <2>1. /\ x \in Sent /\ x \notin Pool[At("lost")] /\ x \notin Pool[At("dropped")]
          /\ \A i \in DOMAIN Line[At("delivered")] : Line[At("delivered")][i] # x
          /\ L[At("delivered")] = Line[At("delivered")]
          /\ P[At("lost")] = Pool[At("lost")] /\ P[At("dropped")] = Pool[At("dropped")]
      BY <1>1, TakenOnTheWay
    <2>2. QED
      BY <2>1 DEF Way, Out, Gone
  <1>6. Puts(L, P, d, x, L2, P2)
    BY <1>2, <1>3
  <1>7. LET G  == P[At("lost")] \cup P[At("dropped")]
            G2 == P2[At("lost")] \cup P2[At("dropped")]
        IN  \/ L2[At("delivered")] = L[At("delivered")] /\ G2 = G
            \/ L2[At("delivered")] = Append(L[At("delivered")], x) /\ G2 = G
            \/ L2[At("delivered")] = L[At("delivered")] /\ G2 = G \cup {x}
    BY <1>4, <1>6, PutArrives
  <1>8. Out' = L2[At("delivered")] /\ Gone' = P2[At("lost")] \cup P2[At("dropped")]
    BY <1>3 DEF Out, Gone
  <1>9. QED
    BY <1>5, <1>7, <1>8

\* The senders whose order the flow keeps.
Kept == IF flow.name = "commands" THEN Senders ELSE {}

carrierVars == <<Kept, Sent, BodiesOf(delivered), lost \cup dropped>>

\* The steps of Carrier, by what becomes of what has come out and of what is gone.
LEMMA CarrierSteps ==
  ASSUME Typed, OrderPerProducer', flow' = flow
  PROVE  /\ Out' = Out /\ Gone' = Gone /\ Sent' = Sent => [Carrying!Next]_carrierVars
         /\ \A x \in Way : Out' = Append(Out, x) /\ Gone' = Gone /\ Sent' = Sent
                           => Carrying!Next
         /\ \A X \in SUBSET Way : Out' = Out /\ Gone' = Gone \cup X /\ Sent' = Sent
                                  => Carrying!Next
  <1>1. /\ Out = BodiesOf(delivered) /\ Gone = lost \cup dropped
        /\ Out' = BodiesOf(delivered') /\ Gone' = lost' \cup dropped'
    BY CarrierPlaces, CarrierPlacesNext
  <1>2. Kept' = Kept
    BY DEF Kept
  <1>3. ASSUME Out' = Out, Gone' = Gone, Sent' = Sent PROVE [Carrying!Next]_carrierVars
    BY <1>1, <1>2, <1>3 DEF carrierVars
  <1>4. Way = Carrying!OnTheWay
    BY <1>1 DEF Way, Carrying!OnTheWay, Carrying!HasArrived
  <1>5. ASSUME NEW x \in Way, Out' = Append(Out, x), Gone' = Gone, Sent' = Sent
        PROVE  Carrying!Next
    <2>1. ASSUME NEW S \in Kept, NEW y \in S, x \in S, NEW i \in DOMAIN Out, Out[i] = y
          PROVE  y < x
      <3>1. PICK o, d : o = Out' /\ d = delivered'
        OBVIOUS
      <3>2. Out \in Seq(Bodies) /\ x \in Bodies
        <4>1. delivered \in Seq(Deliveries) /\ \A m \in Deliveries : m.body \in Bodies
          BY DEF Typed, RelayTyped, Deliveries
        <4>2. BodiesOf(delivered) \in Seq(Bodies)
          BY <4>1, BodiesOfFacts
        <4>3. Sent \subseteq Bodies
          BY ClientAssumption, RequestsAssumption
             DEF Typed, RelayTyped, Sent, Bodies, Packets, Requests
        <4>4. QED
          BY <1>1, <4>2, <4>3 DEF Way
      <3>3. /\ i \in DOMAIN o /\ o[i] = y
            /\ Len(Out) + 1 \in DOMAIN o /\ o[Len(Out) + 1] = x /\ i < Len(Out) + 1
        BY <1>5, <2>1, <3>1, <3>2, AppendFacts
      <3>4. o = BodiesOf(d)
        BY <1>1, <3>1
      <3>5. /\ i \in DOMAIN d /\ d[i].body = y
            /\ Len(Out) + 1 \in DOMAIN d /\ d[Len(Out) + 1].body = x
        BY <3>3, <3>4 DEF BodiesOf
      <3>6. flow.name = "commands" /\ S \in Senders
        BY DEF Kept
      <3>7. \A a, b \in DOMAIN d : a < b /\ {d[a].body, d[b].body} \subseteq S
                                     => d[a].body < d[b].body
        BY <3>1, <3>6 DEF OrderPerProducer, InOrder, Senders
      <3>8. QED
        BY <2>1, <3>3, <3>5, <3>7
    <2>2. Carrying!Arrive(x)
      BY <1>1, <1>2, <1>5, <2>1 DEF Carrying!Arrive, Carrying!HasArrived, Kept
    <2>3. QED
      BY <1>4, <1>5, <2>2 DEF Carrying!Next
  <1>6. ASSUME NEW X \in SUBSET Way, Out' = Out, Gone' = Gone \cup X, Sent' = Sent
        PROVE  Carrying!Next
    <2>1. Carrying!Vanish(X)
      BY <1>1, <1>2, <1>6 DEF Carrying!Vanish, Kept
    <2>2. X \in SUBSET Carrying!OnTheWay
      BY <1>4, <1>6
    <2>3. QED
      BY <2>1, <2>2 DEF Carrying!Next
  <1>7. QED
    BY <1>3, <1>5, <1>6

\* A new command, packet or request is a step of its sender.
LEMMA SendCarried ==
  ASSUME Typed, RouteInv, GameSend \/ ScreamRequest
  PROVE  Carrying!Next
  <1>1. offered \in 0..MaxPackets /\ requested \in 0..MaxRequests /\ flow \in Flows
    BY DEF Typed, RelayTyped
  <1>2. Packets = 1..MaxPackets /\ Requests = MaxPackets + 1..MaxPackets + MaxRequests
        /\ MaxPackets \in Nat /\ MaxRequests \in Nat
    BY ClientAssumption, RequestsAssumption DEF Packets, Requests
  <1>3. CASE GameSend
    <2> DEFINE x == offered + 1
    <2>1. /\ offered < MaxPackets /\ offered' = x
          /\ UNCHANGED <<flow, requested, delivered, dropped>>
      BY <1>3 DEF GameSend
    <2>2. lost' = lost
      BY <1>3 DEF GameSend, WriteTo
    <2>3. x \in Packets /\ Packets \cap Sent = {y \in Packets : y < x}
      BY <1>1, <1>2, <2>1 DEF Sent
    <2>4. Sent' = Sent \cup {x}
      <3>1. 1..x = 1..offered \cup {x}
        BY <1>1
      <3>2. QED
        BY <2>1, <3>1 DEF Sent
    <2>5. Carrying!Send(Packets, x)
      BY <2>1, <2>2, <2>3, <2>4 DEF Carrying!Send
    <2>6. QED
      BY <2>3, <2>5 DEF Carrying!Next, Senders
  <1>4. CASE ScreamRequest
    <2> DEFINE x == MaxPackets + requested + 1
    <2>1. /\ requested < MaxRequests /\ requested' = requested + 1
          /\ flow.name = "commands" /\ flow.from = "game_client"
          /\ Forward(queue, ServerScream, "BITRATE_REQUEST", x)
          /\ UNCHANGED <<flow, offered, delivered, lost>>
      BY <1>4 DEF ScreamRequest
    <2>2. dropped' = dropped
      BY <1>1, <2>1, RequestRoute DEF Forward
    <2>3. x \in Requests /\ Requests \cap Sent = {y \in Requests : y < x}
      BY <1>1, <1>2, <2>1 DEF Sent
    <2>4. Sent' = Sent \cup {x}
      <3>1. MaxPackets + 1..MaxPackets + (requested + 1)
              = MaxPackets + 1..MaxPackets + requested \cup {x}
        BY <1>1, <1>2
      <3>2. QED
        BY <2>1, <3>1 DEF Sent
    <2>5. Carrying!Send(Requests, x)
      BY <2>1, <2>2, <2>3, <2>4 DEF Carrying!Send
    <2>6. QED
      BY <2>3, <2>5 DEF Carrying!Next, Senders
  <1>5. QED
    BY <1>3, <1>4

\* When a connection goes away, what was on it is gone.
LEMMA BreakCarried ==
  ASSUME Typed, PlaceInv, NEW k \in Connections, Break(k)
  PROVE  \E X \in SUBSET Way : Out' = Out /\ Gone' = Gone \cup X /\ Sent' = Sent
  <1> DEFINE X == ToSet(stream[<<k, "to">>]) \cup ToSet(stream[<<k, "back">>])
  <1>1. /\ lost' = lost \cup X
        /\ UNCHANGED <<offered, requested, delivered, dropped, queue, out>>
    BY DEF Break, clientVars, packetVars
  <1>2. ASSUME NEW s \in Streams, NEW x \in ToSet(stream[s]) PROVE x \in Way
    <2>1. PICK i \in DOMAIN stream[s] : stream[s][i] = x
      BY DEF ToSet
    <2>2. <<"stream", s>> \in LinePlaces /\ Line[<<"stream", s>>] = stream[s]
      BY StreamLine, PlaceNames DEF Line
    <2>3. /\ At("delivered") \in LinePlaces /\ At("delivered") # <<"stream", s>>
          /\ At("lost") \in PoolPlaces /\ At("dropped") \in PoolPlaces
      BY LinesApart, PlaceNames DEF PoolPlaces
    <2>4. /\ x \in Sent /\ x \notin Pool[At("lost")] /\ x \notin Pool[At("dropped")]
          /\ \A j \in DOMAIN Line[At("delivered")] : Line[At("delivered")][j] # x
      BY <2>1, <2>2, <2>3 DEF PlaceInv, WellPlaced
    <2>5. QED
      BY <2>4 DEF Way, Out, Gone
  <1>3. <<k, "to">> \in Streams /\ <<k, "back">> \in Streams
    BY DEF Streams
  <1>4. X \in SUBSET Way
    BY <1>2, <1>3
  <1> HIDE DEF X
  <1>5. /\ Out = BodiesOf(delivered) /\ Gone = lost \cup dropped
        /\ Out' = BodiesOf(delivered') /\ Gone' = lost' \cup dropped'
    BY CarrierPlaces, CarrierPlacesNext
  <1>6. Sent' = Sent
    BY <1>1 DEF Sent
  <1>7. QED
    BY <1>1, <1>4, <1>5, <1>6

\* A message can be taken from every place that is not final.
LEMMA NotFinal ==
  /\ At("net") \notin Final /\ At("inbound") \notin Final /\ At("out") \notin Final
  /\ \A b : <<"queue", b>> \notin Final
  /\ \A s : <<"stream", s>> \notin Final
  BY DEF Final, At

\* Every step of both programs, the ends and the network is one of Carrier or
\* changes nothing that Carrier sees.
LEMMA CarrierStep ==
  Typed /\ PlaceInv /\ RouteInv /\ OrderPerProducer' /\ [Next]_proxyVars
    => [Carrying!Next]_carrierVars
  <1> SUFFICES ASSUME Typed, PlaceInv, RouteInv, OrderPerProducer', [Next]_proxyVars
               PROVE  [Carrying!Next]_carrierVars
    OBVIOUS
  <1>1. Line \in AllLines /\ Pool \in AllPools /\ WellPlaced(Line, Pool, Sent)
    BY PlacesTyped DEF Typed, RelayTyped, PlaceInv
  <1>2. flow' = flow
    BY FlowStays
  <1>3. ASSUME Out' = Out, Gone' = Gone, Sent' = Sent PROVE [Carrying!Next]_carrierVars
    BY <1>2, <1>3, CarrierSteps
  <1>4. ASSUME NEW X \in SUBSET Way, Out' = Out, Gone' = Gone \cup X, Sent' = Sent
        PROVE  [Carrying!Next]_carrierVars
    BY <1>2, <1>4, CarrierSteps
  <1>5. ASSUME NEW c, c \notin Final, NEW D, Moves(c, D), Sent' = Sent
        PROVE  [Carrying!Next]_carrierVars
    <2>1. \/ Out' = Out /\ Gone' = Gone
          \/ \E x \in Way : Out' = Append(Out, x) /\ Gone' = Gone
          \/ \E x \in Way : Out' = Out /\ Gone' = Gone \cup {x}
      BY <1>1, <1>5, MoveArrives
    <2>2. ASSUME NEW x \in Way, Out' = Append(Out, x), Gone' = Gone
          PROVE  [Carrying!Next]_carrierVars
      BY <1>2, <1>5, <2>2, CarrierSteps
    <2>3. ASSUME NEW x \in Way, Out' = Out, Gone' = Gone \cup {x}
          PROVE  [Carrying!Next]_carrierVars
      <3>1. {x} \in SUBSET Way
        OBVIOUS
      <3>2. QED
        BY <1>4, <1>5, <2>3, <3>1
    <2>4. QED
      BY <1>3, <1>5, <2>1, <2>2, <2>3
  <1>6. ASSUME Line' = Line, Pool' = Pool, Sent' = Sent PROVE [Carrying!Next]_carrierVars
    BY <1>3, <1>6 DEF Out, Gone
  <1>7. CASE UNCHANGED proxyVars
    BY <1>6, <1>7 DEF proxyVars, relayVars, clientVars, packetVars, Line, Pool, Sent
  <1>8. CASE Receiver /\ UNCHANGED <<flow, relayVars>>
    BY <1>5, <1>6, <1>8, ReceiverMoves, NotFinal
  <1>9. CASE Relay
    <2>1. ASSUME NEW b \in UdpBlocks, UdpRead(b) \/ UdpRun(b)
          PROVE  [Carrying!Next]_carrierVars
      BY <1>5, <2>1, UdpMoves, NotFinal
    <2>2. ASSUME ConvertToRtp \/ ConvertToCommand PROVE [Carrying!Next]_carrierVars
      <3>1. /\ ServerConverter \in QueueBlocks /\ BrmConverter \in QueueBlocks
            /\ "RAW" \in Types /\ "RTP_PACKET" \in Types
        BY DEF QueueBlocks, Types
      <3>2. QED
        BY <1>5, <2>2, <3>1, ConvertMoves, NotFinal DEF ConvertToRtp, ConvertToCommand
    <2>3. CASE ConvertToRaw
      BY <1>5, <2>3, ConvertToRawMoves, NotFinal
    <2>4. CASE ScreamSend
      BY <1>5, <2>4, ScreamMoves, NotFinal
    <2>5. ASSUME NEW b \in TcpBlocks, WritesOrDrops(b) \/ ForwardsOrDrops(b)
          PROVE  [Carrying!Next]_carrierVars
      BY <1>5, <2>5, TcpRunMoves, TcpReadMoves, NotFinal
    <2>6. CASE GameReceive
      BY <1>5, <2>6, GameReceiveMoves, NotFinal
    <2>7. ASSUME NEW end \in Ends, GameRead(end) PROVE [Carrying!Next]_carrierVars
      BY <1>5, <2>7, GameReadMoves, NotFinal
    <2>8. QED
      BY <1>9, <2>1, <2>2, <2>3, <2>4, <2>5, <2>6, <2>7, TcpSteps, TcpKinds DEF Relay
  <1>0. ASSUME NEW b \in Servers,
               Reader(b) \/ TcpServerReport(b, "run") \/ ReaderSpuriousWakeup(b)
        PROVE  [Carrying!Next]_carrierVars
    <2>1. ServerOnly
      BY <1>0, ReaderSteps DEF Typed
    <2>2. QED
      BY <1>6, <2>1 DEF ServerOnly, clientVars, packetVars, Line, Pool, Sent
  <1>10. CASE Environment
    <2>0. CASE ScreamDiscard
      BY <1>5, <2>0, DiscardMoves, NotFinal
    <2>1. CASE GameSend \/ ScreamRequest
      BY <2>1, SendCarried
    <2>2. CASE LoseDatagram
      BY <1>5, <2>2, LoseMoves, NotFinal
    <2>3. CASE Reconnect
      BY <1>6, <2>3 DEF Reconnect, clientVars, packetVars, Line, Pool, Sent
    <2>4. ASSUME NEW k \in Connections, Break(k) PROVE [Carrying!Next]_carrierVars
      BY <1>4, <2>4, BreakCarried
    <2>5. QED
      BY <1>0, <1>10, <2>0, <2>1, <2>2, <2>3, <2>4 DEF Environment
  <1>11. QED
    BY <1>0, <1>7, <1>8, <1>9, <1>10 DEF Next


\* CarrierSpec: for any numbers of packets and requests, both programs together only
\* ever send, let come out or lose a message, each at most once, and let the
\* messages of a sender of commands come out in the order they were sent in.
THEOREM CarriesMessages == Spec => CarrierSpec
  <1>1. Init => Carrying!Init
    <2> SUFFICES ASSUME Init PROVE Carrying!Init
      OBVIOUS
    <2>1. offered = 0 /\ requested = 0 /\ delivered = <<>> /\ lost = {} /\ dropped = {}
      BY DEF Init
    <2>2. Sent = {}
      BY <2>1, ClientAssumption DEF Sent
    <2>3. BodiesOf(delivered) = <<>>
      BY <2>1 DEF BodiesOf
    <2>4. QED
      BY <2>1, <2>2, <2>3 DEF Carrying!Init
  <1>2. Typed /\ PlaceInv /\ RouteInv /\ OrderPerProducer' /\ [Next]_proxyVars
          => [Carrying!Next]_carrierVars
    BY CarrierStep
  <1>3. QED
    BY <1>1, <1>2, InPlace, OnRoute, OrderKept, PTL
       DEF Spec, CarrierSpec, Carrying!Spec, carrierVars, Kept
=============================================================================
