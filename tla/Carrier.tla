------------------------------ MODULE Carrier ------------------------------
(***************************************************************************)
(* What the two proxies promise of the messages of a flow, and TcpServer   *)
(* of what it writes: each one comes out at most once and stays out, what  *)
(* is gone never comes out, and where the order is kept the messages of a  *)
(* sender come out as they were sent.  Unlike FifoChannel it may lose      *)
(* messages, and it has several senders.                                   *)
(***************************************************************************)
EXTENDS Naturals, Sequences

CONSTANT Senders     \* the messages of each sender, which are numbers

VARIABLES
  kept,              \* the senders whose order is kept
  sent,              \* what has been sent so far
  arrived,           \* what has come out, in order
  gone               \* what will not come out

HasArrived(x) == \E i \in DOMAIN arrived : arrived[i] = x
OnTheWay      == {x \in sent : ~HasArrived(x) /\ x \notin gone}

Send(S, x) ==
  /\ S \cap sent = {y \in S : y < x}
  /\ sent' = sent \cup {x}
  /\ UNCHANGED <<kept, arrived, gone>>

Arrive(x) ==
  /\ \A S \in kept : \A y \in S : x \in S /\ HasArrived(y) => y < x
  /\ arrived' = Append(arrived, x)
  /\ UNCHANGED <<kept, sent, gone>>

Vanish(X) ==
  /\ gone' = gone \cup X
  /\ UNCHANGED <<kept, sent, arrived>>

Init ==
  /\ kept \subseteq Senders
  /\ sent = {} /\ arrived = <<>> /\ gone = {}

Next ==
  \/ \E S \in Senders : \E x \in S : Send(S, x)
  \/ \E x \in OnTheWay : Arrive(x)
  \/ \E X \in SUBSET OnTheWay : Vanish(X)

Spec == Init /\ [][Next]_<<kept, sent, arrived, gone>>
=============================================================================
