---------------------------- MODULE FifoChannel ----------------------------
(***************************************************************************)
(* What a forwarding path of the proxy promises: what is put in comes out  *)
(* once, unchanged and in the order it was put in.  README.md of the       *)
(* repository: the packets "are placed in a FIFO queue"; the other flows   *)
(* are "just transferred untouched".                                       *)
(***************************************************************************)
EXTENDS Sequences

CONSTANT Items       \* what may be put into the channel

VARIABLES
  pending,           \* put in and not yet taken out, oldest first
  delivered          \* everything taken out so far, oldest first

Init ==
  /\ pending = <<>>
  /\ delivered = <<>>

Put(item) ==
  /\ pending' = Append(pending, item)
  /\ UNCHANGED delivered

Get ==
  /\ pending # <<>>
  /\ delivered' = Append(delivered, Head(pending))
  /\ pending' = Tail(pending)

Next == Get \/ \E item \in Items : Put(item)

Spec == Init /\ [][Next]_<<pending, delivered>>
=============================================================================
