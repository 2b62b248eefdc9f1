------------------------------ MODULE PipeFifo ------------------------------
(***************************************************************************)
(* What the pipe device of pipe.c promises of the bytes: a queue of at     *)
(* most Capacity of them.  A write appends the bytes it takes from user    *)
(* space, a read removes the ones it delivers, each moves at least one     *)
(* byte when it is asked for one, and the device may drop the whole queue. *)
(***************************************************************************)
EXTENDS Naturals, Sequences

CONSTANTS Byte, Capacity, Counts

VARIABLES
  queue,    \* the bytes written and not yet read, oldest first
  xfer      \* the transfer to or from user space under way

NoXfer == [op |-> "none", count |-> 0, bytes |-> <<>>]
Init == queue = <<>> /\ xfer = NoXfer

(* what a call asked for c bytes may move when it could move k *)
Amounts(c, k) == {n \in 0 .. k : n <= c /\ (c > 0 => n > 0)}

Put(c) ==
  /\ xfer = NoXfer
  /\ Len(queue) < Capacity
  /\ \E n \in Amounts(c, Capacity - Len(queue)) : \E s \in [1 .. n -> Byte] :
       /\ queue' = queue \o s
       /\ xfer' = [op |-> "write", count |-> c, bytes |-> s]

Get(c) ==
  /\ xfer = NoXfer
  /\ queue # <<>>
  /\ \E n \in Amounts(c, Len(queue)) :
       /\ queue' = SubSeq(queue, n + 1, Len(queue))
       /\ xfer' = [op |-> "read", count |-> c, bytes |-> SubSeq(queue, 1, n)]

Finish == xfer # NoXfer /\ xfer' = NoXfer /\ UNCHANGED queue

Reset == queue' = <<>> /\ xfer = NoXfer /\ UNCHANGED xfer

Next == (\E c \in Counts : Put(c) \/ Get(c)) \/ Finish \/ Reset

Spec == Init /\ [][Next]_<<queue, xfer>>
=============================================================================
