-------------------------------- MODULE Fifo --------------------------------
(***************************************************************************)
(* A bounded queue between one producer and one consumer: what the rings   *)
(* in memory that a driver shares with a controller have to look like.     *)
(***************************************************************************)
EXTENDS Integers, Sequences

CONSTANTS Items, Capacity

VARIABLE queue

Init == queue = <<>>

Put(x) == Len(queue) < Capacity /\ queue' = Append(queue, x)

Get(x) == queue # <<>> /\ x = Head(queue) /\ queue' = Tail(queue)

Next == \E x \in Items : Put(x) \/ Get(x)

Spec == Init /\ [][Next]_queue
=============================================================================
