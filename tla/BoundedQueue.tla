---------------------------- MODULE BoundedQueue ----------------------------
(***************************************************************************)
(* What a byte fifo of the driver promises to its callers: a first-in      *)
(* first-out queue of at most Capacity bytes.  A call that cannot be       *)
(* served (push on a full queue, pop on an empty one) changes nothing and  *)
(* says so in its return value.                                            *)
(***************************************************************************)
EXTENDS Integers, Sequences

CONSTANTS
  Capacity,   \* most bytes the queue holds
  Byte        \* the values that can be stored

VARIABLES
  queue,      \* the stored bytes, oldest first
  result      \* the last call and what it returned

vars == <<queue, result>>

Init == queue = <<>> /\ result = [op |-> "new", ret |-> 0]

Push(c) ==
  \/ /\ Len(queue) < Capacity
     /\ queue' = Append(queue, c)
     /\ result' = [op |-> "push", ret |-> 1]
  \/ /\ Len(queue) = Capacity
     /\ result' = [op |-> "push", ret |-> 0]
     /\ UNCHANGED queue

Pop ==
  \/ /\ queue # <<>>
     /\ queue' = Tail(queue)
     /\ result' = [op |-> "pop", ret |-> Head(queue)]
  \/ /\ queue = <<>>
     /\ result' = [op |-> "pop", ret |-> -1]
     /\ UNCHANGED queue

Flush == queue' = <<>> /\ result' = [op |-> "flush", ret |-> 0]

GetCount == result' = [op |-> "getCount", ret |-> Len(queue)] /\ UNCHANGED queue

GetSpace ==
  result' = [op |-> "getSpace", ret |-> Capacity - Len(queue)] /\ UNCHANGED queue

Next == (\E c \in Byte : Push(c)) \/ Pop \/ Flush \/ GetCount \/ GetSpace

Spec == Init /\ [][Next]_vars
=============================================================================
