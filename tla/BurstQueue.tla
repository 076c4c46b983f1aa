----------------------------- MODULE BurstQueue -----------------------------
(***************************************************************************)
(* What Slay2LinearFifo promises: a queue of bytes that takes blocks whole *)
(* or not at all and shows all of its contents at once.  The space of what *)
(* is taken out stays used until the queue is empty.                       *)
(***************************************************************************)
EXTENDS Integers, Sequences

CONSTANTS
  Capacity,   \* bytes there is space for
  Block       \* the blocks that are pushed: sequences of bytes

VARIABLES
  queue,      \* the stored bytes, oldest first
  used,       \* bytes taken out since the queue was last empty
  result      \* the last call, what it returned and what it has shown

vars == <<queue, used, result>>

Space == Capacity - used - Len(queue)

Answer(op, ret, shown) == result' = [op |-> op, ret |-> ret, shown |-> shown]

Init == queue = <<>> /\ used = 0 /\ result = [op |-> "new", ret |-> 0, shown |-> <<>>]

Push(block) ==
  \/ /\ Len(block) <= Space /\ queue' = queue \o block
     /\ Answer("push", 1, <<>>) /\ UNCHANGED used
  \/ Len(block) > Space /\ Answer("push", 0, <<>>) /\ UNCHANGED <<queue, used>>

Top == Answer("top", Len(queue), queue) /\ UNCHANGED <<queue, used>>

Pop(n) ==
  \/ n = Len(queue) /\ queue' = <<>> /\ used' = 0 /\ Answer("pop", 1, <<>>)
  \/ /\ n < Len(queue) /\ queue' = SubSeq(queue, n + 1, Len(queue)) /\ used' = used + n
     /\ Answer("pop", 1, <<>>)
  \/ n > Len(queue) /\ Answer("pop", 0, <<>>) /\ UNCHANGED <<queue, used>>

Flush == queue' = <<>> /\ used' = 0 /\ Answer("flush", 0, <<>>)

GetCount == Answer("getCount", Len(queue), <<>>) /\ UNCHANGED <<queue, used>>

GetSpace == Answer("getSpace", Space, <<>>) /\ UNCHANGED <<queue, used>>

Next ==
  \/ \E block \in Block : Push(block)
  \/ \E n \in 0 .. Capacity + 1 : Pop(n)
  \/ Top \/ Flush \/ GetCount \/ GetSpace

Spec == Init /\ [][Next]_vars
=============================================================================
