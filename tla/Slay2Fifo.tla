----------------------------- MODULE Slay2Fifo -----------------------------
(***************************************************************************)
(* Slay2Fifo (slay2_buffer.h/.cpp): the ring buffer behind every channel's *)
(* txFifo and behind the nullmodem's serial line.  Calls are serialised by *)
(* the driver's critical section, so each call is one action.              *)
(***************************************************************************)
EXTENDS Integers, Sequences

CONSTANTS
  FIFO_SIZE,  \* SLAY2_FIFO_SIZE
  Byte        \* the unsigned char values in use

ASSUME SizeAssumption == FIFO_SIZE \in Nat \ {0}
ASSUME ByteAssumption == Byte \subseteq Nat

VARIABLES
  buffer,     \* buffer[SLAY2_FIFO_SIZE], never initialised by the constructor
  read, write, count,
  result      \* the last call and what it returned

vars == <<buffer, read, write, count, result>>

Index == 0 .. FIFO_SIZE - 1

TypeOK ==
  /\ buffer \in [Index -> Byte]
  /\ read \in Index
  /\ write \in Index
  /\ count \in 0 .. FIFO_SIZE
  /\ result \in [op : {"new", "push", "pop", "flush", "getCount", "getSpace"}, ret : Int]

-----------------------------------------------------------------------------

Init ==
  /\ buffer \in [Index -> Byte]
  /\ read = 0 /\ write = 0 /\ count = 0
  /\ result = [op |-> "new", ret |-> 0]

\* Plausible slips, for mutation of the model.
UnwrappedStep(i) == i + 1
OverfullGuard == count <= FIFO_SIZE

\* i++, then back to 0 at the end of the array.
Step(i) == IF i + 1 >= FIFO_SIZE THEN 0 ELSE i + 1

HasSpace == count < FIFO_SIZE

Push(c) ==
  \/ /\ HasSpace
     /\ buffer' = [buffer EXCEPT ![write] = c]
     /\ write' = Step(write)
     /\ count' = count + 1
     /\ result' = [op |-> "push", ret |-> 1]
     /\ UNCHANGED read
  \/ /\ ~HasSpace
     /\ result' = [op |-> "push", ret |-> 0]
     /\ UNCHANGED <<buffer, read, write, count>>

Pop ==
  \/ /\ count > 0
     /\ result' = [op |-> "pop", ret |-> buffer[read]]
     /\ read' = Step(read)
     /\ count' = count - 1
     /\ UNCHANGED <<buffer, write>>
  \/ /\ count = 0
     /\ result' = [op |-> "pop", ret |-> -1]
     /\ UNCHANGED <<buffer, read, write, count>>

Flush ==
  /\ read' = 0 /\ write' = 0 /\ count' = 0
  /\ result' = [op |-> "flush", ret |-> 0]
  /\ UNCHANGED buffer

GetCount ==
  /\ result' = [op |-> "getCount", ret |-> count]
  /\ UNCHANGED <<buffer, read, write, count>>

GetSpace ==
  /\ result' = [op |-> "getSpace", ret |-> FIFO_SIZE - count]
  /\ UNCHANGED <<buffer, read, write, count>>

Next == (\E c \in Byte : Push(c)) \/ Pop \/ Flush \/ GetCount \/ GetSpace

Spec == Init /\ [][Next]_vars

-----------------------------------------------------------------------------

\* The index k places after read.
Slot(k) == IF read + k < FIFO_SIZE THEN read + k ELSE read + k - FIFO_SIZE

Contents == [i \in 1 .. count |-> buffer[Slot(i - 1)]]

Queue == INSTANCE BoundedQueue WITH Capacity <- FIFO_SIZE, queue <- Contents

\* The ring buffer is a bounded first-in first-out queue: no byte is lost,
\* repeated or overtaken across the wrap of either index, a full fifo refuses and
\* an empty one answers -1.
ImplementsQueue == Queue!Spec
=============================================================================
