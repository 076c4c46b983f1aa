-------------------------- MODULE Slay2LinearFifo --------------------------
(***************************************************************************)
(* Slay2LinearFifo<N> (slay2_buffer.h): a linear buffer for bursts.        *)
(* top() hands out a pointer into the buffer, pop() gives no space back    *)
(* before everything is popped, and a zero always follows the data.        *)
(***************************************************************************)
EXTENDS Integers, Sequences

CONSTANTS
  N,          \* the template's parameter
  Value,      \* the unsigned char values in use, 0 among them
  Block       \* what push is called with: sequences of bytes

ASSUME LinearSizeAssumption == N \in Nat
ASSUME ValueAssumption == Value \subseteq Nat /\ 0 \in Value
ASSUME BlockAssumption == Block \subseteq Seq(Value)

VARIABLES
  linBuffer,    \* buffer[N + 1], never initialised but for the zero of flush
  linRead, linWrite, linCount,
  linResult     \* the last call, what it returned and what its pointer shows

linData == <<linBuffer, linRead, linWrite, linCount>>
linVars == <<linData, linResult>>

Place == 0 .. N

LinearTypeOK ==
  /\ linBuffer \in [Place -> Value]
  /\ linRead \in Place /\ linWrite \in Place /\ linCount \in Place
  /\ linResult \in [op : {"new", "push", "top", "pop", "flush", "getCount", "getSpace"},
                    ret : Nat, shown : Seq(Value)]

-----------------------------------------------------------------------------

Answer(op, ret, shown) == linResult' = [op |-> op, ret |-> ret, shown |-> shown]

LinearInit ==
  /\ linBuffer \in {b \in [Place -> Value] : b[0] = 0}
  /\ linRead = 0 /\ linWrite = 0 /\ linCount = 0
  /\ linResult = [op |-> "new", ret |-> 0, shown |-> <<>>]

\* A plausible slip, for mutation of the model: the indices run on when the last byte is
\* popped.
ClearCountOnly == linRead' = linWrite /\ linCount' = 0 /\ UNCHANGED <<linWrite, linBuffer>>

\* flush(), which pop() calls when nothing is left.
Clear ==
  /\ linRead' = 0 /\ linWrite' = 0 /\ linCount' = 0
  /\ linBuffer' = [linBuffer EXCEPT ![0] = 0]

Free == N - linWrite

\* memcpy to the end of the data, and a zero behind it.
Fill(block) ==
  [i \in Place |-> IF i \in linWrite .. linWrite + Len(block) - 1 THEN block[i - linWrite + 1]
                   ELSE IF i = linWrite + Len(block) THEN 0
                   ELSE linBuffer[i]]

LinearPush(block) ==
  \/ /\ Len(block) <= Free
     /\ linBuffer' = Fill(block)
     /\ linCount' = linCount + Len(block) /\ linWrite' = linWrite + Len(block)
     /\ Answer("push", 1, <<>>) /\ UNCHANGED linRead
  \/ Len(block) > Free /\ Answer("push", 0, <<>>) /\ UNCHANGED linData

\* A plausible slip, for mutation of the model: the data is moved down to make room.
PushCompacting(block) ==
  \/ /\ linCount + Len(block) <= N
     /\ linBuffer' = [i \in Place |-> IF i < linCount THEN linBuffer[linRead + i]
                                   ELSE IF i - linCount < Len(block) THEN block[i - linCount + 1] ELSE 0]
     /\ linRead' = 0 /\ linCount' = linCount + Len(block) /\ linWrite' = linCount + Len(block)
     /\ Answer("push", 1, <<>>)
  \/ /\ linCount + Len(block) > N /\ Answer("push", 0, <<>>)
     /\ UNCHANGED linData
Add(block) == LinearPush(block)

\* The count bytes from read on.
LinearContents == [i \in 1 .. linCount |-> linBuffer[linRead + i - 1]]

LinearTop == Answer("top", linCount, LinearContents) /\ UNCHANGED linData

LinearPop(n) ==
  \/ n = linCount /\ Clear /\ Answer("pop", 1, <<>>)
  \/ /\ n < linCount
     /\ linRead' = linRead + n /\ linCount' = linCount - n
     /\ Answer("pop", 1, <<>>) /\ UNCHANGED <<linBuffer, linWrite>>
  \/ n > linCount /\ Answer("pop", 0, <<>>) /\ UNCHANGED linData

LinearFlush == Clear /\ Answer("flush", 0, <<>>)

LinearGetCount == Answer("getCount", linCount, <<>>) /\ UNCHANGED linData

LinearGetSpace == Answer("getSpace", Free, <<>>) /\ UNCHANGED linData

LinearNext ==
  \/ \E block \in Block : Add(block)
  \/ \E n \in 0 .. N + 1 : LinearPop(n)
  \/ LinearTop \/ LinearFlush \/ LinearGetCount \/ LinearGetSpace

LinearSpec == LinearInit /\ [][LinearNext]_linVars

-----------------------------------------------------------------------------
\* The three numbers agree, and a zero follows the data inside the buffer: a caller may
\* read what top() shows as a string, after any mix of pushes and partial pops.
Terminated == linWrite = linRead + linCount /\ linBuffer[linWrite] = 0

\* An empty buffer has all of its space back.
EmptyMeansRoom == linCount = 0 => Free = N

\* What top() has shown stays where the pointer points until it is popped or flushed:
\* pushing more moves and overwrites nothing.
DataStaysInPlace ==
  [][linCount' >= linCount /\ linResult'.op = "push" =>
       linRead' = linRead /\ \A i \in linRead .. linWrite - 1 : linBuffer'[i] = linBuffer[i]]_linVars

\* The linear buffer is a queue of blocks whose space returns when it is empty.
Bursts == INSTANCE BurstQueue WITH
  Capacity <- N, queue <- LinearContents, used <- linRead, result <- linResult

ImplementsBursts == Bursts!Spec
=============================================================================
