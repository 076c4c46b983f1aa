------------------------- MODULE Slay2Buffers_proofs -------------------------
(***************************************************************************)
(* The two byte buffers, for every size and every set of bytes: Slay2Fifo  *)
(* is a bounded queue, Slay2LinearFifo a queue of bursts.                  *)
(***************************************************************************)
EXTENDS Slay2Fifo, Slay2LinearFifo, SequenceTheorems, TLAPS

\* The ring is inductive: types and the place of write are kept together.
\* The redundant third variable never disagrees with the two indices.
WriteFollowsRead == write = Slot(count)
RingInv == TypeOK /\ WriteFollowsRead

\* The index arithmetic of push and pop: stepping an index that is k places after
\* another gives the place k + 1, and the places of two distances differ.
LEMMA StepAdvances ==
  ASSUME read \in Index, NEW k \in 0 .. FIFO_SIZE - 1
  PROVE  Step(Slot(k)) = Slot(k + 1) /\ Slot(k) \in Index
  BY SizeAssumption DEF Index, Step, Slot

LEMMA SlotsDiffer ==
  ASSUME read \in Index, NEW j \in 0 .. FIFO_SIZE - 1, NEW k \in 0 .. FIFO_SIZE - 1, j # k
  PROVE  Slot(j) # Slot(k)
  BY SizeAssumption DEF Index, Slot

LEMMA RingInvPreserved == RingInv /\ [Next]_vars => RingInv'
<1> SUFFICES ASSUME RingInv, [Next]_vars PROVE RingInv'
  OBVIOUS
<1> USE SizeAssumption, ByteAssumption DEF RingInv, TypeOK, WriteFollowsRead, Index, Slot
<1>1. ASSUME NEW c \in Byte, Push(c) PROVE RingInv'
  <2>1. CASE HasSpace
    <3>1. buffer' \in [Index -> Byte]
      BY <1>1, <2>1 DEF Push
    <3>2. write' \in Index /\ read' \in Index /\ count' \in 0 .. FIFO_SIZE
      BY <1>1, <2>1 DEF Push, HasSpace, Step
    <3>3. write' = Slot(count)'
      BY <1>1, <2>1 DEF Push, HasSpace, Step
    <3>4. result' \in [op : {"new", "push", "pop", "flush", "getCount", "getSpace"}, ret : Int]
      BY <1>1, <2>1 DEF Push
    <3> QED BY <3>1, <3>2, <3>3, <3>4
  <2>2. CASE ~HasSpace
    BY <1>1, <2>2 DEF Push
  <2> QED BY <2>1, <2>2
<1>2. CASE Pop
  <2>1. CASE count > 0
    <3>1. buffer[read] \in Nat
      BY <2>1
    <3>2. /\ result' = [op |-> "pop", ret |-> buffer[read]] /\ buffer' = buffer
          /\ read' = Step(read) /\ count' = count - 1 /\ write' = write
      BY <1>2, <2>1 DEF Pop
    <3>3. result' \in [op : {"new", "push", "pop", "flush", "getCount", "getSpace"}, ret : Int]
      BY <3>1, <3>2
    <3>4. write' \in Index /\ read' \in Index /\ count' \in 0 .. FIFO_SIZE
      BY <3>2, <2>1 DEF Step
    <3>5. write' = Slot(count)'
      BY <3>2, <2>1 DEF Step
    <3> QED BY <3>2, <3>3, <3>4, <3>5
  <2>2. CASE count = 0
    BY <1>2, <2>2 DEF Pop
  <2> QED BY <2>1, <2>2
<1>3. CASE Flush
  BY <1>3 DEF Flush
<1>4. CASE GetCount
  BY <1>4 DEF GetCount
<1>5. CASE GetSpace
  BY <1>5 DEF GetSpace
<1>6. CASE UNCHANGED vars
  BY <1>6 DEF vars
<1> QED BY <1>1, <1>2, <1>3, <1>4, <1>5, <1>6 DEF Next

\* Slay2Fifo keeps its indices in the array and write exactly count places after read,
\* whatever mix of push, pop and flush ran, for every size.
THEOREM RingInvariant == Spec => [](TypeOK /\ WriteFollowsRead)
<1>1. Init => RingInv
  BY SizeAssumption DEF Init, RingInv, TypeOK, WriteFollowsRead, Slot, Index
<1> QED BY <1>1, RingInvPreserved, PTL DEF Spec, RingInv

\* TypeOK of Slay2Fifo: indices and count stay in range and every cell holds a byte.
THEOREM RingTypeOK == Spec => []TypeOK
BY RingInvariant, PTL

-----------------------------------------------------------------------------
\* What the calls do to Contents.

LEMMA RingContentsType ==
  ASSUME RingInv
  PROVE  Contents \in Seq(Byte) /\ Len(Contents) = count /\ DOMAIN Contents = 1 .. count
BY SizeAssumption DEF RingInv, TypeOK, Contents, Slot, Index

LEMMA PlaceInIndex ==
  ASSUME NEW r \in Index, NEW k \in 0 .. FIFO_SIZE - 1
  PROVE  (IF r + k < FIFO_SIZE THEN r + k ELSE r + k - FIFO_SIZE) \in Index
BY SizeAssumption DEF Index

LEMMA RingContentsTypeNext ==
  ASSUME RingInv'
  PROVE  Contents' \in Seq(Byte) /\ Len(Contents') = count'
<1>1. count' \in Nat /\ count' <= FIFO_SIZE /\ buffer' \in [Index -> Byte] /\ read' \in Index
  BY SizeAssumption DEF RingInv, TypeOK
<1> DEFINE Cell(i) == IF read' + (i - 1) < FIFO_SIZE THEN read' + (i - 1)
                       ELSE read' + (i - 1) - FIFO_SIZE
<1>2. Contents' = [i \in 1 .. count' |-> buffer'[Cell(i)]]
  BY DEF Contents, Slot
<1>3. ASSUME NEW i \in 1 .. count' PROVE Cell(i) \in Index
  BY <1>1, SizeAssumption, PlaceInIndex
<1>4. \A i \in 1 .. count' : buffer'[Cell(i)] \in Byte
  BY <1>1, <1>3
<1> QED BY <1>1, <1>2, <1>4

\* A push adds its byte behind everything stored: it never writes a stored slot.
LEMMA PushAppends ==
  ASSUME RingInv, RingInv', NEW c \in Byte, Push(c), count < FIFO_SIZE
  PROVE  Contents' = Append(Contents, c)
<1>0. /\ count \in Nat /\ count' = count + 1 /\ read' = read /\ count < FIFO_SIZE
      /\ buffer' = [buffer EXCEPT ![write] = c] /\ read \in Index /\ write = Slot(count)
      /\ buffer \in [Index -> Byte]
  BY SizeAssumption DEF RingInv, TypeOK, WriteFollowsRead, Push, HasSpace
<1>1. Contents' = [i \in 1 .. count + 1 |-> buffer'[Slot(i - 1)]]
  BY <1>0 DEF Contents, Slot
<1>2. ASSUME NEW i \in 1 .. count PROVE Contents'[i] = Contents[i]
  <2>1. i - 1 \in 0 .. FIFO_SIZE - 1 /\ count \in 0 .. FIFO_SIZE - 1 /\ i - 1 # count
    BY <1>0, SizeAssumption
  <2>2. Slot(i - 1) # Slot(count)
    BY <2>1, <1>0, SlotsDiffer
  <2>3. buffer'[Slot(i - 1)] = buffer[Slot(i - 1)]
    BY <2>2, <1>0
  <2> QED BY <2>3, <1>1, <1>0 DEF Contents
<1>3. Contents'[count + 1] = c
  <2>1. Slot(count) \in Index
    BY <1>0, StepAdvances, SizeAssumption
  <2>2. count + 1 - 1 = count
    BY <1>0
  <2> QED BY <2>1, <2>2, <1>0, <1>1
<1>4. Contents \in Seq(Byte) /\ Contents' \in Seq(Byte) /\ Len(Contents) = count /\ Len(Contents') = count + 1
  BY RingContentsType, RingContentsTypeNext, <1>0
<1>5. /\ Append(Contents, c) \in Seq(Byte) /\ Len(Append(Contents, c)) = count + 1
      /\ \A i \in 1 .. count : Append(Contents, c)[i] = Contents[i]
      /\ Append(Contents, c)[count + 1] = c
  BY <1>4, AppendProperties
<1>6. \A i \in 1 .. count + 1 : Contents'[i] = Append(Contents, c)[i]
  BY <1>0, <1>2, <1>3, <1>5
<1> QED BY <1>4, <1>5, <1>6, SeqEqual

\* A pop removes the oldest byte and returns it.
LEMMA PopTakesHead ==
  ASSUME RingInv, RingInv', Pop, count > 0
  PROVE  Contents' = Tail(Contents) /\ result' = [op |-> "pop", ret |-> Head(Contents)]
<1>0. /\ count \in Nat /\ count > 0 /\ count <= FIFO_SIZE /\ count' = count - 1
      /\ read' = Step(read) /\ buffer' = buffer /\ read \in Index
      /\ result' = [op |-> "pop", ret |-> buffer[read]]
  BY SizeAssumption DEF RingInv, TypeOK, Pop
<1>1. /\ Contents \in Seq(Byte) /\ Contents' \in Seq(Byte)
      /\ Len(Contents) = count /\ Len(Contents') = count - 1 /\ Contents # <<>>
  BY RingContentsType, RingContentsTypeNext, <1>0
<1>2. Contents[1] = buffer[read]
  BY <1>0, SizeAssumption DEF Contents, Slot, Index
<1>3. Head(Contents) = buffer[read]
  BY <1>1, <1>2, <1>0
<1>4. ASSUME NEW i \in 1 .. count - 1 PROVE Contents'[i] = Contents[i + 1]
  BY <1>0, SizeAssumption DEF Contents, Slot, Step, Index
<1>5. /\ Tail(Contents) \in Seq(Byte) /\ Len(Tail(Contents)) = count - 1
      /\ \A i \in 1 .. count - 1 : Tail(Contents)[i] = Contents[i + 1]
  BY <1>1, HeadTailProperties
<1>6. Contents' = Tail(Contents)
  BY <1>1, <1>4, <1>5, SeqEqual
<1> QED BY <1>0, <1>3, <1>6

\* For every size, the ring buffer implements the bounded queue: what it returns
\* and refuses is what a queue of FIFO_SIZE bytes returns and refuses.
THEOREM RingImplementsQueue == Spec => ImplementsQueue
<1>1. Init => Queue!Init
  BY DEF Init, Queue!Init, Contents
<1>2. RingInv /\ RingInv' /\ [Next]_vars => [Queue!Next]_(Queue!vars)
  <2> SUFFICES ASSUME RingInv, RingInv', [Next]_vars PROVE [Queue!Next]_(Queue!vars)
    OBVIOUS
  <2>0. count \in 0 .. FIFO_SIZE /\ Len(Contents) = count /\ Contents \in Seq(Byte)
    BY RingContentsType DEF RingInv, TypeOK
  <2>e. count = 0 <=> Contents = <<>>
    BY <2>0, EmptySeq
  <2>s. (count' = count /\ read' = read /\ buffer' = buffer) => Contents' = Contents
    BY DEF Contents, Slot
  <2>1. ASSUME NEW c \in Byte, Push(c) PROVE Queue!Push(c)
    <3>1. CASE count < FIFO_SIZE
      BY <3>1, <2>0, <2>1, PushAppends DEF Push, HasSpace, Queue!Push
    <3>2. CASE ~(count < FIFO_SIZE)
      BY <3>2, <2>0, <2>s, <2>1, SizeAssumption DEF Push, HasSpace, Queue!Push
    <3> QED BY <3>1, <3>2
  <2>2. CASE Pop
    <3>1. CASE count > 0
      BY <3>1, <2>0, <2>e, <2>2, PopTakesHead DEF Queue!Pop, Queue!Next
    <3>2. CASE count = 0
      BY <3>2, <2>0, <2>e, <2>s, <2>2 DEF Pop, Queue!Pop, Queue!Next
    <3> QED BY <3>1, <3>2, <2>0
  <2>3. CASE Flush
    <3>1. Len(Contents') = 0 /\ Contents' \in Seq(Byte)
      BY <2>3, RingContentsTypeNext DEF Flush
    <3> QED BY <3>1, <2>3, EmptySeq DEF Flush, Queue!Flush, Queue!Next
  <2>4. CASE GetCount
    BY <2>0, <2>s, <2>4 DEF GetCount, Queue!GetCount, Queue!Next
  <2>5. CASE GetSpace
    BY <2>0, <2>s, <2>5 DEF GetSpace, Queue!GetSpace, Queue!Next
  <2>6. CASE UNCHANGED vars
    BY <2>6, <2>s DEF vars, Queue!vars
  <2> QED BY <2>1, <2>2, <2>3, <2>4, <2>5, <2>6 DEF Next, Queue!Next
<1> QED BY <1>1, <1>2, RingInvariant, PTL DEF Spec, ImplementsQueue, Queue!Spec, RingInv

-----------------------------------------------------------------------------
\* The linear buffer.

USE DEF linData

\* Types, the place of the zero and the return of the space are kept together.
LinearInv == LinearTypeOK /\ Terminated /\ EmptyMeansRoom

LEMMA BlockType ==
  ASSUME NEW block \in Block
  PROVE  /\ block \in Seq(Value) /\ Len(block) \in Nat
         /\ \A i \in 1 .. Len(block) : block[i] \in Value
BY BlockAssumption

LEMMA LinearContentsType ==
  ASSUME LinearInv
  PROVE  /\ LinearContents \in Seq(Value) /\ Len(LinearContents) = linCount
         /\ \A i \in 1 .. linCount : LinearContents[i] = linBuffer[linRead + i - 1]
BY LinearSizeAssumption DEF LinearInv, LinearTypeOK, Terminated, LinearContents, Place

LEMMA FillType ==
  ASSUME LinearInv, NEW block \in Block, Len(block) <= Free
  PROVE  /\ Fill(block) \in [Place -> Value] /\ Fill(block)[linWrite + Len(block)] = 0
         /\ \A i \in 0 .. linWrite - 1 : Fill(block)[i] = linBuffer[i]
         /\ \A i \in 1 .. Len(block) : Fill(block)[linWrite + i - 1] = block[i]
<1> DEFINE n == Len(block)
<1>1. /\ n \in Nat /\ linWrite \in 0 .. N /\ n <= N - linWrite /\ N \in Nat
      /\ linBuffer \in [0 .. N -> Value] /\ 0 \in Value /\ \A i \in 1 .. n : block[i] \in Value
  BY BlockType, LinearSizeAssumption, ValueAssumption DEF LinearInv, LinearTypeOK, Place, Free
<1>2. Fill(block) = [i \in 0 .. N |-> IF i \in linWrite .. linWrite + n - 1 THEN block[i - linWrite + 1]
                                      ELSE IF i = linWrite + n THEN 0 ELSE linBuffer[i]]
  BY DEF Fill, Place
<1> HIDE DEF n
<1>3. ASSUME NEW i \in 0 .. N PROVE Fill(block)[i] \in Value
  <2>1. CASE i \in linWrite .. linWrite + n - 1
    BY <2>1, <1>1, <1>2
  <2>2. CASE i \notin linWrite .. linWrite + n - 1
    BY <2>2, <1>1, <1>2
  <2> QED BY <2>1, <2>2
<1>4. Fill(block) \in [Place -> Value]
  BY <1>2, <1>3 DEF Place
<1>5. Fill(block)[linWrite + n] = 0
  BY <1>1, <1>2
<1>6. \A i \in 0 .. linWrite - 1 : Fill(block)[i] = linBuffer[i]
  BY <1>1, <1>2
<1>7. \A i \in 1 .. n : Fill(block)[linWrite + i - 1] = block[i]
  BY <1>1, <1>2
<1> QED BY <1>4, <1>5, <1>6, <1>7 DEF n

LEMMA LinearInvPreserved == LinearInv /\ [LinearNext]_linVars => LinearInv'
<1> SUFFICES ASSUME LinearInv, [LinearNext]_linVars PROVE LinearInv'
  OBVIOUS
<1>0. /\ N \in Nat /\ 0 \in Value /\ linBuffer \in [0 .. N -> Value]
      /\ linRead \in 0 .. N /\ linWrite \in 0 .. N /\ linCount \in 0 .. N
      /\ linWrite = linRead + linCount /\ linBuffer[linWrite] = 0 /\ (linCount = 0 => linWrite = 0)
      /\ linResult \in [op : {"new", "push", "top", "pop", "flush", "getCount", "getSpace"},
                     ret : Nat, shown : Seq(Value)]
  BY LinearSizeAssumption, ValueAssumption DEF LinearInv, LinearTypeOK, Terminated, EmptyMeansRoom, Place, Free
<1>s. ASSUME UNCHANGED linData,
             linResult' \in [op : {"new", "push", "top", "pop", "flush", "getCount", "getSpace"},
                          ret : Nat, shown : Seq(Value)]
      PROVE  LinearInv'
  BY <1>0, <1>s DEF LinearInv, LinearTypeOK, Terminated, EmptyMeansRoom, Place, Free
<1>e. <<>> \in Seq(Value)
  OBVIOUS
<1>c. ASSUME Clear, NEW op \in {"pop", "flush"}, NEW ret \in Nat, Answer(op, ret, <<>>) PROVE LinearInv'
  BY <1>0, <1>c, <1>e DEF Clear, Answer, LinearInv, LinearTypeOK, Terminated, EmptyMeansRoom, Place, Free
<1>1. ASSUME NEW block \in Block, LinearPush(block) PROVE LinearInv'
  <2>1. CASE Len(block) <= Free
    <3>1. /\ linBuffer' = Fill(block) /\ linCount' = linCount + Len(block)
          /\ linWrite' = linWrite + Len(block) /\ linRead' = linRead /\ Answer("push", 1, <<>>)
      BY <1>1, <2>1, <1>0, BlockType DEF LinearPush, Free
    <3>2. linBuffer' \in [Place -> Value] /\ linBuffer'[linWrite'] = 0
      BY <3>1, <2>1, FillType
    <3>3. Len(block) \in Nat /\ Len(block) <= N - linWrite
      BY <2>1, BlockType DEF Free
    <3>4. /\ linRead' \in 0 .. N /\ linWrite' \in 0 .. N /\ linCount' \in 0 .. N
          /\ linWrite' = linRead' + linCount' /\ (linCount' = 0 => linWrite' = 0)
      BY <3>1, <3>3, <1>0
    <3>5. linResult' \in [op : {"new", "push", "top", "pop", "flush", "getCount", "getSpace"},
                       ret : Nat, shown : Seq(Value)]
      BY <3>1, <1>e DEF Answer
    <3> QED BY <3>2, <3>4, <3>5, <1>0 DEF LinearInv, LinearTypeOK, Terminated, EmptyMeansRoom, Place, Free
  <2>2. CASE ~(Len(block) <= Free)
    <3>1. ~(Len(block) <= Free) /\ UNCHANGED linData /\ Answer("push", 0, <<>>)
      BY <1>1, <2>2 DEF LinearPush
    <3>2. linResult' \in [op : {"new", "push", "top", "pop", "flush", "getCount", "getSpace"},
                       ret : Nat, shown : Seq(Value)]
      BY <3>1, <1>e DEF Answer
    <3> QED BY <3>1, <3>2, <1>s
  <2> QED BY <2>1, <2>2
<1>2. ASSUME NEW n \in 0 .. N + 1, LinearPop(n) PROVE LinearInv'
  <2>1. CASE n = linCount
    BY <1>2, <2>1, <1>0, <1>c DEF LinearPop
  <2>2. CASE n < linCount
    <3>1. /\ linRead' = linRead + n /\ linCount' = linCount - n /\ linBuffer' = linBuffer /\ linWrite' = linWrite
          /\ Answer("pop", 1, <<>>) /\ n \in Nat
      BY <1>2, <2>2, <1>0 DEF LinearPop
    <3>2. linResult' \in [op : {"new", "push", "top", "pop", "flush", "getCount", "getSpace"},
                       ret : Nat, shown : Seq(Value)]
      BY <3>1, <1>e DEF Answer
    <3>3. /\ linRead' \in 0 .. N /\ linWrite' \in 0 .. N /\ linCount' \in 0 .. N
          /\ linWrite' = linRead' + linCount' /\ linCount' # 0 /\ linBuffer'[linWrite'] = 0
      BY <3>1, <2>2, <1>0
    <3> QED BY <3>1, <3>2, <3>3, <1>0 DEF LinearInv, LinearTypeOK, Terminated, EmptyMeansRoom, Place, Free
  <2>3. CASE n > linCount
    <3>1. UNCHANGED linData /\ Answer("pop", 0, <<>>)
      BY <1>2, <2>3, <1>0 DEF LinearPop
    <3>2. linResult' \in [op : {"new", "push", "top", "pop", "flush", "getCount", "getSpace"},
                       ret : Nat, shown : Seq(Value)]
      BY <3>1, <1>e DEF Answer
    <3> QED BY <3>1, <3>2, <1>s
  <2> QED BY <2>1, <2>2, <2>3, <1>0
<1>3. CASE LinearTop
  BY <1>3, <1>s, <1>0, LinearContentsType DEF LinearTop, Answer
<1>4. CASE LinearFlush
  BY <1>4, <1>c DEF LinearFlush
<1>5. CASE LinearGetCount
  BY <1>5, <1>s, <1>0, <1>e DEF LinearGetCount, Answer
<1>6. CASE LinearGetSpace
  BY <1>6, <1>s, <1>0, <1>e DEF LinearGetSpace, Answer, Free
<1>7. CASE UNCHANGED linVars
  BY <1>7, <1>s, <1>0 DEF linVars
<1> QED BY <1>1, <1>2, <1>3, <1>4, <1>5, <1>6, <1>7 DEF LinearNext, Add

\* For every size the three numbers agree, the zero is behind the data and inside the
\* buffer, and an empty buffer has all of its space.
THEOREM LinearInvariant == LinearSpec => [](LinearTypeOK /\ Terminated /\ EmptyMeansRoom)
<1>1. LinearInit => LinearInv
  BY LinearSizeAssumption, ValueAssumption
     DEF LinearInit, LinearInv, LinearTypeOK, Terminated, EmptyMeansRoom, Place, Free
<1> QED BY <1>1, LinearInvPreserved, PTL DEF LinearSpec, LinearInv

\* Pushing neither moves nor overwrites what top() has shown.
THEOREM ShownDataStays == LinearSpec => DataStaysInPlace
<1>1. LinearInv /\ [LinearNext]_linVars =>
        [linCount' >= linCount /\ linResult'.op = "push" =>
           linRead' = linRead /\ \A i \in linRead .. linWrite - 1 : linBuffer'[i] = linBuffer[i]]_linVars
  <2> SUFFICES ASSUME LinearInv, LinearNext, linCount' >= linCount, linResult'.op = "push"
               PROVE  linRead' = linRead /\ \A i \in linRead .. linWrite - 1 : linBuffer'[i] = linBuffer[i]
    BY DEF linVars
  <2>1. PICK block \in Block : LinearPush(block)
    BY DEF LinearNext, Add, LinearPop, LinearTop, LinearFlush, LinearGetCount, LinearGetSpace, Answer
  <2>2. CASE Len(block) <= Free
    <3>1. \A i \in 0 .. linWrite - 1 : Fill(block)[i] = linBuffer[i]
      BY <2>2, FillType
    <3>2. linRead \in Nat /\ linWrite \in Nat
      BY LinearSizeAssumption DEF LinearInv, LinearTypeOK, Place
    <3>3. Len(block) \in Int /\ Free \in Int
      BY <3>2, BlockType, LinearSizeAssumption DEF Free
    <3>4. linBuffer' = Fill(block) /\ linRead' = linRead
      BY <2>1, <2>2, <3>3 DEF LinearPush
    <3> QED BY <3>1, <3>2, <3>4
  <2>3. CASE ~(Len(block) <= Free)
    BY <2>1, <2>3 DEF LinearPush
  <2> QED BY <2>2, <2>3
<1> QED BY <1>1, LinearInvariant, PTL DEF LinearSpec, DataStaysInPlace, LinearInv

-----------------------------------------------------------------------------
\* What the calls do to Contents.

LEMMA PushConcatenates ==
  ASSUME LinearInv, LinearInv', NEW block \in Block, LinearPush(block), Len(block) <= Free
  PROVE  LinearContents' = LinearContents \o block
<1> DEFINE n == Len(block)
<1>0. /\ linCount \in Nat /\ linRead \in Nat /\ linWrite = linRead + linCount /\ n \in Nat
      /\ block \in Seq(Value)
  BY LinearSizeAssumption, BlockType DEF LinearInv, LinearTypeOK, Terminated, Place
<1>1. linBuffer' = Fill(block) /\ linRead' = linRead /\ linCount' = linCount + n
  <2>1. Free \in Int
    BY LinearSizeAssumption DEF LinearInv, LinearTypeOK, Place, Free
  <2> QED BY <2>1, <1>0 DEF LinearPush
<1>2. /\ \A i \in 0 .. linWrite - 1 : linBuffer'[i] = linBuffer[i]
      /\ \A i \in 1 .. n : linBuffer'[linWrite + i - 1] = block[i]
  BY FillType, <1>1
<1>3. /\ LinearContents \in Seq(Value) /\ Len(LinearContents) = linCount
      /\ \A i \in 1 .. linCount : LinearContents[i] = linBuffer[linRead + i - 1]
  BY LinearContentsType
<1>4. LinearContents' = [i \in 1 .. linCount + n |-> linBuffer'[linRead + i - 1]]
  BY <1>1 DEF LinearContents
<1>5. /\ LinearContents \o block \in Seq(Value) /\ Len(LinearContents \o block) = linCount + n
      /\ \A i \in 1 .. linCount + n :
           (LinearContents \o block)[i] = IF i <= linCount THEN LinearContents[i] ELSE block[i - linCount]
  BY <1>0, <1>3, ConcatProperties
<1> HIDE DEF n
<1>6. ASSUME NEW i \in 1 .. linCount + n PROVE linBuffer'[linRead + i - 1] = (LinearContents \o block)[i]
  <2>1. CASE i <= linCount
    <3>1. linRead + i - 1 \in 0 .. linWrite - 1 /\ i \in 1 .. linCount
      BY <1>0, <2>1
    <3> QED BY <3>1, <2>1, <1>2, <1>3, <1>5
  <2>2. CASE i > linCount
    <3>1. i - linCount \in 1 .. n /\ linRead + i - 1 = linWrite + (i - linCount) - 1 /\ ~(i <= linCount)
      BY <1>0, <2>2
    <3>2. linBuffer'[linWrite + (i - linCount) - 1] = block[i - linCount]
      BY <3>1, <1>2
    <3> QED BY <3>1, <3>2, <1>5
  <2>3. i <= linCount \/ i > linCount
    BY <1>0
  <2> QED BY <2>1, <2>2, <2>3
<1>7. /\ LinearContents' \in Seq(Value) /\ Len(LinearContents') = linCount + n
      /\ \A i \in 1 .. linCount + n : LinearContents'[i] = (LinearContents \o block)[i]
  <2>1. \A i \in 1 .. linCount + n : linBuffer'[linRead + i - 1] \in Value
    <3>1. \A i \in 1 .. linCount + n : (LinearContents \o block)[i] \in Value
      BY <1>5
    <3> QED BY <3>1, <1>6
  <2>2. linCount + n \in Nat
    BY <1>0
  <2>3. LinearContents' \in Seq(Value) /\ Len(LinearContents') = linCount + n
    BY <2>1, <2>2, <1>4
  <2> QED BY <2>3, <1>4, <1>6
<1> QED BY <1>5, <1>7, SeqEqual

LEMMA PopDropsFirst ==
  ASSUME LinearInv, LinearInv', NEW n \in Nat, LinearPop(n), n < linCount
  PROVE  LinearContents' = SubSeq(LinearContents, n + 1, linCount)
<1>0. /\ linCount \in Nat /\ linRead \in Nat /\ LinearContents \in Seq(Value) /\ Len(LinearContents) = linCount
      /\ \A i \in 1 .. linCount : LinearContents[i] = linBuffer[linRead + i - 1]
  BY LinearSizeAssumption, LinearContentsType DEF LinearInv, LinearTypeOK, Place
<1>1. linBuffer' = linBuffer /\ linRead' = linRead + n /\ linCount' = linCount - n
  BY <1>0 DEF LinearPop
<1>2. /\ SubSeq(LinearContents, n + 1, linCount) \in Seq(Value)
      /\ Len(SubSeq(LinearContents, n + 1, linCount)) = linCount - n
      /\ \A i \in 1 .. linCount - n : SubSeq(LinearContents, n + 1, linCount)[i] = LinearContents[n + i]
  BY <1>0
<1>3. LinearContents' = [i \in 1 .. linCount - n |-> linBuffer[linRead + n + i - 1]]
  BY <1>1 DEF LinearContents
<1>4. \A i \in 1 .. linCount - n : linBuffer[linRead + n + i - 1] = LinearContents[n + i]
  BY <1>0
<1>5. /\ LinearContents' \in Seq(Value) /\ Len(LinearContents') = linCount - n
      /\ \A i \in 1 .. linCount - n : LinearContents'[i] = SubSeq(LinearContents, n + 1, linCount)[i]
  <2>1. \A i \in 1 .. linCount - n : LinearContents[n + i] \in Value
    BY <1>0
  <2>2. \A i \in 1 .. linCount - n : linBuffer[linRead + n + i - 1] \in Value
    BY <2>1, <1>4
  <2>3. linCount - n \in Nat
    BY <1>0
  <2>4. LinearContents' \in Seq(Value) /\ Len(LinearContents') = linCount - n
    BY <2>2, <2>3, <1>3
  <2> QED BY <2>4, <1>2, <1>3, <1>4
<1> QED BY <1>2, <1>5, SeqEqual

\* For every size and all blocks, the linear buffer implements the queue of bursts: what
\* it shows, counts and refuses is what that queue shows, counts and refuses.
THEOREM LinearImplementsBursts == LinearSpec => ImplementsBursts
<1>1. LinearInit => Bursts!Init
  BY DEF LinearInit, Bursts!Init, LinearContents
<1>2. LinearInv /\ LinearInv' /\ [LinearNext]_linVars => [Bursts!Next]_(Bursts!vars)
  <2> SUFFICES ASSUME LinearInv, LinearInv', [LinearNext]_linVars PROVE [Bursts!Next]_(Bursts!vars)
    OBVIOUS
  <2>0. /\ LinearContents \in Seq(Value) /\ Len(LinearContents) = linCount /\ linCount \in Nat /\ linRead \in Nat
        /\ N \in Nat /\ linWrite = linRead + linCount
    BY LinearContentsType, LinearSizeAssumption DEF LinearInv, LinearTypeOK, Terminated, Place
  <2>f. Free = Bursts!Space /\ Free \in Int
    BY <2>0 DEF Free, Bursts!Space
  <2>s. (linCount' = linCount /\ linRead' = linRead /\ linBuffer' = linBuffer) => LinearContents' = LinearContents
    BY DEF LinearContents
  <2>a. ASSUME NEW op, NEW ret, NEW shown, Answer(op, ret, shown) PROVE Bursts!Answer(op, ret, shown)
    BY <2>a DEF Answer, Bursts!Answer
  <2>c. Clear => LinearContents' = <<>> /\ linRead' = 0
    BY DEF Clear, LinearContents
  <2>1. ASSUME NEW block \in Block, LinearPush(block) PROVE Bursts!Push(block)
    <3>1. Len(block) \in Nat
      BY BlockType
    <3>2. CASE Len(block) <= Free
      <4>1. LinearContents' = LinearContents \o block /\ linRead' = linRead /\ Answer("push", 1, <<>>)
        BY <2>1, <3>1, <3>2, <2>f, PushConcatenates DEF LinearPush
      <4> QED BY <4>1, <3>2, <2>f, <2>a DEF Bursts!Push
    <3>3. CASE Len(block) > Free
      BY <2>1, <3>1, <3>3, <2>f, <2>a, <2>s DEF LinearPush, Bursts!Push
    <3> QED BY <3>1, <3>2, <3>3, <2>f
  <2>2. ASSUME NEW n \in 0 .. N + 1, LinearPop(n) PROVE Bursts!Pop(n)
    <3>0. n \in Nat
      BY <2>0
    <3>1. CASE n = linCount
      BY <2>2, <3>1, <2>0, <2>a, <2>c DEF LinearPop, Bursts!Pop
    <3>2. CASE n < linCount
      <4>1. LinearContents' = SubSeq(LinearContents, n + 1, linCount)
        BY <2>2, <3>0, <3>2, PopDropsFirst
      <4>2. linRead' = linRead + n /\ Answer("pop", 1, <<>>)
        BY <2>2, <3>0, <3>2, <2>0 DEF LinearPop
      <4> QED BY <4>1, <4>2, <3>2, <2>0, <2>a DEF Bursts!Pop
    <3>3. CASE n > linCount
      BY <2>2, <3>0, <3>3, <2>0, <2>a, <2>s DEF LinearPop, Bursts!Pop
    <3> QED BY <3>0, <3>1, <3>2, <3>3, <2>0
  <2>3. CASE LinearTop
    BY <2>3, <2>0, <2>a, <2>s DEF LinearTop, Bursts!Top, Bursts!Next
  <2>4. CASE LinearFlush
    BY <2>4, <2>a, <2>c DEF LinearFlush, Bursts!Flush, Bursts!Next
  <2>5. CASE LinearGetCount
    BY <2>5, <2>0, <2>a, <2>s DEF LinearGetCount, Bursts!GetCount, Bursts!Next
  <2>6. CASE LinearGetSpace
    BY <2>6, <2>f, <2>a, <2>s DEF LinearGetSpace, Bursts!GetSpace, Bursts!Next
  <2>7. CASE UNCHANGED linVars
    BY <2>7, <2>s DEF linVars, Bursts!vars
  <2> QED BY <2>1, <2>2, <2>3, <2>4, <2>5, <2>6, <2>7 DEF LinearNext, Add, Bursts!Next
<1> QED BY <1>1, <1>2, LinearInvariant, PTL DEF LinearSpec, ImplementsBursts, Bursts!Spec, LinearInv
=============================================================================
