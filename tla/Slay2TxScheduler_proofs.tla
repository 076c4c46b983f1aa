---------------------- MODULE Slay2TxScheduler_proofs ----------------------
(***************************************************************************)
(* The pending frames and the ACKs of Slay2TxScheduler, for every depth of *)
(* at least 3, every size of sequence numbers, frames and clock.           *)
(***************************************************************************)
EXTENDS Slay2TxScheduler, TxQueues_proofs

\* What the data slots need of each other: a pending slot holds a frame only because
\* no other slot shares its buffer.
WindowInv == TypeOK /\ DataSlotsDistinct /\ PendingSeqWindow

LEMMA Constants ==
  /\ DEPTH \in Nat /\ DEPTH >= 3 /\ SEQ_MOD \in Nat \ {0} /\ UINT_MOD \in Nat \ {0}
  /\ FRAME_PAYLOAD \in Nat \ {0} /\ TxRoom \in Nat /\ 0 \in Slot /\ 0 \in SeqNr
BY DepthAssumption, SeqAssumption, PayloadAssumption, TimeAssumption, LoadAssumption
   DEF Slot, SeqNr

LEMMA UintOfInt ==
  ASSUME NEW n \in Int
  PROVE  n % UINT_MOD \in Uint
<1>1. n % UINT_MOD \in 0 .. UINT_MOD - 1
  BY Constants, Division
<1> QED BY <1>1 DEF Uint

\* The frame composed from a channel that is ready has at least one byte.
LEMMA ComposedFrame ==
  ASSUME NEW n \in Nat, NEW more \in BOOLEAN, Ready(n, more), NEW seq \in SeqNr, NEW ch \in Channel
  PROVE  /\ Least(n, FRAME_PAYLOAD) \in 1 .. FRAME_PAYLOAD
         /\ n - Least(n, FRAME_PAYLOAD) \in 0 .. n
         /\ DataFrame(seq, ch, Least(n, FRAME_PAYLOAD)) \in DataFrames
         /\ DataFrame(seq, ch, Least(n, FRAME_PAYLOAD)) # Blank
         /\ DataFrame(seq, ch, Least(n, FRAME_PAYLOAD)).seq = seq
<1>1. Least(n, FRAME_PAYLOAD) \in 1 .. FRAME_PAYLOAD /\ n - Least(n, FRAME_PAYLOAD) \in 0 .. n
  BY Constants DEF Least, Ready
<1>2. "data" # "blank"
  OBVIOUS
<1> QED BY <1>1, <1>2 DEF DataFrame, DataFrames, Blank

LEMMA DataFrameFields ==
  ASSUME NEW f \in DataFrames
  PROVE  f.seq \in SeqNr /\ f # Blank
<1>1. f.kind = "data" /\ f.seq \in SeqNr
  BY DEF DataFrames
<1>2. Blank.kind = "blank"
  BY DEF Blank
<1> QED BY <1>1, <1>2

\* Rotating the slots keeps a list of different buffers different.
LEMMA RotateDistinct ==
  ASSUME NEW f \in [Slot -> Slot], \A i, j \in Slot : f[i] = f[j] => i = j
  PROVE  /\ Rotate(f) \in [Slot -> Slot]
         /\ \A i, j \in Slot : Rotate(f)[i] = Rotate(f)[j] => i = j
  BY Constants DEF Rotate, Slot

LEMMA ShiftDownType ==
  ASSUME NEW S, NEW f \in [Slot -> S]
  PROVE  ShiftDown(f) \in [Slot -> S]
<1>1. \A i \in Slot : i < DEPTH - 1 => i + 1 \in Slot
  BY Constants DEF Slot
<1> QED BY <1>1 DEF ShiftDown

LEMMA WindowInit == Init => WindowInv
<1> SUFFICES ASSUME Init PROVE WindowInv
  OBVIOUS
<1> USE Constants
<1>1. /\ dataBuffer \in [Slot -> DataFrames \cup {Blank}]
      /\ dataFifo \in [Slot -> Slot] /\ ackFifo \in [Slot -> Slot] /\ ackBuffer \in [Slot -> SeqNr]
  BY DEF Init
<1>2. dataFifoTimeout \in [Slot -> [at : Uint, limit : Limit \cup {0}]]
  BY DEF Init, Uint
<1>3. /\ dataFifoCount \in 0 .. DEPTH /\ ackFifoCount \in 0 .. DEPTH /\ nackCount \in Uint
      /\ txSeqNr \in SeqNr /\ clock \in Uint
  BY DEF Init, Uint
<1>4. txCount \in [Channel -> 0 .. TxRoom] /\ txMore \in [Channel -> BOOLEAN]
  BY DEF Init
<1>5. sent \in DataFrames \cup [kind : {"ack"}, seq : SeqNr] \cup {Nothing}
  BY DEF Init
<1>6. age \in [Slot -> 0 .. UINT_MOD] /\ again \subseteq Slot
      /\ owed \in Seq(SeqNr) /\ Len(owed) = ackFifoCount
  BY EmptySeq DEF Init
<1>7. DataSlotsDistinct /\ PendingSeqWindow
  BY DEF Init, DataSlotsDistinct, PendingSeqWindow
<1> QED BY <1>1, <1>2, <1>3, <1>4, <1>5, <1>6, <1>7 DEF WindowInv, TypeOK

LEMMA WindowStep == WindowInv /\ [Next]_vars => WindowInv'
<1> SUFFICES ASSUME WindowInv, [Next]_vars PROVE WindowInv'
  OBVIOUS
<1> USE Constants
<1>t. TypeOK /\ DataSlotsDistinct /\ PendingSeqWindow
  BY DEF WindowInv
<1>f. \A i \in 0 .. dataFifoCount - 1 :
        /\ i \in Slot /\ dataFifo[i] \in Slot /\ dataBuffer[dataFifo[i]] \in DataFrames
        /\ (dataBuffer[dataFifo[i]].seq + dataFifoCount - i) % SEQ_MOD = txSeqNr
  <2> SUFFICES ASSUME NEW i \in 0 .. dataFifoCount - 1
               PROVE  /\ i \in Slot /\ dataFifo[i] \in Slot /\ dataBuffer[dataFifo[i]] \in DataFrames
                      /\ (dataBuffer[dataFifo[i]].seq + dataFifoCount - i) % SEQ_MOD = txSeqNr
    OBVIOUS
  <2>1. i \in Slot
    BY <1>t DEF TypeOK, Slot
  <2>2. dataFifo[i] \in Slot /\ dataBuffer[dataFifo[i]] \in DataFrames \cup {Blank}
    BY <1>t, <2>1 DEF TypeOK
  <2>3. /\ dataBuffer[dataFifo[i]] # Blank
        /\ (dataBuffer[dataFifo[i]].seq + dataFifoCount - i) % SEQ_MOD = txSeqNr
    BY <1>t DEF PendingSeqWindow
  <2> QED BY <2>1, <2>2, <2>3
<1>1. CASE Reset
  <2>1. TypeOK'
    BY <1>1, <1>t, EmptySeq DEF Reset, TypeOK, channelVars, Uint
  <2>2. DataSlotsDistinct' /\ PendingSeqWindow'
    BY <1>1, <1>t DEF Reset, DataSlotsDistinct, PendingSeqWindow
  <2> QED BY <2>1, <2>2 DEF WindowInv
<1>2. CASE GetNextXferAck
  <2>1. sent' \in [kind : {"ack"}, seq : SeqNr]
    BY <1>2, <1>t DEF GetNextXferAck, TypeOK, AckFrame
  <2>a. ackFifo' = ShiftDown(ackFifo) /\ ackFifo \in [Slot -> Slot]
    BY <1>2, <1>t DEF GetNextXferAck, TypeOK
  <2>b. ackFifo' \in [Slot -> Slot]
    BY <2>a, ShiftDownType
  <2>c. ackFifoCount' \in 0 .. DEPTH
    BY <1>2, <1>t DEF GetNextXferAck, TypeOK
  <2>2. ackFifo' \in [Slot -> Slot] /\ ackFifoCount' \in 0 .. DEPTH
    BY <2>b, <2>c
  <2>3. owed' \in Seq(SeqNr) /\ Len(owed') = ackFifoCount'
    BY <1>2, <1>t, HeadTailProperties, EmptySeq DEF GetNextXferAck, TypeOK
  <2>4. TypeOK'
    BY <1>2, <1>t, <2>1, <2>2, <2>3 DEF GetNextXferAck, TypeOK, dataVars, channelVars
  <2>5. DataSlotsDistinct' /\ PendingSeqWindow'
    BY <1>2, <1>t DEF GetNextXferAck, DataSlotsDistinct, PendingSeqWindow, dataVars
  <2> QED BY <2>4, <2>5 DEF WindowInv
<1>3. CASE GetNextXferRetransmit
  <2>1. sent' \in DataFrames
    BY <1>3, <1>t, <1>f DEF GetNextXferRetransmit, Overdue, TypeOK
  <2>2. dataFifoTimeout' \in [Slot -> [at : Uint, limit : Limit \cup {0}]]
    BY <1>3, <1>t DEF GetNextXferRetransmit, TypeOK, Limit
  <2>3. nackCount' \in Uint
    <3>1. nackCount \in Int /\ nackCount + 1 \in Int
      BY <1>t DEF TypeOK, Uint
    <3> QED BY <1>3, <3>1, UintOfInt DEF GetNextXferRetransmit
  <2>4. age' \in [Slot -> 0 .. UINT_MOD] /\ again' \subseteq Slot
    BY <1>3, <1>t DEF GetNextXferRetransmit, TypeOK
  <2>5. TypeOK'
    BY <1>3, <1>t, <2>1, <2>2, <2>3, <2>4
       DEF GetNextXferRetransmit, TypeOK, ackVars, channelVars
  <2>6. DataSlotsDistinct' /\ PendingSeqWindow'
    BY <1>3, <1>t DEF GetNextXferRetransmit, DataSlotsDistinct, PendingSeqWindow
  <2> QED BY <2>5, <2>6 DEF WindowInv
<1>4. ASSUME NEW ch \in Channel, GetNextXferCompose(ch) PROVE WindowInv'
  <2> DEFINE len == Least(txCount[ch], FRAME_PAYLOAD)
             frame == DataFrame(txSeqNr, ch, len)
             b == dataFifo[dataFifoCount]
  <2>1. /\ len \in 1 .. FRAME_PAYLOAD /\ txCount[ch] - len \in 0 .. TxRoom
        /\ frame \in DataFrames /\ frame # Blank /\ frame.seq = txSeqNr
    <3>1. Ready(txCount[ch], txMore[ch])
      BY <1>4 DEF GetNextXferCompose, IsFirstReady, IsReady
    <3>2. txCount[ch] \in 0 .. TxRoom /\ txMore[ch] \in BOOLEAN /\ txSeqNr \in SeqNr
      BY <1>t DEF TypeOK
    <3> QED BY <3>1, <3>2, ComposedFrame
  <2>2. /\ dataFifoCount \in Slot /\ b \in Slot /\ dataFifoCount' = dataFifoCount + 1
        /\ dataBuffer' = [dataBuffer EXCEPT ![b] = frame] /\ dataFifo' = dataFifo
        /\ txSeqNr' = NextSeq(txSeqNr)
    BY <1>4, <1>t DEF GetNextXferCompose, TypeOK, Slot
  <2>3. FIRST_TIMEOUT + len \div BYTES_PER_MS \in Limit
    BY <2>1 DEF Limit
  <2>4. txCount' \in [Channel -> 0 .. TxRoom]
    BY <1>4, <1>t, <2>1 DEF GetNextXferCompose, TypeOK
  <2>5. dataFifoTimeout' \in [Slot -> [at : Uint, limit : Limit \cup {0}]]
    BY <1>4, <1>t, <2>2, <2>3 DEF GetNextXferCompose, TypeOK
  <2>6. txSeqNr' \in SeqNr
    BY <1>t, <2>2, NextSeqType DEF TypeOK, SeqNr
  <2>7. dataBuffer' \in [Slot -> DataFrames \cup {Blank}] /\ sent' \in DataFrames
    BY <1>4, <1>t, <2>1, <2>2 DEF GetNextXferCompose, TypeOK
  <2>8. /\ age' \in [Slot -> 0 .. UINT_MOD] /\ again' \subseteq Slot
        /\ dataFifoCount' \in 0 .. DEPTH
    <3>1. age' = [age EXCEPT ![b] = 0] /\ again' = again \ {b}
      BY <1>4 DEF GetNextXferCompose
    <3>2. again' \subseteq Slot
      BY <1>t, <3>1 DEF TypeOK
    <3>3. age' \in [Slot -> 0 .. UINT_MOD] /\ dataFifoCount' \in 0 .. DEPTH
      BY <1>t, <2>2, <3>1 DEF TypeOK, Slot
    <3> QED BY <3>2, <3>3
  <2>9. TypeOK'
    BY <1>4, <1>t, <2>4, <2>5, <2>6, <2>7, <2>8 DEF GetNextXferCompose, TypeOK, ackVars
  <2>10. DataSlotsDistinct'
    BY <1>t, <2>2 DEF DataSlotsDistinct
  <2> HIDE DEF len, frame
  <2>11. ASSUME NEW i \in 0 .. dataFifoCount' - 1
         PROVE  /\ dataBuffer'[dataFifo'[i]] # Blank
                /\ (dataBuffer'[dataFifo'[i]].seq + dataFifoCount' - i) % SEQ_MOD = txSeqNr'
    <3>1. CASE i = dataFifoCount
      <4>1. dataBuffer'[dataFifo'[i]] = frame
        BY <1>t, <2>2, <3>1 DEF TypeOK
      <4>2. txSeqNr + (dataFifoCount + 1) - dataFifoCount = txSeqNr + 1
        BY <1>t DEF TypeOK, SeqNr
      <4> QED BY <4>1, <4>2, <2>1, <2>2, <3>1 DEF NextSeq
    <3>2. CASE i # dataFifoCount
      <4>1. i \in 0 .. dataFifoCount - 1
        BY <1>t, <2>2, <3>2 DEF TypeOK
      <4>2. dataBuffer'[dataFifo'[i]] = dataBuffer[dataFifo[i]]
        BY <1>t, <1>f, <2>2, <3>2, <4>1 DEF TypeOK, DataSlotsDistinct
      <4> DEFINE s == dataBuffer[dataFifo[i]].seq
      <4>3. s \in Int /\ dataFifoCount \in Int /\ i \in Int /\ (s + dataFifoCount - i) % SEQ_MOD = txSeqNr
        <5>1. dataBuffer[dataFifo[i]] \in DataFrames /\ (s + dataFifoCount - i) % SEQ_MOD = txSeqNr
          BY <1>f, <4>1
        <5>2. s \in SeqNr
          BY <5>1, DataFrameFields
        <5>3. dataFifoCount \in Int
          BY <1>t DEF TypeOK
        <5> HIDE DEF s
        <5> QED BY <4>1, <5>1, <5>2, <5>3 DEF SeqNr
      <4> HIDE DEF s
      <4>a. SEQ_MOD \in Nat \ {0} /\ s + dataFifoCount - i \in Int
        BY <4>3
      <4>b. ((s + dataFifoCount - i) + 1) % SEQ_MOD
              = (((s + dataFifoCount - i) % SEQ_MOD) + 1) % SEQ_MOD
        BY <4>a, RemainderOfNext
      <4>4. ((s + dataFifoCount - i) + 1) % SEQ_MOD = NextSeq(txSeqNr)
        BY <4>b, <4>3 DEF NextSeq
      <4>5. s + (dataFifoCount + 1) - i = (s + dataFifoCount - i) + 1
        BY <4>3
      <4>6. (s + dataFifoCount' - i) % SEQ_MOD = txSeqNr'
        BY <4>4, <4>5, <2>2
      <4> QED BY <4>1, <4>2, <4>6, <1>f, DataFrameFields DEF s
    <3> QED BY <3>1, <3>2
  <2> QED BY <2>9, <2>10, <2>11 DEF WindowInv, PendingSeqWindow
<1>5. CASE GetNextXferNull
  <2>1. TypeOK'
    BY <1>5, <1>t DEF GetNextXferNull, TypeOK, dataVars, ackVars, channelVars
  <2>2. DataSlotsDistinct' /\ PendingSeqWindow'
    BY <1>5, <1>t DEF GetNextXferNull, DataSlotsDistinct, PendingSeqWindow, dataVars
  <2> QED BY <2>1, <2>2 DEF WindowInv
<1>6. CASE Tick
  <2>1. clock' \in Uint
    <3>1. clock \in Int /\ clock + 1 \in Int
      BY <1>t DEF TypeOK, Uint
    <3> QED BY <1>6, <3>1, UintOfInt DEF Tick
  <2>2. age' \in [Slot -> 0 .. UINT_MOD]
    BY <1>6, <1>t DEF Tick, TypeOK, Least
  <2>3. TypeOK'
    BY <1>6, <1>t, <2>1, <2>2 DEF Tick, TypeOK, ackVars, channelVars
  <2>4. DataSlotsDistinct' /\ PendingSeqWindow'
    BY <1>6, <1>t DEF Tick, DataSlotsDistinct, PendingSeqWindow
  <2> QED BY <2>3, <2>4 DEF WindowInv
<1>7. ASSUME NEW seqNr \in SeqNr, AcknowledgeXfer(seqNr) PROVE WindowInv'
  <2>1. CASE dataFifoCount # 0 /\ dataBuffer[dataFifo[0]].seq = seqNr
    <3>1. /\ dataBuffer' = [dataBuffer EXCEPT ![dataFifo[0]] = Blank]
          /\ dataFifo' = Rotate(dataFifo) /\ dataFifoCount' = dataFifoCount - 1
          /\ dataFifoTimeout' = ShiftTimeouts(dataFifoTimeout) /\ nackCount' = 0
          /\ age' = [age EXCEPT ![dataFifo[0]] = 0] /\ again' = again \ {dataFifo[0]}
          /\ UNCHANGED <<ackVars, channelVars, txSeqNr, clock>> /\ sent' = Nothing
      BY <1>7, <2>1 DEF AcknowledgeXfer
    <3>2. dataFifo' \in [Slot -> Slot] /\ DataSlotsDistinct'
      BY <1>t, <3>1, RotateDistinct DEF TypeOK, DataSlotsDistinct
    <3>3. dataFifoTimeout' \in [Slot -> [at : Uint, limit : Limit \cup {0}]]
      <4>1. ShiftDown(dataFifoTimeout) \in [Slot -> [at : Uint, limit : Limit \cup {0}]]
        BY <1>t, ShiftDownType DEF TypeOK
      <4>2. [at |-> 0, limit |-> 0] \in [at : Uint, limit : Limit \cup {0}]
        BY DEF Uint
      <4> QED BY <3>1, <4>1, <4>2 DEF ShiftTimeouts
    <3>4. /\ dataBuffer' \in [Slot -> DataFrames \cup {Blank}] /\ age' \in [Slot -> 0 .. UINT_MOD]
          /\ again' \subseteq Slot
      BY <1>t, <3>1 DEF TypeOK
    <3>5. dataFifoCount' \in 0 .. DEPTH /\ nackCount' \in Uint
      BY <1>t, <2>1, <3>1 DEF TypeOK, Uint
    <3>6. TypeOK'
      BY <1>t, <3>1, <3>2, <3>3, <3>4, <3>5 DEF TypeOK, ackVars, channelVars
    <3>7. ASSUME NEW i \in 0 .. dataFifoCount' - 1
          PROVE  /\ dataBuffer'[dataFifo'[i]] # Blank
                 /\ (dataBuffer'[dataFifo'[i]].seq + dataFifoCount' - i) % SEQ_MOD = txSeqNr'
      <4>1. i + 1 \in 0 .. dataFifoCount - 1 /\ i \in Slot /\ i < DEPTH - 1 /\ i + 1 \in Slot /\ i \in Nat
        <5>1. dataFifoCount \in 0 .. DEPTH /\ dataFifoCount' = dataFifoCount - 1
          BY <1>t, <3>1 DEF TypeOK
        <5> DEFINE c == dataFifoCount'
        <5>2. dataFifoCount = c + 1 /\ c \in Int /\ i \in 0 .. c - 1
          BY <5>1
        <5> HIDE DEF c
        <5> QED BY <5>1, <5>2 DEF Slot
      <4>2. dataFifo'[i] = dataFifo[i + 1]
        BY <3>1, <4>1 DEF Rotate
      <4>3. dataFifo[i + 1] # dataFifo[0] /\ dataFifo[i + 1] \in Slot
        BY <1>t, <4>1 DEF TypeOK, DataSlotsDistinct
      <4>4. dataBuffer'[dataFifo'[i]] = dataBuffer[dataFifo[i + 1]]
        BY <1>t, <3>1, <4>2, <4>3 DEF TypeOK
      <4> DEFINE s == dataBuffer[dataFifo[i + 1]].seq
      <4>5. s \in Int /\ (s + dataFifoCount - (i + 1)) % SEQ_MOD = txSeqNr
        BY <1>f, <4>1, DataFrameFields DEF SeqNr
      <4> HIDE DEF s
      <4>6. s + dataFifoCount' - i = s + dataFifoCount - (i + 1)
        BY <1>t, <3>1, <4>1, <4>5 DEF TypeOK
      <4>7. (s + dataFifoCount' - i) % SEQ_MOD = txSeqNr'
        BY <4>5, <4>6, <3>1
      <4> QED BY <4>1, <4>4, <4>7, <1>f, DataFrameFields DEF s
    <3> QED BY <3>2, <3>6, <3>7 DEF WindowInv, PendingSeqWindow
  <2>2. CASE ~(dataFifoCount # 0 /\ dataBuffer[dataFifo[0]].seq = seqNr)
    <3>1. UNCHANGED <<dataVars, nackCount, ackVars, channelVars, txSeqNr, clock>> /\ sent' = Nothing
      BY <1>7, <2>2 DEF AcknowledgeXfer
    <3>2. TypeOK'
      BY <1>t, <3>1 DEF TypeOK, dataVars, ackVars, channelVars
    <3>3. DataSlotsDistinct' /\ PendingSeqWindow'
      BY <1>t, <3>1 DEF DataSlotsDistinct, PendingSeqWindow, dataVars
    <3> QED BY <3>2, <3>3 DEF WindowInv
  <2> QED BY <2>1, <2>2
<1>8. ASSUME NEW seqNr \in PeerSeq, ScheduleAck(seqNr) PROVE WindowInv'
  <2>0. seqNr \in SeqNr
    BY PeerAssumption
  <2>1. CASE ackFifoCount < DEPTH
    <3>0. /\ ackBuffer' = [ackBuffer EXCEPT ![ackFifo[ackFifoCount]] = seqNr]
          /\ ackFifoCount' = ackFifoCount + 1 /\ owed' = Append(owed, seqNr)
      BY <1>8, <2>1 DEF ScheduleAck
    <3>a. /\ ackBuffer \in [Slot -> SeqNr] /\ ackFifoCount \in 0 .. DEPTH
          /\ owed \in Seq(SeqNr) /\ Len(owed) = ackFifoCount
      BY <1>t DEF TypeOK
    <3>1. ackBuffer' \in [Slot -> SeqNr] /\ ackFifoCount' \in 0 .. DEPTH
      <4>1. ackBuffer' \in [Slot -> SeqNr]
        BY <2>0, <3>0, <3>a
      <4>2. ackFifoCount' \in 0 .. DEPTH
        BY <2>1, <3>0, <3>a
      <4> QED BY <4>1, <4>2
    <3>2. owed' \in Seq(SeqNr) /\ Len(owed') = ackFifoCount'
      BY <2>0, <3>0, <3>a, AppendProperties
    <3>3. TypeOK'
      BY <1>8, <1>t, <3>1, <3>2 DEF ScheduleAck, TypeOK, dataVars, channelVars
    <3> QED BY <3>3, <1>8, <1>t DEF ScheduleAck, DataSlotsDistinct, PendingSeqWindow, dataVars, WindowInv
  <2>2. CASE ~(ackFifoCount < DEPTH)
    <3>1. TypeOK'
      BY <1>8, <1>t, <2>2 DEF ScheduleAck, TypeOK, dataVars, channelVars
    <3> QED BY <3>1, <1>8, <1>t DEF ScheduleAck, DataSlotsDistinct, PendingSeqWindow, dataVars, WindowInv
  <2> QED BY <2>1, <2>2
<1>9. ASSUME NEW ch \in Channel, NEW n \in LoadSizes, NEW more \in BOOLEAN, Load(ch, n, more)
      PROVE  WindowInv'
  <2>1. txCount' \in [Channel -> 0 .. TxRoom] /\ txMore' \in [Channel -> BOOLEAN]
    BY <1>9, <1>t, LoadAssumption DEF Load, TypeOK
  <2>2. TypeOK'
    BY <1>9, <1>t, <2>1 DEF Load, TypeOK, dataVars, ackVars
  <2> QED BY <2>2, <1>9, <1>t DEF Load, DataSlotsDistinct, PendingSeqWindow, dataVars, WindowInv
<1>10. CASE UNCHANGED vars
  <2>1. TypeOK'
    BY <1>10, <1>t DEF vars, TypeOK, dataVars, ackVars, channelVars
  <2> QED BY <2>1, <1>10, <1>t
          DEF vars, DataSlotsDistinct, PendingSeqWindow, dataVars, WindowInv
<1> QED BY <1>1, <1>2, <1>3, <1>4, <1>5, <1>6, <1>7, <1>8, <1>9, <1>10 DEF Next, GetNextXfer

\* The window of pending data frames is sound at every depth: its slots have different
\* buffers, hold frames, and carry the last sequence numbers in order.
THEOREM WindowInvariant == Spec => []WindowInv
BY WindowInit, WindowStep, PTL DEF Spec

\* The variables keep their types, the ghost list of ACKs as long as the queue included.
THEOREM SchedulerTypeOK == Spec => []TypeOK
BY WindowInvariant, PTL DEF WindowInv

\* getNextXfer never composes a frame in the buffer of one that is still pending.
THEOREM SlotsStayDistinct == Spec => []DataSlotsDistinct
BY WindowInvariant, PTL DEF WindowInv

\* The pending frames carry the last sequence numbers handed out, across every wrap.
THEOREM WindowOfSequenceNumbers == Spec => []PendingSeqWindow
BY WindowInvariant, PTL DEF WindowInv

-----------------------------------------------------------------------------
\* The queue of ACKs.

\* An ACK is sent in place of one scheduled before it, never of one scheduled after it:
\* popping and overwriting keep the queue behind the ACKs it owes, at every depth.
AckInv == TypeOK /\ AckNeverOlder

LEMMA AckStep == TypeOK /\ TypeOK' /\ AckNeverOlder /\ [Next]_vars => AckNeverOlder'
<1> SUFFICES ASSUME TypeOK, TypeOK', AckNeverOlder, [Next]_vars PROVE AckNeverOlder'
  OBVIOUS
<1> USE Constants
<1>t. /\ ackBuffer \in [Slot -> SeqNr] /\ ackFifo \in [Slot -> Slot] /\ ackFifoCount \in 0 .. DEPTH
      /\ owed \in Seq(SeqNr) /\ Len(owed) = ackFifoCount
  BY DEF TypeOK
<1>1. CASE UNCHANGED ackVars
  BY <1>1 DEF ackVars, AckNeverOlder
<1>2. CASE Reset
  BY <1>2 DEF Reset, AckNeverOlder
<1>3. CASE GetNextXferAck
  <2>1. /\ ackFifoCount > 0 /\ ackBuffer' = ackBuffer /\ ackFifo' = ShiftDown(ackFifo)
        /\ ackFifoCount' = ackFifoCount - 1 /\ owed' = Tail(owed)
    BY <1>3 DEF GetNextXferAck
  <2>2. owed # <<>>
    BY <1>t, <2>1, EmptySeq
  <2>3. \A j \in 1 .. ackFifoCount - 1 : owed'[j] = owed[j + 1]
    BY <1>t, <2>1, <2>2, HeadTailProperties
  <2>4. ASSUME NEW i \in 0 .. ackFifoCount - 2
        PROVE  \E j \in i .. ackFifoCount - 2 : ackBuffer'[ackFifo'[i]] = owed'[j + 1]
    <3>1. i \in Slot /\ i < DEPTH - 1 /\ i + 1 \in 0 .. ackFifoCount - 1
      BY <1>t DEF Slot
    <3>2. ackBuffer'[ackFifo'[i]] = ackBuffer[ackFifo[i + 1]]
      BY <2>1, <3>1 DEF ShiftDown
    <3>3. PICK k \in i + 1 .. ackFifoCount - 1 : ackBuffer[ackFifo[i + 1]] = owed[k + 1]
      BY <3>1 DEF AckNeverOlder
    <3>4. k \in 1 .. ackFifoCount - 1 /\ k - 1 \in i .. ackFifoCount - 2 /\ (k - 1) + 1 = k
      BY <1>t, <3>1
    <3> QED BY <2>3, <3>2, <3>3, <3>4
  <2>5. ackFifoCount' - 1 = ackFifoCount - 2
    BY <1>t, <2>1
  <2> QED BY <2>4, <2>5 DEF AckNeverOlder
<1>4. ASSUME NEW seqNr \in PeerSeq, ScheduleAck(seqNr) PROVE AckNeverOlder'
  <2>0. seqNr \in SeqNr
    BY PeerAssumption
  <2>1. CASE ackFifoCount < DEPTH
    <3>1. /\ ackBuffer' = [ackBuffer EXCEPT ![ackFifo[ackFifoCount]] = seqNr] /\ ackFifo' = ackFifo
          /\ ackFifoCount' = ackFifoCount + 1 /\ owed' = Append(owed, seqNr)
      BY <1>4, <2>1 DEF ScheduleAck
    <3>2. /\ \A j \in 1 .. ackFifoCount : owed'[j] = owed[j]
          /\ owed'[ackFifoCount + 1] = seqNr
      BY <1>t, <2>0, <3>1, AppendProperties
    <3>3. ASSUME NEW i \in 0 .. ackFifoCount
          PROVE  \E j \in i .. ackFifoCount : ackBuffer'[ackFifo'[i]] = owed'[j + 1]
      <4>0. i \in Slot /\ ackFifoCount \in Slot /\ ackFifoCount \in i .. ackFifoCount /\ i \in Nat
        BY <1>t, <2>1 DEF Slot
      <4>1. CASE ackFifo[i] = ackFifo[ackFifoCount]
        <5>1. ackBuffer'[ackFifo'[i]] = seqNr
          BY <1>t, <3>1, <4>0, <4>1
        <5> QED BY <3>2, <4>0, <5>1
      <4>2. CASE ackFifo[i] # ackFifo[ackFifoCount]
        <5>1. ackBuffer'[ackFifo'[i]] = ackBuffer[ackFifo[i]] /\ i \in 0 .. ackFifoCount - 1
          BY <1>t, <3>1, <4>0, <4>2
        <5>2. PICK k \in i .. ackFifoCount - 1 : ackBuffer[ackFifo[i]] = owed[k + 1]
          BY <5>1 DEF AckNeverOlder
        <5>3. k \in i .. ackFifoCount /\ k + 1 \in 1 .. ackFifoCount
          BY <1>t, <4>0
        <5> QED BY <3>2, <5>1, <5>2, <5>3
      <4> QED BY <4>1, <4>2
    <3>4. ackFifoCount' - 1 = ackFifoCount
      BY <1>t, <3>1
    <3> QED BY <3>3, <3>4 DEF AckNeverOlder
  <2>2. CASE ~(ackFifoCount < DEPTH)
    BY <1>4, <2>2 DEF ScheduleAck, AckNeverOlder
  <2> QED BY <2>1, <2>2
<1>5. \/ UNCHANGED ackVars \/ Reset \/ GetNextXferAck
      \/ \E seqNr \in PeerSeq : ScheduleAck(seqNr)
  BY DEF Next, GetNextXfer, GetNextXferRetransmit, GetNextXferNull, GetNextXferCompose,
         AcknowledgeXfer, Load, Tick, vars
<1> QED BY <1>1, <1>2, <1>3, <1>4, <1>5

\* The queue of ACKs never sends an ACK nobody asked for, nor an older one in place of
\* a newer one, although its slots share buffers.
THEOREM AcksNeverOlder == Spec => []AckNeverOlder
<1>1. Init => AckNeverOlder
  BY DEF Init, AckNeverOlder
<1> QED BY <1>1, AckStep, SchedulerTypeOK, PTL DEF Spec

-----------------------------------------------------------------------------
\* The timeouts.

Elapsed(i) == age[dataFifo[i]] < UINT_MOD =>
                (clock - dataFifoTimeout[i].at) % UINT_MOD = age[dataFifo[i]]

Measured == \A i \in 0 .. dataFifoCount - 1 : Elapsed(i)
OwnLimits ==
  \A i \in 0 .. dataFifoCount - 1 : dataFifoTimeout[i].limit = LimitOf(dataFifo[i])

LEMMA MeasuredStep ==
  WindowInv /\ WindowInv' /\ Measured /\ [Next]_vars => Measured'
<1> SUFFICES ASSUME WindowInv, WindowInv', Measured, [Next]_vars
             PROVE  Measured'
  OBVIOUS
<1> USE Constants
<1>t. /\ dataFifo \in [Slot -> Slot] /\ dataFifoCount \in 0 .. DEPTH
      /\ dataFifoTimeout \in [Slot -> [at : Uint, limit : Limit \cup {0}]]
      /\ age \in [Slot -> 0 .. UINT_MOD] /\ clock \in Uint /\ DataSlotsDistinct
  BY DEF WindowInv, TypeOK
<1>s. \A i \in 0 .. dataFifoCount - 1 : i \in Slot /\ dataFifo[i] \in Slot
  BY <1>t DEF Slot
<1>e. \A i \in 0 .. dataFifoCount - 1 : Elapsed(i)
  BY DEF Measured
<1>g. (\A i \in 0 .. dataFifoCount' - 1 : Elapsed(i)') => Measured'
  BY DEF Measured
<1>1. CASE UNCHANGED <<dataFifo, dataFifoTimeout, dataFifoCount, age, clock>>
  BY <1>1, <1>e, <1>g DEF Elapsed
<1>2. CASE Reset
  BY <1>2 DEF Reset, Measured
<1>3. CASE GetNextXferRetransmit
  <2>1. /\ dataFifo' = dataFifo /\ dataFifoCount' = dataFifoCount /\ clock' = clock
        /\ dataFifoTimeout' = [dataFifoTimeout EXCEPT ![0] = [at |-> clock, limit |-> RTX_TIMEOUT]]
        /\ age' = [age EXCEPT ![dataFifo[0]] = 0]
    BY <1>3 DEF GetNextXferRetransmit
  <2>2. ASSUME NEW i \in 0 .. dataFifoCount - 1 PROVE Elapsed(i)'
    <3>1. CASE i = 0
      <4>1. dataFifoTimeout'[i].at = clock /\ age'[dataFifo'[i]] = 0
        BY <1>t, <1>s, <2>1, <3>1
      <4>2. (clock - clock) % UINT_MOD = 0
        BY <1>t, NothingElapsed DEF Uint
      <4> QED BY <2>1, <4>1, <4>2 DEF Elapsed
    <3>2. CASE i # 0
      <4>1. dataFifo[i] # dataFifo[0]
        BY <1>t, <1>s, <3>2 DEF DataSlotsDistinct
      <4>2. dataFifoTimeout'[i] = dataFifoTimeout[i] /\ age'[dataFifo'[i]] = age[dataFifo[i]]
        BY <1>t, <1>s, <2>1, <3>2, <4>1
      <4> QED BY <1>e, <2>1, <4>2 DEF Elapsed
    <3> QED BY <3>1, <3>2
  <2> QED BY <1>g, <2>1, <2>2
<1>4. ASSUME NEW ch \in Channel, GetNextXferCompose(ch) PROVE Measured'
  <2> DEFINE len == Least(txCount[ch], FRAME_PAYLOAD)
             b == dataFifo[dataFifoCount]
  <2>1. /\ dataFifo' = dataFifo /\ dataFifoCount' = dataFifoCount + 1 /\ clock' = clock
        /\ dataFifoTimeout' = [dataFifoTimeout EXCEPT ![dataFifoCount] =
             [at |-> clock, limit |-> FIRST_TIMEOUT + len \div BYTES_PER_MS]]
        /\ age' = [age EXCEPT ![b] = 0] /\ dataFifoCount \in Slot
    BY <1>4, <1>t DEF GetNextXferCompose, Slot
  <2>2. ASSUME NEW i \in 0 .. dataFifoCount PROVE Elapsed(i)'
    <3>1. CASE i = dataFifoCount
      <4>1. dataFifoTimeout'[i].at = clock /\ age'[dataFifo'[i]] = 0
        BY <1>t, <2>1, <3>1
      <4>2. (clock - clock) % UINT_MOD = 0
        BY <1>t, NothingElapsed DEF Uint
      <4> QED BY <2>1, <4>1, <4>2 DEF Elapsed
    <3>2. CASE i # dataFifoCount
      <4>1. i \in 0 .. dataFifoCount - 1
        BY <1>t, <3>2
      <4>2. dataFifo[i] # b
        BY <1>t, <1>s, <2>1, <3>2, <4>1 DEF DataSlotsDistinct
      <4>3. dataFifoTimeout'[i] = dataFifoTimeout[i] /\ age'[dataFifo'[i]] = age[dataFifo[i]]
        BY <1>t, <1>s, <2>1, <3>2, <4>1, <4>2
      <4> QED BY <1>e, <2>1, <4>1, <4>3 DEF Elapsed
    <3> QED BY <3>1, <3>2
  <2>3. dataFifoCount' - 1 = dataFifoCount
    BY <1>t, <2>1
  <2> QED BY <1>g, <2>2, <2>3
<1>5. ASSUME NEW seqNr \in SeqNr, AcknowledgeXfer(seqNr) PROVE Measured'
  <2>1. CASE dataFifoCount # 0 /\ dataBuffer[dataFifo[0]].seq = seqNr
    <3>1. /\ dataFifo' = Rotate(dataFifo) /\ dataFifoCount' = dataFifoCount - 1 /\ clock' = clock
          /\ dataFifoTimeout' = ShiftTimeouts(dataFifoTimeout)
          /\ age' = [age EXCEPT ![dataFifo[0]] = 0]
      BY <1>5, <2>1 DEF AcknowledgeXfer
    <3>2. ASSUME NEW i \in 0 .. dataFifoCount - 2 PROVE Elapsed(i)'
      <4>1. i \in Slot /\ i < DEPTH - 1 /\ i + 1 \in Slot /\ i + 1 \in 0 .. dataFifoCount - 1 /\ i + 1 # 0
        BY <1>t DEF Slot
      <4>2. dataFifo'[i] = dataFifo[i + 1] /\ dataFifo[i + 1] # dataFifo[0]
        BY <1>t, <3>1, <4>1 DEF Rotate, DataSlotsDistinct
      <4>3. age'[dataFifo'[i]] = age[dataFifo[i + 1]]
        BY <1>t, <3>1, <4>1, <4>2
      <4>4. dataFifoTimeout'[i] = dataFifoTimeout[i + 1]
        BY <3>1, <4>1 DEF ShiftTimeouts, ShiftDown
      <4> QED BY <1>e, <3>1, <4>1, <4>3, <4>4 DEF Elapsed
    <3>3. dataFifoCount' - 1 = dataFifoCount - 2
      BY <1>t, <3>1
    <3> QED BY <1>g, <3>2, <3>3
  <2>2. CASE ~(dataFifoCount # 0 /\ dataBuffer[dataFifo[0]].seq = seqNr)
    BY <1>5, <2>2, <1>1 DEF AcknowledgeXfer, dataVars
  <2> QED BY <2>1, <2>2
<1>6. CASE Tick
  <2>1. /\ dataFifo' = dataFifo /\ dataFifoCount' = dataFifoCount
        /\ dataFifoTimeout' = dataFifoTimeout /\ clock' = (clock + 1) % UINT_MOD
    BY <1>6 DEF Tick
  <2>2. ASSUME NEW i \in 0 .. dataFifoCount - 1 PROVE Elapsed(i)'
    <3> DEFINE a == dataFifoTimeout[i].at
               d == age[dataFifo[i]]
    <3>1. /\ a \in Int /\ d \in Nat /\ clock \in 0 .. UINT_MOD - 1
          /\ d < UINT_MOD => (clock - a) % UINT_MOD = d
      BY <1>t, <1>s, <1>e DEF Uint, Elapsed
    <3>2. age'[dataFifo'[i]] = Least(d + 1, UINT_MOD)
      BY <1>6, <1>s, <2>1 DEF Tick
    <3>3. dataFifoTimeout'[i].at = a
      BY <2>1
    <3> HIDE DEF a, d
    <3>4. ASSUME d + 1 < UINT_MOD PROVE (((clock + 1) % UINT_MOD) - a) % UINT_MOD = d + 1
      <4>1. (clock - a) % UINT_MOD = d /\ UINT_MOD \in Nat \ {0}
        BY <3>1, <3>4
      <4> QED BY <3>1, <3>4, <4>1, ElapsedGrows
    <3>5. age'[dataFifo'[i]] < UINT_MOD => d + 1 < UINT_MOD /\ age'[dataFifo'[i]] = d + 1
      BY <3>1, <3>2 DEF Least
    <3> QED BY <2>1, <3>3, <3>4, <3>5 DEF Elapsed
  <2> QED BY <1>g, <2>1, <2>2
<1>7. \/ UNCHANGED <<dataFifo, dataFifoTimeout, dataFifoCount, age, clock>>
      \/ Reset \/ GetNextXferRetransmit \/ Tick
      \/ \E ch \in Channel : GetNextXferCompose(ch)
      \/ \E seqNr \in SeqNr : AcknowledgeXfer(seqNr)
  BY DEF Next, GetNextXfer, GetNextXferAck, GetNextXferNull, ScheduleAck, Load, dataVars, vars
<1> QED BY <1>1, <1>2, <1>3, <1>4, <1>5, <1>6, <1>7

\* A timeout keeps its limit as long as its frame keeps its buffer.
LEMMA OwnLimitStep ==
  WindowInv /\ WindowInv' /\ OwnLimits /\ [Next]_vars => OwnLimits'
<1> SUFFICES ASSUME WindowInv, WindowInv', OwnLimits, [Next]_vars
             PROVE  OwnLimits'
  OBVIOUS
<1> USE Constants
<1>t. /\ dataFifo \in [Slot -> Slot] /\ dataFifoCount \in 0 .. DEPTH
      /\ dataFifoTimeout \in [Slot -> [at : Uint, limit : Limit \cup {0}]]
      /\ dataBuffer \in [Slot -> DataFrames \cup {Blank}] /\ DataSlotsDistinct
  BY DEF WindowInv, TypeOK
<1>s. \A i \in 0 .. dataFifoCount - 1 : i \in Slot /\ dataFifo[i] \in Slot
  BY <1>t DEF Slot
<1>1. CASE UNCHANGED <<dataFifo, dataFifoTimeout, dataFifoCount, again, dataBuffer>>
  BY <1>1 DEF OwnLimits, LimitOf
<1>2. CASE Reset
  BY <1>2 DEF Reset, OwnLimits
<1>3. CASE GetNextXferRetransmit
  <2>1. /\ dataFifo' = dataFifo /\ dataFifoCount' = dataFifoCount /\ dataBuffer' = dataBuffer
        /\ dataFifoTimeout' = [dataFifoTimeout EXCEPT ![0] = [at |-> clock, limit |-> RTX_TIMEOUT]]
        /\ again' = again \cup {dataFifo[0]}
    BY <1>3 DEF GetNextXferRetransmit
  <2>2. ASSUME NEW i \in 0 .. dataFifoCount - 1
        PROVE  dataFifoTimeout'[i].limit = LimitOf(dataFifo[i])'
    <3>1. CASE i = 0
      <4>1. dataFifoTimeout'[i].limit = RTX_TIMEOUT /\ dataFifo'[i] \in again'
        BY <1>t, <1>s, <2>1, <3>1
      <4> QED BY <4>1 DEF LimitOf
    <3>2. CASE i # 0
      <4>1. dataFifo[i] # dataFifo[0]
        BY <1>t, <1>s, <3>2 DEF DataSlotsDistinct
      <4>2. dataFifoTimeout'[i] = dataFifoTimeout[i] /\ (dataFifo[i] \in again' <=> dataFifo[i] \in again)
        BY <1>t, <1>s, <2>1, <3>2, <4>1
      <4> QED BY <2>1, <4>2 DEF OwnLimits, LimitOf
    <3> QED BY <3>1, <3>2
  <2> QED BY <2>1, <2>2 DEF OwnLimits
<1>4. ASSUME NEW ch \in Channel, GetNextXferCompose(ch) PROVE OwnLimits'
  <2> DEFINE len == Least(txCount[ch], FRAME_PAYLOAD)
             frame == DataFrame(txSeqNr, ch, len)
             b == dataFifo[dataFifoCount]
             limit == FIRST_TIMEOUT + len \div BYTES_PER_MS
  <2>1. /\ dataFifo' = dataFifo /\ dataFifoCount' = dataFifoCount + 1
        /\ dataFifoTimeout' = [dataFifoTimeout EXCEPT ![dataFifoCount] =
             [at |-> clock, limit |-> limit]]
        /\ dataBuffer' = [dataBuffer EXCEPT ![b] = frame]
        /\ again' = again \ {b} /\ dataFifoCount \in Slot
    BY <1>4, <1>t DEF GetNextXferCompose, Slot
  <2>2. frame.len = len
    BY DEF DataFrame
  <2>3. limit = FIRST_TIMEOUT + frame.len \div BYTES_PER_MS
    BY <2>2
  <2> HIDE DEF len, frame, limit
  <2>4. ASSUME NEW i \in 0 .. dataFifoCount
        PROVE  dataFifoTimeout'[i].limit = LimitOf(dataFifo[i])'
    <3>1. CASE i = dataFifoCount
      <4>1. /\ dataFifoTimeout'[i].limit = limit /\ dataFifo'[i] \notin again'
            /\ dataBuffer'[dataFifo'[i]] = frame
        BY <1>t, <2>1, <3>1
      <4> QED BY <2>3, <4>1 DEF LimitOf
    <3>2. CASE i # dataFifoCount
      <4>1. i \in 0 .. dataFifoCount - 1
        BY <1>t, <3>2
      <4>2. dataFifo[i] # b
        BY <1>t, <1>s, <2>1, <3>2, <4>1 DEF DataSlotsDistinct
      <4>3. /\ dataFifoTimeout'[i] = dataFifoTimeout[i]
            /\ dataBuffer'[dataFifo[i]] = dataBuffer[dataFifo[i]]
            /\ dataFifo[i] \in again' <=> dataFifo[i] \in again
        BY <1>t, <1>s, <2>1, <3>2, <4>1, <4>2
      <4> QED BY <2>1, <4>1, <4>3 DEF OwnLimits, LimitOf
    <3> QED BY <3>1, <3>2
  <2>5. dataFifoCount' - 1 = dataFifoCount
    BY <1>t, <2>1
  <2> QED BY <2>4, <2>5 DEF OwnLimits
<1>5. ASSUME NEW seqNr \in SeqNr, AcknowledgeXfer(seqNr) PROVE OwnLimits'
  <2>1. CASE dataFifoCount # 0 /\ dataBuffer[dataFifo[0]].seq = seqNr
    <3>1. /\ dataFifo' = Rotate(dataFifo) /\ dataFifoCount' = dataFifoCount - 1
          /\ dataFifoTimeout' = ShiftTimeouts(dataFifoTimeout)
          /\ dataBuffer' = [dataBuffer EXCEPT ![dataFifo[0]] = Blank]
          /\ again' = again \ {dataFifo[0]}
      BY <1>5, <2>1 DEF AcknowledgeXfer
    <3>2. ASSUME NEW i \in 0 .. dataFifoCount - 2
          PROVE  dataFifoTimeout'[i].limit = LimitOf(dataFifo[i])'
      <4>1. i \in Slot /\ i < DEPTH - 1 /\ i + 1 \in Slot /\ i + 1 \in 0 .. dataFifoCount - 1 /\ i + 1 # 0
        BY <1>t DEF Slot
      <4>2. dataFifo'[i] = dataFifo[i + 1] /\ dataFifo[i + 1] # dataFifo[0]
        BY <1>t, <3>1, <4>1 DEF Rotate, DataSlotsDistinct
      <4>3. /\ dataBuffer'[dataFifo'[i]] = dataBuffer[dataFifo[i + 1]]
            /\ dataFifo'[i] \in again' <=> dataFifo[i + 1] \in again
        BY <1>t, <3>1, <4>1, <4>2
      <4>4. dataFifoTimeout'[i] = dataFifoTimeout[i + 1]
        BY <3>1, <4>1 DEF ShiftTimeouts, ShiftDown
      <4>5. dataFifoTimeout[i + 1].limit = LimitOf(dataFifo[i + 1])
        BY <4>1 DEF OwnLimits
      <4> QED BY <4>3, <4>4, <4>5 DEF LimitOf
    <3>3. dataFifoCount' - 1 = dataFifoCount - 2
      BY <1>t, <3>1
    <3> QED BY <3>2, <3>3 DEF OwnLimits
  <2>2. CASE ~(dataFifoCount # 0 /\ dataBuffer[dataFifo[0]].seq = seqNr)
    BY <1>5, <2>2, <1>1 DEF AcknowledgeXfer, dataVars
  <2> QED BY <2>1, <2>2
<1>6. \/ UNCHANGED <<dataFifo, dataFifoTimeout, dataFifoCount, again, dataBuffer>>
      \/ Reset \/ GetNextXferRetransmit
      \/ \E ch \in Channel : GetNextXferCompose(ch)
      \/ \E seqNr \in SeqNr : AcknowledgeXfer(seqNr)
  BY DEF Next, GetNextXfer, GetNextXferAck, GetNextXferNull, ScheduleAck, Load, Tick, dataVars, vars
<1> QED BY <1>1, <1>2, <1>3, <1>4, <1>5, <1>6

\* Each pending frame is timed by its own timeout, for every clock and every depth: the
\* unsigned difference of times is the time since that frame was last sent, across the
\* wrap of the clock, and the limit is the one of its length or of a repetition, however
\* the slots have moved.
THEOREM TimeoutsFollowFrames == Spec => []TimeoutFollowsFrame
<1>1. Init => Measured /\ OwnLimits
  BY DEF Init, Measured, OwnLimits
<1>2. Measured /\ OwnLimits => TimeoutFollowsFrame
  BY DEF Measured, OwnLimits, Elapsed, TimeoutFollowsFrame
<1>3. Spec => []Measured
  BY <1>1, MeasuredStep, WindowInvariant, PTL DEF Spec
<1>4. Spec => []OwnLimits
  BY <1>1, OwnLimitStep, WindowInvariant, PTL DEF Spec
<1> QED BY <1>2, <1>3, <1>4, PTL

-----------------------------------------------------------------------------
\* The pointer arrays behave like queues.

\* Every slot points to the buffer that the number of pops so far says: the last
\* slots have all come to share the last buffer.
AckShape == \A i \in Slot : ackFifo[i] = AckBuffer(ackFifo[0], i)

LEMMA ShiftKeepsShape ==
  ASSUME NEW f \in [Slot -> Slot], \A i \in Slot : f[i] = AckBuffer(f[0], i)
  PROVE  /\ \A i \in Slot : ShiftDown(f)[i] = AckBuffer(ShiftDown(f)[0], i)
         /\ ShiftDown(f)[0] = ShiftAfterPop(f[0])
<1> USE Constants
<1>1. f[0] \in 0 .. DEPTH - 1 /\ 1 \in Slot
  BY DEF Slot
<1>2. ShiftDown(f)[0] = f[1] /\ f[1] = ShiftAfterPop(f[0])
  BY <1>1 DEF ShiftDown, ShiftAfterPop, AckBuffer
<1>3. ASSUME NEW i \in Slot PROVE ShiftDown(f)[i] = AckBuffer(ShiftAfterPop(f[0]), i)
  <2>1. CASE i < DEPTH - 1
    <3>1. ShiftDown(f)[i] = AckBuffer(f[0], i + 1)
      BY <2>1 DEF ShiftDown, Slot
    <3>2. AckBuffer(f[0], i + 1) = AckBuffer(ShiftAfterPop(f[0]), i)
      <4> DEFINE k == f[0]
      <4>1. k \in 0 .. DEPTH - 1 /\ i \in 0 .. DEPTH - 1
        BY <1>1 DEF Slot
      <4> HIDE DEF k
      <4>2. AckBuffer(k, i + 1) = AckBuffer(ShiftAfterPop(k), i)
        <5>1. CASE k + 1 < DEPTH - 1
          BY <4>1, <5>1 DEF AckBuffer, ShiftAfterPop, Least
        <5>2. CASE ~(k + 1 < DEPTH - 1)
          BY <4>1, <5>2 DEF AckBuffer, ShiftAfterPop, Least
        <5> QED BY <5>1, <5>2
      <4> QED BY <4>2 DEF k
    <3> QED BY <3>1, <3>2
  <2>2. CASE ~(i < DEPTH - 1)
    <3>1. ShiftDown(f)[i] = AckBuffer(f[0], i)
      BY <2>2 DEF ShiftDown
    <3>2. AckBuffer(f[0], i) = AckBuffer(ShiftAfterPop(f[0]), i)
      BY <1>1, <2>2 DEF AckBuffer, ShiftAfterPop, Least, Slot
    <3> QED BY <3>1, <3>2
  <2> QED BY <2>1, <2>2
<1> QED BY <1>2, <1>3

LEMMA ShapeStep == TypeOK /\ AckShape /\ [Next]_vars => AckShape'
<1> SUFFICES ASSUME TypeOK, AckShape, [Next]_vars PROVE AckShape'
  OBVIOUS
<1>1. CASE UNCHANGED ackFifo
  BY <1>1 DEF AckShape
<1>2. CASE ackFifo' = ShiftDown(ackFifo)
  BY <1>2, ShiftKeepsShape DEF AckShape, TypeOK
<1>3. UNCHANGED ackFifo \/ ackFifo' = ShiftDown(ackFifo)
  BY DEF Next, GetNextXfer, GetNextXferAck, GetNextXferRetransmit, GetNextXferNull,
         GetNextXferCompose, AcknowledgeXfer, ScheduleAck, Load, Tick, Reset, ackVars, vars
<1> QED BY <1>1, <1>2, <1>3

LEMMA ShapeInvariant == Spec => []AckShape
<1>1. Init => AckShape
  BY Constants DEF Init, AckShape, AckBuffer, Least, Slot
<1> QED BY <1>1, ShapeStep, SchedulerTypeOK, PTL DEF Spec

\* Reading buffers b through the first n slots f gives a sequence of length n.
Through(n, f, b) == [i \in 1 .. n |-> b[f[i - 1]]]
Readable(S, n, f, b) == n \in 0 .. DEPTH /\ f \in [Slot -> Slot] /\ b \in [Slot -> S]

LEMMA ThroughSlots ==
  ASSUME NEW S, NEW n, NEW f, NEW b, Readable(S, n, f, b)
  PROVE  /\ Through(n, f, b) \in Seq(S)
         /\ Len(Through(n, f, b)) = n
         /\ \A i \in 1 .. n : Through(n, f, b)[i] = b[f[i - 1]]
<1>1. n \in 0 .. DEPTH /\ \A i \in 1 .. n : i - 1 \in Slot /\ b[f[i - 1]] \in S
  BY Constants DEF Readable, Slot
<1> QED BY <1>1, Constants DEF Through

\* The queues at a state and at the next are such readings.
LEMMA QueuesAreReadings ==
  /\ Pending = Through(dataFifoCount, dataFifo, dataBuffer)
  /\ Acks = Through(ackFifoCount, ackFifo, ackBuffer)
  /\ Pending' = Through(dataFifoCount', dataFifo', dataBuffer')
  /\ Acks' = Through(ackFifoCount', ackFifo', ackBuffer')
BY DEF Pending, Acks, Through

LEMMA QueuesType ==
  ASSUME TypeOK
  PROVE  /\ Pending \in Seq(DataFrames \cup {Blank}) /\ Len(Pending) = dataFifoCount
         /\ Acks \in Seq(SeqNr) /\ Len(Acks) = ackFifoCount
<1>1. /\ Readable(DataFrames \cup {Blank}, dataFifoCount, dataFifo, dataBuffer)
      /\ Readable(SeqNr, ackFifoCount, ackFifo, ackBuffer)
  BY DEF TypeOK, Readable
<1>2. Pending \in Seq(DataFrames \cup {Blank}) /\ Len(Pending) = dataFifoCount
  BY <1>1, ThroughSlots, QueuesAreReadings
<1>3. Acks \in Seq(SeqNr) /\ Len(Acks) = ackFifoCount
  BY <1>1, ThroughSlots, QueuesAreReadings
<1> QED BY <1>2, <1>3

LEMMA QueuesTypeNext ==
  ASSUME TypeOK'
  PROVE  /\ Pending' \in Seq(DataFrames \cup {Blank}) /\ Len(Pending') = dataFifoCount'
         /\ Acks' \in Seq(SeqNr) /\ Len(Acks') = ackFifoCount'
<1>1. /\ Readable(DataFrames \cup {Blank}, dataFifoCount', dataFifo', dataBuffer')
      /\ Readable(SeqNr, ackFifoCount', ackFifo', ackBuffer')
  BY DEF TypeOK, Readable
<1>2. Pending' \in Seq(DataFrames \cup {Blank}) /\ Len(Pending') = dataFifoCount'
  BY <1>1, ThroughSlots, QueuesAreReadings
<1>3. Acks' \in Seq(SeqNr) /\ Len(Acks') = ackFifoCount'
  BY <1>1, ThroughSlots, QueuesAreReadings
<1> QED BY <1>2, <1>3

\* The same sequence read through slots that have moved down by one is its tail.
LEMMA ThroughMovedSlots ==
  ASSUME NEW S, NEW n, NEW f, NEW b, NEW g, NEW c,
         Readable(S, n, f, b), Readable(S, n - 1, g, c), n # 0,
         \A i \in 0 .. n - 2 : g[i] = f[i + 1] /\ c[g[i]] = b[g[i]]
  PROVE  Through(n - 1, g, c) = Tail(Through(n, f, b))
<1> DEFINE s == Through(n, f, b)
           t == Through(n - 1, g, c)
<1>0. n \in 1 .. DEPTH
  BY Constants DEF Readable
<1>1. s \in Seq(S) /\ Len(s) = n /\ \A i \in 1 .. n : s[i] = b[f[i - 1]]
  BY ThroughSlots
<1>2. t \in Seq(S) /\ Len(t) = n - 1 /\ \A i \in 1 .. n - 1 : t[i] = c[g[i - 1]]
  BY ThroughSlots
<1>3. ASSUME NEW i \in 1 .. n - 1 PROVE t[i] = s[i + 1]
  <2>1. i - 1 \in 0 .. n - 2 /\ (i - 1) + 1 = i /\ (i + 1) - 1 = i /\ i + 1 \in 1 .. n
    BY <1>0, Constants
  <2>2. g[i - 1] = f[i] /\ c[g[i - 1]] = b[g[i - 1]]
    BY <2>1
  <2> QED BY <1>1, <1>2, <2>1, <2>2
<1> HIDE DEF s, t
<1>4. s # <<>>
  BY <1>1, EmptySeq
<1>5. /\ Tail(s) \in Seq(S) /\ Len(Tail(s)) = n - 1
      /\ \A i \in 1 .. n - 1 : Tail(s)[i] = s[i + 1]
  BY <1>0, <1>1, <1>4, HeadTailProperties
<1>6. t = Tail(s)
  BY <1>0, <1>2, <1>3, <1>5, SeqEqual
<1> QED BY <1>6 DEF s, t

LEMMA ComposeAppends ==
  ASSUME WindowInv, WindowInv', NEW ch \in Channel, GetNextXferCompose(ch)
  PROVE  Pending' = Append(Pending, DataFrame(txSeqNr, ch, Least(txCount[ch], FRAME_PAYLOAD)))
<1> DEFINE frame == DataFrame(txSeqNr, ch, Least(txCount[ch], FRAME_PAYLOAD))
           n == dataFifoCount
<1>1. /\ dataBuffer' = [dataBuffer EXCEPT ![dataFifo[n]] = frame] /\ dataFifo' = dataFifo
      /\ dataFifoCount' = n + 1 /\ n \in Slot
  BY Constants DEF GetNextXferCompose, WindowInv, TypeOK, Slot
<1>2. /\ dataFifo \in [Slot -> Slot] /\ dataBuffer \in [Slot -> DataFrames \cup {Blank}]
      /\ DataSlotsDistinct /\ n \in Nat
  BY Constants DEF WindowInv, TypeOK
<1>3. /\ Pending \in Seq(DataFrames \cup {Blank}) /\ Len(Pending) = n
      /\ Pending' \in Seq(DataFrames \cup {Blank}) /\ Len(Pending') = n + 1
  BY <1>1, QueuesType, QueuesTypeNext DEF WindowInv
<1>4. Pending' = [i \in 1 .. n + 1 |-> dataBuffer'[dataFifo[i - 1]]]
  BY <1>1 DEF Pending
<1>5. ASSUME NEW i \in 1 .. n PROVE Pending'[i] = Pending[i]
  <2>1. i - 1 \in Slot /\ i - 1 # n
    BY <1>1, <1>2, Constants DEF Slot
  <2>2. dataFifo[i - 1] # dataFifo[n]
    BY <1>1, <1>2, <2>1 DEF DataSlotsDistinct
  <2> QED BY <1>1, <1>2, <1>4, <2>1, <2>2 DEF Pending
<1>6. Pending'[n + 1] = frame
  <2>1. (n + 1) - 1 = n /\ n + 1 \in 1 .. n + 1 /\ dataFifo[n] \in Slot
    BY <1>1, <1>2
  <2> QED BY <1>1, <1>2, <1>4, <2>1
<1> HIDE DEF frame
<1>7. Pending'[n + 1] \in DataFrames \cup {Blank}
  BY <1>2, <1>3, ElementOfSeq, n + 1 \in 1 .. n + 1
<1>8. /\ Append(Pending, frame) \in Seq(DataFrames \cup {Blank}) /\ Len(Append(Pending, frame)) = n + 1
      /\ \A i \in 1 .. n : Append(Pending, frame)[i] = Pending[i]
      /\ Append(Pending, frame)[n + 1] = frame
  BY <1>3, <1>6, <1>7, AppendProperties
<1>9. \A i \in 1 .. n + 1 : Pending'[i] = Append(Pending, frame)[i]
  BY <1>2, <1>5, <1>6, <1>8
<1>10. Pending' = Append(Pending, frame)
  BY <1>3, <1>8, <1>9, SeqEqual
<1> QED BY <1>10 DEF frame

LEMMA AcknowledgeTail ==
  ASSUME WindowInv, WindowInv', NEW seqNr \in SeqNr, AcknowledgeXfer(seqNr),
         dataFifoCount # 0, dataBuffer[dataFifo[0]].seq = seqNr
  PROVE  Pending' = Tail(Pending)
<1> DEFINE n == dataFifoCount
<1>1. /\ dataBuffer' = [dataBuffer EXCEPT ![dataFifo[0]] = Blank]
      /\ dataFifo' = Rotate(dataFifo) /\ dataFifoCount' = n - 1
  BY DEF AcknowledgeXfer
<1>2. /\ dataFifo \in [Slot -> Slot] /\ dataBuffer \in [Slot -> DataFrames \cup {Blank}]
      /\ dataFifo' \in [Slot -> Slot] /\ dataBuffer' \in [Slot -> DataFrames \cup {Blank}]
      /\ DataSlotsDistinct /\ n \in 1 .. DEPTH
  BY Constants DEF WindowInv, TypeOK
<1>3. ASSUME NEW i \in 0 .. n - 2
      PROVE  dataFifo'[i] = dataFifo[i + 1] /\ dataBuffer'[dataFifo'[i]] = dataBuffer[dataFifo'[i]]
  <2>1. i \in Slot /\ i < DEPTH - 1 /\ i + 1 \in Slot /\ i + 1 # 0 /\ 0 \in Slot
    BY <1>2, Constants DEF Slot
  <2>2. dataFifo'[i] = dataFifo[i + 1]
    BY <1>1, <2>1 DEF Rotate
  <2>3. dataFifo[i + 1] # dataFifo[0]
    BY <1>2, <2>1 DEF DataSlotsDistinct
  <2> QED BY <1>1, <1>2, <2>1, <2>2, <2>3
<1> DEFINE S == DataFrames \cup {Blank}
<1> HIDE DEF S
<1>5. /\ Readable(S, n, dataFifo, dataBuffer) /\ Readable(S, n - 1, dataFifo', dataBuffer')
      /\ n # 0
  BY <1>2, Constants DEF S, Readable
<1>6. Through(n - 1, dataFifo', dataBuffer') = Tail(Through(n, dataFifo, dataBuffer))
  BY <1>3, <1>5, ThroughMovedSlots
<1> QED BY <1>1, <1>6, QueuesAreReadings

LEMMA AckPopped ==
  ASSUME TypeOK, TypeOK', AckShape, GetNextXferAck
  PROVE  /\ Acks # <<>> /\ Head(Acks) = ackBuffer[ackFifo[0]] /\ Acks' = Tail(Acks)
         /\ ackFifo'[0] = ShiftAfterPop(ackFifo[0])
<1> DEFINE n == ackFifoCount
<1>1. /\ n > 0 /\ ackBuffer' = ackBuffer /\ ackFifo' = ShiftDown(ackFifo) /\ ackFifoCount' = n - 1
  BY DEF GetNextXferAck
<1>2. /\ ackFifo \in [Slot -> Slot] /\ ackBuffer \in [Slot -> SeqNr] /\ n \in 1 .. DEPTH
      /\ ackFifo' \in [Slot -> Slot] /\ ackBuffer' \in [Slot -> SeqNr]
  BY <1>1, Constants DEF TypeOK
<1>3. ASSUME NEW i \in 0 .. n - 2 PROVE ackFifo'[i] = ackFifo[i + 1]
  <2>1. i \in Slot /\ i < DEPTH - 1
    BY <1>2, Constants DEF Slot
  <2> QED BY <1>1, <2>1 DEF ShiftDown
<1>4. Acks' = Tail(Acks)
  <2>1. Through(n - 1, ackFifo', ackBuffer') = Tail(Through(n, ackFifo, ackBuffer))
    <3>1. /\ Readable(SeqNr, n, ackFifo, ackBuffer) /\ Readable(SeqNr, n - 1, ackFifo', ackBuffer')
          /\ n # 0 /\ \A i \in 0 .. n - 2 : ackBuffer'[ackFifo'[i]] = ackBuffer[ackFifo'[i]]
      BY <1>1, <1>2, Constants DEF Readable
    <3> QED BY <1>3, <3>1, ThroughMovedSlots
  <2> QED BY <1>1, <2>1, QueuesAreReadings
<1>5. ackFifo'[0] = ShiftAfterPop(ackFifo[0])
  BY <1>1, <1>2, ShiftKeepsShape DEF AckShape
<1>6. Acks \in Seq(SeqNr) /\ Len(Acks) = n /\ Acks # <<>>
  BY <1>1, <1>2, QueuesType, EmptySeq
<1>7. Acks[1] = ackBuffer[ackFifo[0]]
  BY <1>2 DEF Acks
<1> QED BY <1>4, <1>5, <1>6, <1>7

LEMMA AckPut ==
  ASSUME TypeOK, AckShape, NEW seqNr \in PeerSeq, ScheduleAck(seqNr)
  PROVE  Acks' = PutAck(Acks, ackFifo[0], seqNr)
<1> DEFINE n == ackFifoCount
<1>1. /\ ackFifo \in [Slot -> Slot] /\ ackBuffer \in [Slot -> SeqNr] /\ n \in 0 .. DEPTH
      /\ Len(Acks) = n
  BY QueuesType DEF TypeOK
<1>2. CASE n < DEPTH
  <2>1. /\ ackBuffer' = [ackBuffer EXCEPT ![ackFifo[n]] = seqNr] /\ ackFifo' = ackFifo
        /\ ackFifoCount' = n + 1
    BY <1>2 DEF ScheduleAck, ackVars
  <2>2. Acks' = [i \in 1 .. n + 1 |-> ackBuffer'[ackFifo[i - 1]]]
    BY <2>1 DEF Acks
  <2>3. ASSUME NEW i \in 1 .. n + 1
        PROVE  ackBuffer'[ackFifo[i - 1]]
                 = IF AckBuffer(ackFifo[0], i - 1) = AckBuffer(ackFifo[0], n) THEN seqNr ELSE Acks[i]
    <3>1. i - 1 \in Slot /\ n \in Slot
      BY <1>1, <1>2, Constants DEF Slot
    <3>2. ackFifo[i - 1] = AckBuffer(ackFifo[0], i - 1) /\ ackFifo[n] = AckBuffer(ackFifo[0], n)
      BY <3>1 DEF AckShape
    <3>3. CASE ackFifo[i - 1] = ackFifo[n]
      BY <1>1, <2>1, <3>1, <3>2, <3>3
    <3>4. CASE ackFifo[i - 1] # ackFifo[n]
      <4>1. i \in 1 .. n
        BY <1>1, <3>1, <3>4 DEF Slot
      <4>2. Acks[i] = ackBuffer[ackFifo[i - 1]]
        BY <4>1 DEF Acks
      <4> QED BY <1>1, <2>1, <3>1, <3>2, <3>4, <4>2
    <3> QED BY <3>3, <3>4
  <2>4. PutAck(Acks, ackFifo[0], seqNr)
          = [i \in 1 .. n + 1 |->
               IF AckBuffer(ackFifo[0], i - 1) = AckBuffer(ackFifo[0], n) THEN seqNr ELSE Acks[i]]
    BY <1>1, <1>2, Constants DEF PutAck
  <2> QED BY <2>2, <2>3, <2>4
<1>3. CASE ~(n < DEPTH)
  BY <1>1, <1>3, Constants DEF ScheduleAck, PutAck, Acks
<1> QED BY <1>2, <1>3

\* The operators of TxQueues mean the same in both modules.
LEMMA SameOperators ==
  /\ \A a, b : Queues!Least(a, b) = Least(a, b)
  /\ \A n : Queues!NextSeq(n) = NextSeq(n) /\ Queues!ShiftAfterPop(n) = ShiftAfterPop(n)
  /\ \A acks, shift, ack : Queues!PutAck(acks, shift, ack) = PutAck(acks, shift, ack)
  /\ \A ch : Queues!IsReady(ch) <=> IsReady(ch)
  /\ \A ch : Queues!IsFirstReady(ch) <=> IsFirstReady(ch)
  /\ \A seq, ch, len : Queues!DataFrame(seq, ch, len) = DataFrame(seq, ch, len)
  /\ \A seq : Queues!AckFrame(seq) = AckFrame(seq)
  /\ Queues!Nothing = Nothing /\ Queues!SeqNr = SeqNr
BY DEF Queues!Least, Least, Queues!NextSeq, NextSeq, Queues!ShiftAfterPop, ShiftAfterPop,
       Queues!PutAck, PutAck, Queues!AckBuffer, AckBuffer, Queues!IsReady, IsReady,
       Queues!Ready, Ready, Queues!IsFirstReady, IsFirstReady, Queues!DataFrame, DataFrame,
       Queues!AckFrame, AckFrame, Queues!Nothing, Nothing, Queues!SeqNr, SeqNr

LEMMA QueuesStep ==
  WindowInv /\ WindowInv' /\ AckShape /\ [Next]_vars => [Queues!Next]_(Queues!vars)
<1> SUFFICES ASSUME WindowInv, WindowInv', AckShape, [Next]_vars
             PROVE  [Queues!Next]_(Queues!vars)
  OBVIOUS
<1> USE SameOperators
<1>t. TypeOK /\ TypeOK' /\ ackFifo \in [Slot -> Slot] /\ ackFifoCount \in 0 .. DEPTH /\ dataFifoCount \in 0 .. DEPTH
  BY DEF WindowInv, TypeOK
<1>q. /\ Pending \in Seq(DataFrames \cup {Blank}) /\ Len(Pending) = dataFifoCount
      /\ Acks \in Seq(SeqNr) /\ Len(Acks) = ackFifoCount
  BY <1>t, QueuesType
<1>n. /\ Pending' \in Seq(DataFrames \cup {Blank}) /\ Len(Pending') = dataFifoCount'
      /\ Acks' \in Seq(SeqNr) /\ Len(Acks') = ackFifoCount'
  BY <1>t, QueuesTypeNext
<1>p. UNCHANGED <<dataFifo, dataBuffer, dataFifoCount>> => Pending' = Pending
  BY DEF Pending
<1>a. UNCHANGED <<ackFifo, ackBuffer, ackFifoCount>> => Acks' = Acks /\ ackFifo'[0] = ackFifo[0]
  BY DEF Acks
<1>e. /\ Acks = <<>> <=> ackFifoCount = 0
      /\ Pending = <<>> <=> dataFifoCount = 0
  BY <1>q, EmptySeq
<1>h. dataFifoCount # 0 => Head(Pending) = dataBuffer[dataFifo[0]]
  <2>1. ASSUME dataFifoCount # 0 PROVE Pending[1] = dataBuffer[dataFifo[0]]
    BY <1>t, <2>1, Constants DEF Pending
  <2> QED BY <2>1, <1>q, <1>e
<1>1. CASE Reset
  <2>1. Pending' = <<>> /\ Acks' = <<>>
    BY <1>1, <1>n, EmptySeq DEF Reset
  <2> QED BY <1>1, <2>1 DEF Reset, Queues!Reset, Queues!Next, channelVars
<1>2. CASE GetNextXferAck
  <2>1. /\ Acks # <<>> /\ Head(Acks) = ackBuffer[ackFifo[0]] /\ Acks' = Tail(Acks)
        /\ ackFifo'[0] = ShiftAfterPop(ackFifo[0])
    BY <1>2, <1>t, AckPopped
  <2> QED BY <1>2, <1>p, <2>1 DEF GetNextXferAck, dataVars, channelVars, Queues!SendAck, Queues!Next
<1>3. CASE GetNextXferRetransmit
  <2>1. Pending # <<>> /\ Acks = <<>> /\ Head(Pending) = dataBuffer[dataFifo[0]]
    BY <1>3, <1>t, <1>e, <1>h DEF GetNextXferRetransmit, Overdue
  <2> QED BY <1>3, <1>p, <1>a, <2>1
          DEF GetNextXferRetransmit, ackVars, channelVars, Queues!Retransmit, Queues!Next
<1>4. ASSUME NEW ch \in Channel, GetNextXferCompose(ch) PROVE Queues!Compose(ch)
  <2>1. Pending' = Append(Pending, DataFrame(txSeqNr, ch, Least(txCount[ch], FRAME_PAYLOAD)))
    BY <1>4, ComposeAppends
  <2> QED BY <1>4, <1>a, <1>e, <1>q, <2>1 DEF GetNextXferCompose, ackVars, Queues!Compose
<1>5. CASE GetNextXferNull
  BY <1>5, <1>a, <1>p, <1>e, <1>q
     DEF GetNextXferNull, dataVars, ackVars, channelVars, Queues!NoFrame, Queues!Next
<1>6. ASSUME NEW seqNr \in SeqNr, AcknowledgeXfer(seqNr) PROVE Queues!Acknowledge(seqNr)
  <2>1. CASE dataFifoCount # 0 /\ dataBuffer[dataFifo[0]].seq = seqNr
    <3>1. Pending' = Tail(Pending)
      BY <1>6, <2>1, AcknowledgeTail
    <3> QED BY <1>6, <1>a, <1>e, <1>h, <2>1, <3>1
            DEF AcknowledgeXfer, ackVars, channelVars, Queues!Acknowledge
  <2>2. CASE ~(dataFifoCount # 0 /\ dataBuffer[dataFifo[0]].seq = seqNr)
    <3>1. Pending' = Pending /\ ~(Pending # <<>> /\ Head(Pending).seq = seqNr)
      BY <1>6, <1>e, <1>h, <1>p, <2>2 DEF AcknowledgeXfer, dataVars
    <3> QED BY <1>6, <1>a, <3>1 DEF AcknowledgeXfer, ackVars, channelVars, Queues!Acknowledge
  <2> QED BY <2>1, <2>2
<1>7. ASSUME NEW seqNr \in PeerSeq, ScheduleAck(seqNr) PROVE Queues!ScheduleAck(seqNr)
  <2>1. Acks' = PutAck(Acks, ackFifo[0], seqNr)
    BY <1>7, <1>t, AckPut
  <2> QED BY <1>7, <1>p, <2>1 DEF ScheduleAck, dataVars, channelVars, Queues!ScheduleAck
<1>8. ASSUME NEW ch \in Channel, NEW n \in LoadSizes, NEW more \in BOOLEAN, Load(ch, n, more)
      PROVE  Queues!Load(ch)
  <2>1. n \in 0 .. TxRoom
    BY LoadAssumption
  <2> QED BY <1>8, <1>a, <1>p, <2>1 DEF Load, dataVars, ackVars, Queues!Load
<1>9. CASE Tick
  BY <1>9, <1>a, <1>p DEF Tick, ackVars, channelVars, Queues!Wait, Queues!Next
<1>10. CASE UNCHANGED vars
  BY <1>10, <1>a, <1>p DEF vars, dataVars, ackVars, channelVars, Queues!vars
<1> QED BY <1>1, <1>2, <1>3, <1>4, <1>5, <1>6, <1>7, <1>8, <1>9, <1>10, PeerAssumption
        DEF Next, GetNextXfer, Queues!Next

\* The arrays of pointers implement the queues that each station of Slay2Link has, the
\* sharing of ACK buffers included, for every depth and every size of everything.
THEOREM PointersImplementQueues == Spec => ImplementsQueues
<1>1. Init => Queues!Init
  <2> SUFFICES ASSUME Init PROVE Queues!Init
    OBVIOUS
  <2>1. Pending = <<>> /\ Acks = <<>> /\ ackFifo[0] = 0
    BY Constants DEF Init, Pending, Acks
  <2> QED BY <2>1, SameOperators DEF Init, Queues!Init
<1> QED BY <1>1, QueuesStep, WindowInvariant, ShapeInvariant, PTL
        DEF Spec, ImplementsQueues, Queues!Spec
=============================================================================
