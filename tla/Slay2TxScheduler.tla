-------------------------- MODULE Slay2TxScheduler --------------------------
(***************************************************************************)
(* Slay2TxScheduler (slay2_scheduler.h/.cpp) with its arrays of buffer     *)
(* pointers, together with what it reads of the channels.  Every call is   *)
(* made inside the driver's critical section, so each is one action;       *)
(* getNextXfer is one action per way it returns.                           *)
(***************************************************************************)
EXTENDS TxQueues

CONSTANTS
  Channel,         \* the open channels; a smaller number goes first
  TxRoom,          \* SLAY2_FIFO_SIZE
  LoadSizes,       \* how much a channel may be found to hold (bound)
  PeerSeq,         \* sequence numbers the peer's frames carry (bound)
  UINT_MOD,        \* 2^32: unsigned int
  FIRST_TIMEOUT,   \* 3 + 30 + 1 + 2 ms
  BYTES_PER_MS,    \* 10
  RTX_TIMEOUT      \* SLAY2_TRANSMISSION_TIMEOUT

ASSUME ChannelAssumption == Channel \subseteq Nat
ASSUME LoadAssumption == TxRoom \in Nat /\ LoadSizes \subseteq 0 .. TxRoom
ASSUME PeerAssumption == PeerSeq \subseteq SeqNr
ASSUME TimeAssumption ==
  /\ UINT_MOD \in Nat \ {0} /\ BYTES_PER_MS \in Nat \ {0}
  /\ FIRST_TIMEOUT \in Nat /\ RTX_TIMEOUT \in Nat

VARIABLES
  dataBuffer,      \* _dataBuffer[b]: the frame encoded in it, or Blank
  dataFifo,        \* dataFifo[i]: which buffer slot i points to
  dataFifoTimeout, \* dataFifoTimeout[i]: [0] = at, [1] = limit
  dataFifoCount,
  ackBuffer, ackFifo, ackFifoCount,   \* the same for ACKs: a sequence number
  nackCount, txSeqNr,
  txCount, txMore, \* channel->txFifo.getCount() and channel->txMore
  clock,           \* getTime1ms()
  sent,            \* the frame the last call returned
  age,             \* ghost: ms since the pending frame in buffer b was last sent
  again,           \* ghost: the buffers whose pending frame has been repeated
  owed             \* ghost: the ACKs scheduled and not returned, oldest first

dataVars == <<dataBuffer, dataFifo, dataFifoTimeout, dataFifoCount, age, again>>
ackVars == <<ackBuffer, ackFifo, ackFifoCount, owed>>
channelVars == <<txCount, txMore>>
vars == <<dataVars, ackVars, channelVars, nackCount, txSeqNr, clock, sent>>

Slot == 0 .. DEPTH - 1
Uint == 0 .. UINT_MOD - 1
Limit == {RTX_TIMEOUT} \cup {FIRST_TIMEOUT + n \div BYTES_PER_MS : n \in 0 .. FRAME_PAYLOAD}

Blank == [kind |-> "blank"]
Nothing == [kind |-> "none"]
DataFrame(seq, ch, len) == [kind |-> "data", seq |-> seq, ch |-> ch, len |-> len]
AckFrame(seq) == [kind |-> "ack", seq |-> seq]
DataFrames == [kind : {"data"}, seq : SeqNr, ch : Channel, len : 1 .. FRAME_PAYLOAD]

TypeOK ==
  /\ dataBuffer \in [Slot -> DataFrames \cup {Blank}]
  /\ dataFifo \in [Slot -> Slot]
  /\ dataFifoTimeout \in [Slot -> [at : Uint, limit : Limit \cup {0}]]
  /\ dataFifoCount \in 0 .. DEPTH
  /\ ackBuffer \in [Slot -> SeqNr] /\ ackFifo \in [Slot -> Slot]
  /\ ackFifoCount \in 0 .. DEPTH
  /\ nackCount \in Uint /\ txSeqNr \in SeqNr /\ clock \in Uint
  /\ txCount \in [Channel -> 0 .. TxRoom] /\ txMore \in [Channel -> BOOLEAN]
  /\ sent \in DataFrames \cup [kind : {"ack"}, seq : SeqNr] \cup {Nothing}
  /\ age \in [Slot -> 0 .. UINT_MOD]
  /\ again \subseteq Slot
  /\ owed \in Seq(SeqNr) /\ Len(owed) = ackFifoCount

-----------------------------------------------------------------------------

Init ==
  /\ dataBuffer = [b \in Slot |-> Blank]
  /\ dataFifo = [i \in Slot |-> i]
  /\ dataFifoTimeout = [i \in Slot |-> [at |-> 0, limit |-> 0]]
  /\ ackBuffer = [b \in Slot |-> 0]
  /\ ackFifo = [i \in Slot |-> i]
  /\ dataFifoCount = 0 /\ ackFifoCount = 0 /\ nackCount = 0 /\ txSeqNr = 0
  /\ txCount = [ch \in Channel |-> 0]
  /\ txMore = [ch \in Channel |-> FALSE]
  /\ clock \in Uint
  /\ sent = Nothing
  /\ age = [b \in Slot |-> 0] /\ again = {} /\ owed = <<>>

\* The counters only: the pointers stay where the traffic so far has moved them.
Reset ==
  /\ dataFifoCount' = 0 /\ ackFifoCount' = 0 /\ nackCount' = 0 /\ txSeqNr' = 0
  /\ sent' = Nothing /\ owed' = <<>> /\ age' = [b \in Slot |-> 0] /\ again' = {}
  /\ UNCHANGED <<dataBuffer, dataFifo, dataFifoTimeout, ackBuffer, ackFifo,
                 channelVars, clock>>

\* Plausible slips, for mutation of the model.
KeepSlots(f) == f
RotateLosingBuffer(f) == [i \in Slot |-> IF i < DEPTH - 1 THEN f[i + 1] ELSE f[i]]

\* Slots move down by one; the last slot keeps what it had.
ShiftDown(f) == [i \in Slot |-> IF i < DEPTH - 1 THEN f[i + 1] ELSE f[i]]

\* (time1ms - at) > limit in unsigned arithmetic.
Exceeds(now, t) == (now - t.at) % UINT_MOD > t.limit
Overdue == dataFifoCount > 0 /\ Exceeds(clock, dataFifoTimeout[0])

IsReady(ch) == Ready(txCount[ch], txMore[ch])
IsFirstReady(ch) == IsReady(ch) /\ \A c \in Channel : c < ch => ~IsReady(c)

GetNextXferAck ==
  /\ ackFifoCount > 0
  /\ sent' = AckFrame(ackBuffer[ackFifo[0]])
  /\ ackFifo' = ShiftDown(ackFifo)
  /\ ackFifoCount' = ackFifoCount - 1
  /\ owed' = Tail(owed)
  /\ UNCHANGED <<dataVars, ackBuffer, channelVars, nackCount, txSeqNr, clock>>

GetNextXferRetransmit ==
  /\ ackFifoCount = 0 /\ Overdue
  /\ sent' = dataBuffer[dataFifo[0]]
  /\ dataFifoTimeout' = [dataFifoTimeout EXCEPT ![0] = [at |-> clock, limit |-> RTX_TIMEOUT]]
  /\ nackCount' = (nackCount + 1) % UINT_MOD
  /\ age' = [age EXCEPT ![dataFifo[0]] = 0] /\ again' = again \cup {dataFifo[0]}
  /\ UNCHANGED <<dataBuffer, dataFifo, dataFifoCount, ackVars, channelVars, txSeqNr, clock>>

GetNextXferCompose(ch) ==
  /\ ackFifoCount = 0 /\ ~Overdue /\ IsFirstReady(ch) /\ dataFifoCount < DEPTH
  /\ LET len == Least(txCount[ch], FRAME_PAYLOAD)
         frame == DataFrame(txSeqNr, ch, len)
         b == dataFifo[dataFifoCount]
     IN /\ dataBuffer' = [dataBuffer EXCEPT ![b] = frame]
        /\ dataFifoTimeout' = [dataFifoTimeout EXCEPT ![dataFifoCount] =
             [at |-> clock, limit |-> FIRST_TIMEOUT + len \div BYTES_PER_MS]]
        /\ txCount' = [txCount EXCEPT ![ch] = @ - len]
        /\ sent' = frame
        /\ age' = [age EXCEPT ![b] = 0] /\ again' = again \ {b}
  /\ txSeqNr' = NextSeq(txSeqNr)
  /\ dataFifoCount' = dataFifoCount + 1
  /\ UNCHANGED <<dataFifo, ackVars, txMore, nackCount, clock>>

\* Nothing to send, or a channel is ready and there is no slot for its frame: the
\* loop stops there, whatever the channels behind it hold.
GetNextXferNull ==
  /\ ackFifoCount = 0 /\ ~Overdue
  /\ (\A ch \in Channel : ~IsReady(ch)) \/ dataFifoCount >= DEPTH
  /\ sent' = Nothing
  /\ UNCHANGED <<dataVars, ackVars, channelVars, nackCount, txSeqNr, clock>>

\* A plausible slip, for mutation of the model: the limits stay in their slots.
ShiftTimesOnly(f) ==
  [i \in Slot |-> [f[i] EXCEPT !.at = IF i < DEPTH - 1 THEN f[i + 1].at ELSE 0]]

\* The acknowledged slot goes to the end of the array.
Rotate(f) == [i \in Slot |-> IF i < DEPTH - 1 THEN f[i + 1] ELSE f[0]]

ShiftTimeouts(f) == [ShiftDown(f) EXCEPT ![DEPTH - 1] = [at |-> 0, limit |-> 0]]

AcknowledgeXfer(seqNr) ==
  /\ IF dataFifoCount # 0 /\ dataBuffer[dataFifo[0]].seq = seqNr
     THEN /\ dataBuffer' = [dataBuffer EXCEPT ![dataFifo[0]] = Blank]
          /\ dataFifo' = Rotate(dataFifo)
          /\ dataFifoTimeout' = ShiftTimeouts(dataFifoTimeout)
          /\ dataFifoCount' = dataFifoCount - 1
          /\ nackCount' = 0
          /\ age' = [age EXCEPT ![dataFifo[0]] = 0] /\ again' = again \ {dataFifo[0]}
     ELSE UNCHANGED <<dataVars, nackCount>>
  /\ sent' = Nothing
  /\ UNCHANGED <<ackVars, channelVars, txSeqNr, clock>>

ScheduleAck(seqNr) ==
  /\ IF ackFifoCount < DEPTH
     THEN /\ ackBuffer' = [ackBuffer EXCEPT ![ackFifo[ackFifoCount]] = seqNr]
          /\ ackFifoCount' = ackFifoCount + 1
          /\ owed' = Append(owed, seqNr)
     ELSE UNCHANGED <<ackBuffer, ackFifoCount, owed>>
  /\ sent' = Nothing
  /\ UNCHANGED <<dataVars, ackFifo, channelVars, nackCount, txSeqNr, clock>>

\* Between two calls of task() an application may have sent to, flushed or closed
\* and reopened a channel.
Load(ch, n, more) ==
  /\ txCount' = [txCount EXCEPT ![ch] = n]
  /\ txMore' = [txMore EXCEPT ![ch] = more]
  /\ sent' = Nothing
  /\ UNCHANGED <<dataVars, ackVars, nackCount, txSeqNr, clock>>

Tick ==
  /\ clock' = (clock + 1) % UINT_MOD
  /\ age' = [b \in Slot |-> IF \E i \in 0 .. dataFifoCount - 1 : dataFifo[i] = b
                             THEN Least(age[b] + 1, UINT_MOD) ELSE 0]
  /\ sent' = Nothing
  /\ UNCHANGED <<dataBuffer, dataFifo, dataFifoTimeout, dataFifoCount, again, ackVars,
                 channelVars, nackCount, txSeqNr>>

GetNextXfer ==
  \/ GetNextXferAck \/ GetNextXferRetransmit \/ GetNextXferNull
  \/ \E ch \in Channel : GetNextXferCompose(ch)

Next ==
  \/ Reset \/ GetNextXfer \/ Tick
  \/ \E seqNr \in SeqNr : AcknowledgeXfer(seqNr)
  \/ \E seqNr \in PeerSeq : ScheduleAck(seqNr)
  \/ \E ch \in Channel, n \in LoadSizes, more \in BOOLEAN : Load(ch, n, more)

Spec == Init /\ [][Next]_vars

-----------------------------------------------------------------------------

\* No two slots of dataFifo ever point to the same buffer, however frames were
\* composed, acknowledged and thrown away by resets: composing a frame never
\* overwrites one that is still waiting for its ACK.
DataSlotsDistinct == \A i, j \in Slot : dataFifo[i] = dataFifo[j] => i = j

\* What the code must wait for the frame in buffer b.
LimitOf(b) ==
  IF b \in again THEN RTX_TIMEOUT ELSE FIRST_TIMEOUT + dataBuffer[b].len \div BYTES_PER_MS

\* The timeout of slot i is the one of the frame slot i points to, however slots have
\* moved: its limit is that of a repetition or follows from the frame's own length, and
\* unsigned subtraction measures the time since that frame was last on the line across
\* the wrap of the clock, up to one full turn.
TimeoutFollowsFrame ==
  \A i \in 0 .. dataFifoCount - 1 :
    LET b == dataFifo[i]
        timeout == dataFifoTimeout[i]
    IN /\ age[b] < UINT_MOD => (clock - timeout.at) % UINT_MOD = age[b]
       /\ timeout.limit = LimitOf(b)

\* The pending frames carry the last dataFifoCount sequence numbers in order, across
\* the wrap from SEQ_MOD - 1 to 0 and across resets.
PendingSeqWindow ==
  \A i \in 0 .. dataFifoCount - 1 :
    LET frame == dataBuffer[dataFifo[i]] IN
      frame # Blank /\ (frame.seq + dataFifoCount - i) % SEQ_MOD = txSeqNr

\* The ACK in slot i is one that was scheduled, at place i or later: the shared
\* buffers make the queue forget old ACKs and repeat new ones, they never make it
\* send an ACK nobody asked for or one for an older frame.
AckNeverOlder ==
  \A i \in 0 .. ackFifoCount - 1 :
    \E j \in i .. ackFifoCount - 1 : ackBuffer[ackFifo[i]] = owed[j + 1]

\* slay2_scheduler.cpp:66 "get the oldest ack frame": what is at the head of the
\* queue is the ACK that was scheduled first.
OldestAckFirst == ackFifoCount > 0 => ackBuffer[ackFifo[0]] = Head(owed)

\* The pointer arrays behave like the queues of QueueScheduler, the sharing of ACK
\* buffers included.
Pending == [i \in 1 .. dataFifoCount |-> dataBuffer[dataFifo[i - 1]]]
Acks == [i \in 1 .. ackFifoCount |-> ackBuffer[ackFifo[i - 1]]]

Queues == INSTANCE QueueScheduler
            WITH pending <- Pending, acks <- Acks, ackShift <- ackFifo[0]

ImplementsQueues == Queues!Spec
=============================================================================
