--------------------------- MODULE Slay2Nullmodem ---------------------------
(***************************************************************************)
(* One driver connected to itself through a Slay2Fifo, and the demo that   *)
(* runs on it: a text is sent on channel 0, every receiver forwards what   *)
(* it is given to the next channel, and a test ends when the last channel  *)
(* has received the whole text.  There is one thread, the line damages     *)
(* nothing, and the clock goes on by 1 ms whenever it is read.             *)
(***************************************************************************)
EXTENDS TxQueues
LOCAL INSTANCE SequencesExt

CONSTANTS
  LastChannel,     \* APP_CH_CNT - 1
  FIFO_SIZE,       \* SLAY2_FIFO_SIZE, of the channels and of the wire
  Lengths,         \* lengths of the text
  TestCount        \* APP_TEST_CNT

ASSUME ChannelAssumption == LastChannel \in Nat
ASSUME LengthAssumption == FIFO_SIZE \in Nat /\ Lengths \subseteq 1 .. FIFO_SIZE
ASSUME CountAssumption == TestCount \in Nat
ASSUME WireAssumption == FIFO_SIZE >= 24 + (8 * (FRAME_PAYLOAD + 6) + 6) \div 7 + 1

VARIABLES
  at,                        \* "main", "rx" inside task(), or "closed"
  test, dummyLen,            \* tests begun, length of the text
  syncSent, syncCount,
  fifo,                      \* fifo[ch]: the places in the text of the bytes it holds
  pending, age,              \* data frames waiting for their ACK, and the time since then
  limit,                     \* the timeout of the oldest pending frame and of the others
  acks, ackShift, txSeqNr, nackCount, nextExp,
  wire,                      \* frames in the wire's fifo
  got                        \* got[ch]: what ch's receiver has been given in this test

timeouts == <<age, limit>>
sync == <<syncSent, syncCount>>
vars == <<at, test, dummyLen, sync, fifo, pending, timeouts, acks, ackShift, txSeqNr,
          nackCount, nextExp, wire, got>>

Channel == 0 .. LastChannel
Text == [i \in 1 .. dummyLen |-> i]

DataFrame(seq, ch, data) == [kind |-> "data", seq |-> seq, ch |-> ch, data |-> data]
AckFrame(seq) == [kind |-> "ack", seq |-> seq]
Sync == [kind |-> "sync"]

\* Characters of a frame: 7 or 6 bits in each, and the end mark.
Ceiling(a, b) == (a + b - 1) \div b
Chars(x) ==
  CASE x.kind = "data" -> Ceiling(8 * (Len(x.data) + 6), 7) + 1
    [] x.kind = "ack" -> Ceiling(8 * 5, 6) + 1
    [] OTHER -> 1

\* What the wire holds: getTxCount() and getRxCount() are the same fifo's count.
WireCount == FoldLeft(LAMBDA n, x : n + Chars(x), 0, wire)

TypeOK ==
  /\ at \in {"main", "rx", "closed"}
  /\ test \in 0 .. TestCount /\ dummyLen \in Lengths
  /\ syncSent \in BOOLEAN /\ syncCount \in 0 .. 2
  /\ \A ch \in Channel : Len(fifo[ch]) <= FIFO_SIZE
  /\ Len(age) = Len(pending) /\ Len(limit) = Len(pending) /\ Len(pending) <= DEPTH
  /\ Len(acks) <= DEPTH /\ ackShift \in 0 .. DEPTH - 1
  /\ txSeqNr \in SeqNr /\ nextExp \in SeqNr
  /\ WireCount <= FIFO_SIZE

Init ==
  /\ at = "main" /\ test = 0 /\ dummyLen \in Lengths
  /\ syncSent = FALSE /\ syncCount = 0
  /\ fifo = [ch \in Channel |-> <<>>]
  /\ pending = <<>> /\ age = <<>> /\ limit = <<>>
  /\ acks = <<>> /\ ackShift = 0 /\ txSeqNr = 0 /\ nackCount = 0 /\ nextExp = 0
  /\ wire = <<>>
  /\ got = [ch \in Channel |-> <<>>]

-----------------------------------------------------------------------------
\* main()

\* A plausible slip, for mutation of the model: the last place of a fifo is not used.
SpareSpace(held) == FIFO_SIZE - 1 - Len(held)
FifoSpace(held) == FIFO_SIZE - Len(held)

\* send(): what does not fit is not taken, and the demo does not look at the result.
Send(fifos, ch, data) ==
  [fifos EXCEPT ![ch] = @ \o SubSeq(data, 1, Least(Len(data), FifoSpace(@)))]

Done == test > 0 /\ got[LastChannel] = Text

StartTest ==
  /\ at = "main" /\ test < TestCount /\ (test = 0 \/ Done)
  /\ test' = test + 1
  /\ got' = [ch \in Channel |-> <<>>]
  /\ fifo' = Send(fifo, 0, Text)
  /\ UNCHANGED <<at, dummyLen, sync, pending, timeouts, acks, ackShift, txSeqNr, nackCount, nextExp, wire>>

\* The channels are closed and what they hold is gone.
CloseAll ==
  /\ at = "main" /\ test = TestCount /\ Done
  /\ at' = "closed" /\ fifo' = [ch \in Channel |-> <<>>]
  /\ UNCHANGED <<test, dummyLen, sync, pending, timeouts, acks, ackShift, txSeqNr, nackCount, nextExp, wire, got>>

-----------------------------------------------------------------------------
\* task()

ResetProtocol ==
  /\ pending' = <<>> /\ age' = <<>> /\ limit' = <<>> /\ acks' = <<>>
  /\ txSeqNr' = 0 /\ nackCount' = 0 /\ nextExp' = 0

\* The wire is empty before the first SYNC and takes all 5.
TaskBegin ==
  /\ at = "main" /\ test > 0 /\ ~Done
  /\ at' = "rx"
  /\ IF syncSent
     THEN UNCHANGED <<syncSent, pending, timeouts, acks, txSeqNr, nackCount, nextExp, wire>>
     ELSE wire' = wire \o [i \in 1 .. 5 |-> Sync] /\ syncSent' = TRUE /\ ResetProtocol
  /\ UNCHANGED <<test, dummyLen, syncCount, fifo, ackShift, got>>

Take(kind) ==
  /\ at = "rx" /\ wire # <<>> /\ Head(wire).kind = kind
  /\ wire' = Tail(wire)
  /\ UNCHANGED <<at, test, dummyLen, syncSent, ackShift>>

\* The driver's own SYNCs come back to it.
ReceiveSync ==
  /\ Take("sync")
  /\ syncCount' = (syncCount + 1) % 3
  /\ IF syncCount + 1 = 3 THEN ResetProtocol
     ELSE UNCHANGED <<pending, timeouts, acks, txSeqNr, nackCount, nextExp>>
  /\ UNCHANGED <<fifo, got>>

Matches == Head(wire).seq = Head(pending).seq

ReceiveAck ==
  /\ Take("ack") /\ syncCount' = 0
  /\ IF pending # <<>> /\ Matches
     THEN /\ pending' = Tail(pending) /\ age' = Tail(age) /\ limit' = Tail(limit)
          /\ nackCount' = 0
     ELSE UNCHANGED <<pending, timeouts, nackCount>>
  /\ UNCHANGED <<acks, txSeqNr, nextExp, fifo, got>>

\* The receiver of ch is called and sends on the next channel, inside doReception.
Forward(ch, data) == IF ch < LastChannel THEN Send(fifo, ch + 1, data) ELSE fifo

ReceiveData ==
  LET frame == Head(wire) IN
    /\ Take("data") /\ syncCount' = 0
    /\ acks' = PutAck(acks, ackShift, AckFrame(frame.seq))
    /\ IF frame.seq = nextExp
       THEN /\ nextExp' = NextSeq(nextExp)
            /\ got' = [got EXCEPT ![frame.ch] = @ \o frame.data]
            /\ fifo' = Forward(frame.ch, frame.data)
       ELSE UNCHANGED <<nextExp, got, fifo>>
    /\ UNCHANGED <<pending, timeouts, txSeqNr, nackCount>>

-----------------------------------------------------------------------------
\* doTransmission()

NoMoreInput == wire = <<>>

\* Reading the clock moves it.
Aged == [i \in 1 .. Len(age) |-> age[i] + 1]
Limit(n) == 3 + (n \div 10) + 30 + 1 + 2
TRANSMISSION_TIMEOUT == 60

IsReady(ch) == Ready(Len(fifo[ch]), FALSE)
FirstReady == CHOOSE ch \in Channel : IsReady(ch) /\ \A c \in 0 .. ch - 1 : ~IsReady(c)

Xfer ==
  IF acks # <<>> THEN "ack"
  ELSE IF pending # <<>> /\ Aged[1] > limit[1] THEN "repetition"
  ELSE IF (\E ch \in Channel : IsReady(ch)) /\ Len(pending) < DEPTH THEN "data"
  ELSE "nothing"

NewData == SubSeq(fifo[FirstReady], 1, Least(Len(fifo[FirstReady]), FRAME_PAYLOAD))

\* There is room for it behind the 24 characters that the gate allows.
Transmit(frame) == wire' = Append(wire, frame)

TransmitXfer ==
  CASE Xfer = "ack" ->
         /\ Transmit(Head(acks)) /\ acks' = Tail(acks) /\ ackShift' = ShiftAfterPop(ackShift)
         /\ age' = Aged /\ UNCHANGED <<fifo, pending, limit, txSeqNr, nackCount>>
    [] Xfer = "repetition" ->
         /\ Transmit(Head(pending)) /\ nackCount' = nackCount + 1
         /\ age' = [Aged EXCEPT ![1] = 0] /\ limit' = [limit EXCEPT ![1] = TRANSMISSION_TIMEOUT]
         /\ UNCHANGED <<fifo, pending, acks, ackShift, txSeqNr>>
    [] Xfer = "data" ->
         /\ LET frame == DataFrame(txSeqNr, FirstReady, NewData) IN
              Transmit(frame) /\ pending' = Append(pending, frame)
         /\ age' = Append(Aged, 0) /\ limit' = Append(limit, Limit(Len(NewData)))
         /\ fifo' = [fifo EXCEPT ![FirstReady] = SubSeq(@, Len(NewData) + 1, Len(@))]
         /\ txSeqNr' = NextSeq(txSeqNr)
         /\ UNCHANGED <<acks, ackShift, nackCount>>
    [] Xfer = "nothing" ->
         age' = Aged /\ UNCHANGED <<fifo, pending, limit, acks, ackShift, txSeqNr, nackCount, wire>>

DoTransmission ==
  /\ at = "rx" /\ NoMoreInput
  /\ at' = "main"
  /\ IF WireCount <= 24 THEN TransmitXfer
     ELSE UNCHANGED <<fifo, pending, timeouts, acks, ackShift, txSeqNr, nackCount, wire>>
  /\ UNCHANGED <<test, dummyLen, sync, nextExp, got>>

-----------------------------------------------------------------------------

Next ==
  \/ StartTest \/ CloseAll
  \/ TaskBegin \/ ReceiveSync \/ ReceiveAck \/ ReceiveData \/ DoTransmission

\* One thread runs main() to its end.
Spec == Init /\ [][Next]_vars /\ WF_vars(Next)

-----------------------------------------------------------------------------
\* Nothing is lost on the way: the text, and what a channel has received, has been
\* received by the next channel, is in a frame, or waits in its fifo, in this order.
\* task() receives everything before it sends: never are two frames with data on the wire.
Carrying(ch) == {i \in 1 .. Len(wire) : wire[i].kind = "data" /\ wire[i].ch = ch}
OnTheWay(ch) == IF Carrying(ch) = {} THEN <<>> ELSE wire[CHOOSE i \in Carrying(ch) : TRUE].data

Source(ch) == IF ch = 0 THEN Text ELSE got[ch - 1]

NothingLost ==
  at # "closed" /\ test > 0 =>
    /\ \A i, j \in 1 .. Len(wire) : wire[i].kind = "data" /\ wire[j].kind = "data" => i = j
    /\ \A ch \in Channel : Source(ch) = got[ch] \o OnTheWay(ch) \o fifo[ch]

\* Every test ends with the whole text on the last channel, and the demo with it.
DemoEnds == <>(at = "closed")

=============================================================================
