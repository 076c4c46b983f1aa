--------------------------- MODULE QueueScheduler ---------------------------
(***************************************************************************)
(* What a Slay2TxScheduler looks like to the driver: two queues and a      *)
(* sequence counter.  Which buffer holds a frame and how the timeout of a  *)
(* pending frame is measured are left out; a pending frame may be repeated *)
(* at any time.  Slay2Link gives each station this scheduler.              *)
(***************************************************************************)
EXTENDS TxQueues

CONSTANTS Channel,   \* channel numbers, the smaller the more urgent
          TxRoom     \* bytes a channel's txFifo holds

VARIABLES
  pending,           \* data frames sent and not yet acknowledged, oldest first
  acks, ackShift,    \* ACKs to send, and how far the slots have moved (TxQueues)
  txSeqNr,
  txCount, txMore,   \* what the channels hold
  sent               \* what the last call handed to the line

vars == <<pending, acks, ackShift, txSeqNr, txCount, txMore, sent>>

Nothing == [kind |-> "none"]
DataFrame(seq, ch, len) == [kind |-> "data", seq |-> seq, ch |-> ch, len |-> len]
AckFrame(seq) == [kind |-> "ack", seq |-> seq]

Init ==
  /\ pending = <<>> /\ acks = <<>> /\ ackShift = 0 /\ txSeqNr = 0
  /\ txCount = [ch \in Channel |-> 0]
  /\ txMore = [ch \in Channel |-> FALSE]
  /\ sent = Nothing

Reset ==
  /\ pending' = <<>> /\ acks' = <<>> /\ txSeqNr' = 0 /\ sent' = Nothing
  /\ UNCHANGED <<ackShift, txCount, txMore>>

IsReady(ch) == Ready(txCount[ch], txMore[ch])
IsFirstReady(ch) == IsReady(ch) /\ \A c \in Channel : c < ch => ~IsReady(c)

SendAck ==
  /\ acks # <<>>
  /\ sent' = AckFrame(Head(acks))
  /\ acks' = Tail(acks)
  /\ ackShift' = ShiftAfterPop(ackShift)
  /\ UNCHANGED <<pending, txSeqNr, txCount, txMore>>

Retransmit ==
  /\ acks = <<>> /\ pending # <<>>
  /\ sent' = Head(pending)
  /\ UNCHANGED <<pending, acks, ackShift, txSeqNr, txCount, txMore>>

Compose(ch) ==
  /\ acks = <<>> /\ IsFirstReady(ch) /\ Len(pending) < DEPTH
  /\ LET len == Least(txCount[ch], FRAME_PAYLOAD) IN
       /\ pending' = Append(pending, DataFrame(txSeqNr, ch, len))
       /\ txCount' = [txCount EXCEPT ![ch] = @ - len]
       /\ sent' = DataFrame(txSeqNr, ch, len)
  /\ txSeqNr' = NextSeq(txSeqNr)
  /\ UNCHANGED <<acks, ackShift, txMore>>

NoFrame ==
  /\ acks = <<>>
  /\ (\A ch \in Channel : ~IsReady(ch)) \/ Len(pending) >= DEPTH
  /\ sent' = Nothing
  /\ UNCHANGED <<pending, acks, ackShift, txSeqNr, txCount, txMore>>

Acknowledge(seq) ==
  /\ IF pending # <<>> /\ Head(pending).seq = seq THEN pending' = Tail(pending)
     ELSE UNCHANGED pending
  /\ sent' = Nothing
  /\ UNCHANGED <<acks, ackShift, txSeqNr, txCount, txMore>>

ScheduleAck(seq) ==
  /\ acks' = PutAck(acks, ackShift, seq)
  /\ sent' = Nothing
  /\ UNCHANGED <<pending, ackShift, txSeqNr, txCount, txMore>>

Load(ch) ==
  /\ txCount' \in {[txCount EXCEPT ![ch] = n] : n \in 0 .. TxRoom}
  /\ txMore' \in {[txMore EXCEPT ![ch] = m] : m \in BOOLEAN}
  /\ sent' = Nothing
  /\ UNCHANGED <<pending, acks, ackShift, txSeqNr>>

Wait == sent' = Nothing /\ UNCHANGED <<pending, acks, ackShift, txSeqNr, txCount, txMore>>

Next ==
  \/ Reset \/ SendAck \/ Retransmit \/ NoFrame \/ Wait
  \/ \E ch \in Channel : Compose(ch) \/ Load(ch)
  \/ \E seq \in SeqNr : Acknowledge(seq) \/ ScheduleAck(seq)

Spec == Init /\ [][Next]_vars
=============================================================================
