------------------------------ MODULE TxQueues ------------------------------
(***************************************************************************)
(* The decisions and the queue discipline of Slay2TxScheduler as           *)
(* operators on plain sequences.  Slay2TxScheduler implements them with    *)
(* arrays of buffer pointers, Slay2Link uses them at both stations.        *)
(***************************************************************************)
EXTENDS Integers, Sequences

CONSTANTS
  DEPTH,          \* SLAY2_SCHEDULER_FIFO_DEPTH
  SEQ_MOD,        \* 2^8: sequence numbers are unsigned char
  FRAME_PAYLOAD   \* SLAY2_FRAME_PAYLOAD

\* "shall not be less than 3", and fewer frames in flight than sequence numbers.
ASSUME DepthAssumption == DEPTH \in Nat /\ DEPTH >= 3
ASSUME SeqAssumption == SEQ_MOD \in Nat /\ SEQ_MOD > DEPTH
ASSUME PayloadAssumption == FRAME_PAYLOAD \in Nat \ {0}

SeqNr == 0 .. SEQ_MOD - 1

Least(a, b) == IF a < b THEN a ELSE b

\* Plausible slips, for mutation of the model: a counter wider than unsigned char
\* and the more flag forgotten.
WideSeq(seq) == seq + 1
OnlyFullFrames(count, more) == count >= FRAME_PAYLOAD

\* seq++ on an unsigned char.
NextSeq(seq) == (seq + 1) % SEQ_MOD

\* A channel is worth a frame when it can fill one, or when what it holds is
\* everything the application will send.
Ready(count, more) == count >= FRAME_PAYLOAD \/ (count > 0 /\ ~more)

\* getNextXfer pops an ACK by shifting the array of pointers down and leaves the
\* last slot as it was, so after shift pops slot i points to buffer i + shift,
\* and the slots beyond share the last buffer.
AckBuffer(shift, i) == Least(i + shift, DEPTH - 1)
ShiftAfterPop(shift) == Least(shift + 1, DEPTH - 1)

\* scheduleAck writes through the pointer of the first free slot: a queued ACK in
\* the same buffer is overwritten.  A full queue drops the new ACK.
PutAck(acks, shift, ack) ==
  IF Len(acks) >= DEPTH THEN acks
  ELSE [i \in 1 .. Len(acks) + 1 |->
          IF AckBuffer(shift, i - 1) = AckBuffer(shift, Len(acks)) THEN ack ELSE acks[i]]
=============================================================================
