----------------------------- MODULE Slay2Link -----------------------------
(***************************************************************************)
(* Two stations A and B, each running Slay2::task over the queues of its   *)
(* scheduler (TxQueues), connected by one serial line per direction.       *)
(*                                                                         *)
(* A line carries characters.  The characters of a frame up to its end are *)
(* one symbol, the end character is a symbol of its own, so a frame can    *)
(* lose its end, be damaged, or be cut off from its end by what the        *)
(* receiver does in between.  The CRC detects every damage.                *)
(***************************************************************************)
EXTENDS TxQueues

CONSTANTS
  Channel,      \* channels open with a receiver at both stations; smaller goes first
  TxRoom,       \* SLAY2_FIFO_SIZE
  Senders,      \* stations whose applications send (bound)
  SendSizes,    \* lengths an application passes to send() (bound)
  MaxWritten,   \* bytes an application sends on one channel in all (bound)
  SyncWrites,   \* what transmit() may return for the 5 SYNC characters
  MaxErrors,    \* characters lost or damaged, short writes and reopened ports in all (bound)
  LineBound     \* symbols on a line at which a station does not add a frame (bound)

Station == {"A", "B"}
Other(e) == IF e = "A" THEN "B" ELSE "A"

ASSUME ChannelAssumption == Channel \subseteq Nat
ASSUME RoomAssumption == TxRoom \in Nat /\ MaxWritten \in Nat
ASSUME SendAssumption == Senders \subseteq Station /\ SendSizes \subseteq Nat
ASSUME WriteAssumption == SyncWrites \subseteq 0 .. 5
ASSUME BoundAssumption == MaxErrors \in Nat /\ LineBound \in Nat

VARIABLES
  task,                \* task[e]: "idle", or "rx" while e is inside task()
  syncSent, syncCount,
  txCount, txMore,     \* what e's channels hold, and the more flag of the last send
  written,             \* written[e][ch]: bytes e's channel ch has accepted so far
  pending, acks, ackShift, txSeqNr,   \* e's scheduler
  rxAck, rxData,       \* e's decoders: Empty, Garbled, or the frame they hold
  nextExp,             \* nextExpRxSeqNr
  line,                \* line[e]: symbols on their way from e to the other station
  errors,              \* faults so far
  log, handed, acked   \* history: frames composed by e, handed to e's
                       \* application, and taken off e's window by an ACK

schedulerVars == <<pending, acks, ackShift, txSeqNr>>
channelVars == <<txCount, txMore, written>>
rxVars == <<rxAck, rxData, nextExp>>
history == <<log, handed, acked>>
vars == <<task, syncSent, syncCount, channelVars, schedulerVars, rxVars, line, errors, history>>

-----------------------------------------------------------------------------

Sync == [kind |-> "sync"]
EndOfData == [kind |-> "endOfData"]
EndOfAck == [kind |-> "endOfAck"]
Noise == {[kind |-> k] : k \in {"dataNoise", "ackNoise", "noise"}}

Empty == [kind |-> "empty"]
Garbled == [kind |-> "garbled"]

\* A payload is the bytes from .. from + len - 1 of what was sent on channel ch.
Payload == [ch : Channel, from : 0 .. MaxWritten, len : 1 .. FRAME_PAYLOAD]

\* A data frame with its place in log, and an ACK with the place of the frame it
\* answers and the number of frames handed over by then: no and got are ghosts.
DataFrame(seq, no, payload) == [kind |-> "data", seq |-> seq, no |-> no, payload |-> payload]
AckFrame(seq, no, got) == [kind |-> "ack", seq |-> seq, no |-> no, got |-> got]

DataFrames == [kind : {"data"}, seq : SeqNr, no : Nat \ {0}, payload : Payload]
AckFrames == [kind : {"ack"}, seq : SeqNr, no : Nat, got : Nat]
Symbol == DataFrames \cup AckFrames \cup {Sync, EndOfData, EndOfAck} \cup Noise

TypeOK ==
  /\ task \in [Station -> {"idle", "rx"}]
  /\ syncSent \in [Station -> BOOLEAN] /\ syncCount \in [Station -> 0 .. 2]
  /\ txCount \in [Station -> [Channel -> 0 .. TxRoom]]
  /\ txMore \in [Station -> [Channel -> BOOLEAN]]
  /\ written \in [Station -> [Channel -> 0 .. MaxWritten]]
  /\ \A e \in Station, ch \in Channel : txCount[e][ch] <= written[e][ch]
  /\ pending \in [Station -> Seq(DataFrames)]
  /\ acks \in [Station -> Seq(AckFrames)]
  /\ ackShift \in [Station -> 0 .. DEPTH - 1]
  /\ txSeqNr \in [Station -> SeqNr] /\ nextExp \in [Station -> SeqNr]
  /\ rxAck \in [Station -> AckFrames \cup {Empty, Garbled}]
  /\ rxData \in [Station -> DataFrames \cup {Empty, Garbled}]
  /\ line \in [Station -> Seq(Symbol)]
  /\ errors \in 0 .. MaxErrors
  /\ log \in [Station -> Seq(Payload)]
  /\ handed \in [Station -> Seq(Payload)]
  /\ acked \in [Station -> Seq(Payload)]

-----------------------------------------------------------------------------

Init ==
  /\ task = [e \in Station |-> "idle"]
  /\ syncSent = [e \in Station |-> FALSE] /\ syncCount = [e \in Station |-> 0]
  /\ txCount = [e \in Station |-> [ch \in Channel |-> 0]]
  /\ txMore = [e \in Station |-> [ch \in Channel |-> FALSE]]
  /\ written = [e \in Station |-> [ch \in Channel |-> 0]]
  /\ pending = [e \in Station |-> <<>>] /\ acks = [e \in Station |-> <<>>]
  /\ ackShift = [e \in Station |-> 0] /\ txSeqNr = [e \in Station |-> 0]
  /\ rxAck = [e \in Station |-> Empty] /\ rxData = [e \in Station |-> Empty]
  /\ nextExp = [e \in Station |-> 0]
  /\ line = [e \in Station |-> <<>>] /\ errors = 0
  /\ log = [e \in Station |-> <<>>] /\ handed = [e \in Station |-> <<>>]
  /\ acked = [e \in Station |-> <<>>]

\* send(): push until the fifo is full, and take over the flag even if some or all
\* of the bytes were refused.
Send(e, ch, len, more) ==
  LET accepted == Least(len, TxRoom - txCount[e][ch]) IN
    /\ task[e] = "idle"
    /\ written[e][ch] + accepted <= MaxWritten
    /\ txCount' = [txCount EXCEPT ![e][ch] = @ + accepted]
    /\ written' = [written EXCEPT ![e][ch] = @ + accepted]
    /\ txMore' = [txMore EXCEPT ![e][ch] = more]
    /\ UNCHANGED <<task, syncSent, syncCount, schedulerVars, rxVars, line, errors, history>>

\* What task() does before its first SYNC is out, and doReception on the third SYNC
\* in a row: forget the traffic of the past.  The positions of the ACK slots stay.
ResetProtocol(e) ==
  /\ pending' = [pending EXCEPT ![e] = <<>>]
  /\ acks' = [acks EXCEPT ![e] = <<>>]
  /\ txSeqNr' = [txSeqNr EXCEPT ![e] = 0]
  /\ rxAck' = [rxAck EXCEPT ![e] = Empty]
  /\ rxData' = [rxData EXCEPT ![e] = Empty]
  /\ nextExp' = [nextExp EXCEPT ![e] = 0]

Syncs(n) == [i \in 1 .. n |-> Sync]

TaskBegin(e) ==
  /\ task[e] = "idle"
  /\ task' = [task EXCEPT ![e] = "rx"]
  /\ \/ /\ syncSent[e]
        /\ UNCHANGED <<syncSent, line, pending, acks, txSeqNr, rxVars>>
     \/ /\ ~syncSent[e]
        /\ \E n \in SyncWrites :
             /\ line' = [line EXCEPT ![e] = @ \o Syncs(n)]
             /\ \/ n >= 5 /\ syncSent' = [syncSent EXCEPT ![e] = TRUE] /\ ResetProtocol(e)
                \/ n < 5 /\ UNCHANGED <<syncSent, pending, acks, txSeqNr, rxVars>>
  /\ UNCHANGED <<syncCount, channelVars, ackShift, errors, history>>

-----------------------------------------------------------------------------
\* doReception: one action per pass of its loop.

Incoming(e) == line[Other(e)]

\* Any character but a SYNC ends a run of SYNCs.
Take(e, kinds) ==
  /\ task[e] = "rx" /\ Incoming(e) # <<>>
  /\ Head(Incoming(e)).kind \in kinds
  /\ line' = [line EXCEPT ![Other(e)] = Tail(@)]
  /\ UNCHANGED <<task, syncSent, channelVars, ackShift, errors, log>>

ClearSyncCount(e) == syncCount' = [syncCount EXCEPT ![e] = 0]

\* A plausible slip, for mutation of the model: two SYNCs are enough.
HastyReceiveSync(e) ==
  /\ Take(e, {"sync"})
  /\ \/ syncCount[e] + 1 >= 2 /\ ClearSyncCount(e) /\ ResetProtocol(e)
     \/ /\ syncCount[e] + 1 < 2
        /\ syncCount' = [syncCount EXCEPT ![e] = @ + 1]
        /\ UNCHANGED <<pending, acks, txSeqNr, rxVars>>
  /\ UNCHANGED <<handed, acked>>

ReceiveSync(e) ==
  /\ Take(e, {"sync"})
  /\ \/ /\ syncCount[e] + 1 >= 3
        /\ ClearSyncCount(e) /\ ResetProtocol(e)
     \/ /\ syncCount[e] + 1 < 3
        /\ syncCount' = [syncCount EXCEPT ![e] = @ + 1]
        /\ UNCHANGED <<pending, acks, txSeqNr, rxVars>>
  /\ UNCHANGED <<handed, acked>>

\* The decoder holds an ACK frame only if it was empty when the frame arrived.
ReceiveAck(e) ==
  /\ Take(e, {"ack", "ackNoise"}) /\ ClearSyncCount(e)
  /\ rxAck' = [rxAck EXCEPT ![e] =
       IF @ = Empty /\ Head(Incoming(e)).kind = "ack" THEN Head(Incoming(e)) ELSE Garbled]
  /\ UNCHANGED <<pending, acks, txSeqNr, rxData, nextExp, handed, acked>>

\* Plausible slips, for mutation of the model.
MatchesAny(e) == rxAck[e].kind = "ack" /\ pending[e] # <<>>
AnswersExpected(e) == rxData[e].kind = "data" /\ rxData[e].seq = nextExp[e]
ExpectsAny(e) == rxData[e].kind = "data"
OverfullWindow(e) == Len(pending[e]) <= DEPTH

AckMatches(e) ==
  /\ rxAck[e].kind = "ack" /\ pending[e] # <<>>
  /\ Head(pending[e]).seq = rxAck[e].seq

ReceiveEndOfAck(e) ==
  /\ Take(e, {"endOfAck"}) /\ ClearSyncCount(e)
  /\ \/ /\ AckMatches(e)
        /\ pending' = [pending EXCEPT ![e] = Tail(@)]
        /\ acked' = [acked EXCEPT ![e] = Append(@, Head(pending[e]).payload)]
     \/ ~AckMatches(e) /\ UNCHANGED <<pending, acked>>
  /\ rxAck' = [rxAck EXCEPT ![e] = Empty]
  /\ UNCHANGED <<acks, txSeqNr, rxData, nextExp, handed>>

\* A receive buffer that holds a frame of maximum size is full: what follows the
\* frame is dropped and the frame stays intact.  Any other frame is spoilt.
IsFull(frame) == frame.kind = "data" /\ frame.payload.len = FRAME_PAYLOAD

ReceiveData(e) ==
  /\ Take(e, {"data", "dataNoise"}) /\ ClearSyncCount(e)
  /\ \/ IsFull(rxData[e]) /\ UNCHANGED rxData
     \/ /\ ~IsFull(rxData[e])
        /\ rxData' = [rxData EXCEPT ![e] =
             IF @ = Empty /\ Head(Incoming(e)).kind = "data" THEN Head(Incoming(e))
             ELSE Garbled]
  /\ UNCHANGED <<pending, acks, txSeqNr, rxAck, nextExp, handed, acked>>

Answers(e) == rxData[e].kind = "data"
IsExpected(e) == rxData[e].kind = "data" /\ rxData[e].seq = nextExp[e]

\* Every intact frame is answered, only the expected one is handed over.
ReceiveEndOfData(e) ==
  /\ Take(e, {"endOfData"}) /\ ClearSyncCount(e)
  /\ \/ /\ IsExpected(e)
        /\ handed' = [handed EXCEPT ![e] = Append(@, rxData[e].payload)]
        /\ nextExp' = [nextExp EXCEPT ![e] = NextSeq(@)]
     \/ ~IsExpected(e) /\ UNCHANGED <<handed, nextExp>>
  /\ acks' = [acks EXCEPT ![e] =
       IF Answers(e)
       THEN PutAck(@, ackShift[e], AckFrame(rxData[e].seq, rxData[e].no, Len(handed'[e])))
       ELSE @]
  /\ rxData' = [rxData EXCEPT ![e] = Empty]
  /\ UNCHANGED <<pending, txSeqNr, rxAck, acked>>

ReceiveNoise(e) ==
  /\ Take(e, {"noise"}) /\ ClearSyncCount(e)
  /\ UNCHANGED <<pending, acks, txSeqNr, rxVars, handed, acked>>

Receive(e) ==
  \/ ReceiveSync(e) \/ ReceiveAck(e) \/ ReceiveEndOfAck(e)
  \/ ReceiveData(e) \/ ReceiveEndOfData(e) \/ ReceiveNoise(e)

-----------------------------------------------------------------------------
\* doTransmission, which ends task(): receive() has nothing more for the moment.

TaskEnd(e) ==
  /\ task[e] = "rx"
  /\ task' = [task EXCEPT ![e] = "idle"]
  /\ UNCHANGED <<syncSent, syncCount, written, rxData, nextExp, handed, acked>>

\* More than 24 characters are still to leave the station.
GateClosed(e) ==
  /\ TaskEnd(e) /\ line[e] # <<>>
  /\ UNCHANGED <<txCount, txMore, schedulerVars, rxAck, line, errors, log>>

\* What the port takes of a frame.  A closed port takes nothing, write() may take the
\* frame without its end or only its first characters; nobody looks at the result.
Part(frame) == [kind |-> IF frame.kind = "data" THEN "dataNoise" ELSE "ackNoise"]
Portions(frame, end) == {<<>>, <<Part(frame)>>, <<frame>>, <<frame, end>>}

\* Starting a transmission flushes the decoder of ACKs.
Transmit(e, frame, end) ==
  /\ TaskEnd(e) /\ Len(line[e]) <= LineBound
  /\ \E taken \in Portions(frame, end) :
       /\ line' = [line EXCEPT ![e] = @ \o taken]
       /\ \/ taken = <<frame, end>> /\ UNCHANGED errors
          \/ taken # <<frame, end>> /\ errors < MaxErrors /\ errors' = errors + 1
  /\ rxAck' = [rxAck EXCEPT ![e] = Empty]

TransmitAck(e) ==
  /\ acks[e] # <<>>
  /\ Transmit(e, Head(acks[e]), EndOfAck)
  /\ acks' = [acks EXCEPT ![e] = Tail(@)]
  /\ ackShift' = [ackShift EXCEPT ![e] = ShiftAfterPop(@)]
  /\ UNCHANGED <<txCount, txMore, pending, txSeqNr, log>>

\* The oldest pending frame may be overdue at any time.
Retransmit(e) ==
  /\ acks[e] = <<>> /\ pending[e] # <<>>
  /\ Transmit(e, Head(pending[e]), EndOfData)
  /\ UNCHANGED <<txCount, txMore, schedulerVars, log>>

IsReady(e, ch) == Ready(txCount[e][ch], txMore[e][ch])
IsFirstReady(e, ch) == IsReady(e, ch) /\ \A c \in Channel : c < ch => ~IsReady(e, c)

HasSlot(e) == Len(pending[e]) < DEPTH

Compose(e, ch) ==
  /\ acks[e] = <<>> /\ IsFirstReady(e, ch) /\ HasSlot(e)
  /\ LET len == Least(txCount[e][ch], FRAME_PAYLOAD)
         payload == [ch |-> ch, from |-> written[e][ch] - txCount[e][ch], len |-> len]
         frame == DataFrame(txSeqNr[e], Len(log[e]) + 1, payload)
     IN /\ Transmit(e, frame, EndOfData)
        /\ pending' = [pending EXCEPT ![e] = Append(@, frame)]
        /\ txCount' = [txCount EXCEPT ![e][ch] = @ - len]
        /\ log' = [log EXCEPT ![e] = Append(@, payload)]
  /\ txSeqNr' = [txSeqNr EXCEPT ![e] = NextSeq(@)]
  /\ UNCHANGED <<acks, ackShift, txMore>>

NothingToSend(e) ==
  /\ TaskEnd(e)
  /\ acks[e] = <<>>
  /\ (\A ch \in Channel : ~IsReady(e, ch)) \/ Len(pending[e]) >= DEPTH
  /\ UNCHANGED <<txCount, txMore, schedulerVars, rxAck, line, errors, log>>

-----------------------------------------------------------------------------
\* The lines damage or lose characters.  A damaged character is never taken for a
\* SYNC here.

Replace(s, i, x) == [s EXCEPT ![i] = x]
Without(s, i) == SubSeq(s, 1, i - 1) \o SubSeq(s, i + 1, Len(s))

LineError(e, i) ==
  /\ errors < MaxErrors /\ i \in 1 .. Len(line[e])
  /\ errors' = errors + 1
  /\ \/ line' = [line EXCEPT ![e] = Without(@, i)]
     \/ \E x \in Noise \cup {EndOfData, EndOfAck} : line' = [line EXCEPT ![e] = Replace(@, i, x)]
  /\ UNCHANGED <<task, syncSent, syncCount, channelVars, schedulerVars, rxVars, history>>

\* A plausible slip, for mutation of the model: the port comes back without a window.
ReopenForgetful(e) ==
  /\ errors < MaxErrors /\ errors' = errors + 1
  /\ pending' = [pending EXCEPT ![e] = <<>>] /\ txSeqNr' = [txSeqNr EXCEPT ![e] = 0]
  /\ UNCHANGED <<task, syncSent, syncCount, channelVars, acks, ackShift, rxVars, line, history>>

\* shutdown() and init(): what the port had not sent yet and what nobody had read of
\* what had arrived are lost.  The protocol keeps its state and sends no new SYNCs.
Reopen(e) ==
  /\ task[e] = "idle"
  /\ errors < MaxErrors /\ errors' = errors + 1
  /\ \E i \in 0 .. Len(line[e]), j \in 1 .. Len(Incoming(e)) + 1 :
       line' = [line EXCEPT ![e] = SubSeq(@, 1, i),
                            ![Other(e)] = SubSeq(@, j, Len(@))]
  /\ UNCHANGED <<task, syncSent, syncCount, channelVars, schedulerVars, rxVars, history>>

-----------------------------------------------------------------------------

AnySend(e) == e \in Senders /\ \E ch \in Channel, len \in SendSizes, more \in BOOLEAN : Send(e, ch, len, more)

NewTransmission(e) == TransmitAck(e) \/ Retransmit(e) \/ \E ch \in Channel : Compose(e, ch)

DoTransmission(e) == GateClosed(e) \/ NothingToSend(e) \/ NewTransmission(e)

TaskStep(e) == TaskBegin(e) \/ Receive(e) \/ DoTransmission(e)

Next == \E e \in Station :
  \/ AnySend(e) \/ TaskStep(e) \/ Reopen(e)
  \/ \E i \in 1 .. Len(line[e]) : LineError(e, i)

\* Any station may start at any time and send at once.
Spec == Init /\ [][Next]_vars

\* Both stations are up, and no SYNC is on its way any more.
HandshakeOver ==
  \A e \in Station : syncSent[e] /\ \A i \in 1 .. Len(line[e]) : line[e][i].kind # "sync"

\* Applications hold their first send until then.
QuietNext == \E e \in Station :
  \/ HandshakeOver /\ AnySend(e)
  \/ TaskStep(e) \/ Reopen(e)
  \/ \E i \in 1 .. Len(line[e]) : LineError(e, i)

QuietSpec == Init /\ [][QuietNext]_vars

\* task() is called again and again and always ends, the lines deliver, a station
\* that has something to send finds the gate open sooner or later, a frame that
\* stays pending becomes overdue, and a station does not for ever start a
\* transmission between an ACK and its end: an ACK takes less than 1 ms,
\* repetitions are at least 36 ms apart.  No fairness for applications and errors.
Fairness == \A e \in Station :
  /\ WF_vars(TaskBegin(e) \/ DoTransmission(e))
  /\ SF_vars(Receive(e))
  /\ SF_vars(NewTransmission(e))
  /\ SF_vars(rxAck[e].kind = "ack" /\ ReceiveEndOfAck(e))

LiveSpec == QuietSpec /\ Fairness

-----------------------------------------------------------------------------
\* Properties of QuietSpec.

IsPrefixOf(s, t) == Len(s) <= Len(t) /\ \A i \in 1 .. Len(s) : s[i] = t[i]

\* Whatever the lines damage and however ACKs are lost or overwritten, the frames an
\* application receives are the frames the other station composed, in that order,
\* without a gap and without a repetition.
DeliveredInOrder == \A e \in Station : IsPrefixOf(handed[Other(e)], log[e])

\* A frame an ACK has taken off the window has been handed to the application: no
\* ACK of an earlier turn of the sequence numbers, of a frame answered without
\* being handed over, or of an overwritten slot, is ever mistaken for its own.
AckedWasHanded ==
  \A e \in Station : \A i \in 1 .. Len(acked[e]) :
    \E j \in 1 .. Len(handed[Other(e)]) : handed[Other(e)][j] = acked[e][i]

\* Each direction of the link is a reliable stream with a window of DEPTH frames.
Stream == INSTANCE ReliableStream
            WITH Window <- DEPTH,
                 sent <- log,
                 delivered <- [e \in Station |-> handed[Other(e)]],
                 confirmed <- [e \in Station |-> Len(acked[e])]

ImplementsStream == Stream!Spec

\* What a channel has accepted reaches the other application once the more flag is
\* off: damaged and repeated frames, lost ACKs and a full window only delay it.  (An
\* application sends MaxWritten bytes at most, so everything has been sent some day.)
Arrived(e, ch, n) == n = 0 \/
  \E i \in 1 .. Len(handed[Other(e)]) :
    LET payload == handed[Other(e)][i] IN payload.ch = ch /\ payload.from + payload.len >= n

EveryByteArrives ==
  \A e \in Senders, ch \in Channel : []<>(Arrived(e, ch, written[e][ch]) \/ txMore[e][ch])

\* Every frame is acknowledged in the end: an ACK that was overwritten in the queue,
\* dropped because the queue was full, or flushed out of the decoder comes again.
EveryFrameAcknowledged == \A e \in Senders : []<>(Len(acked[e]) = Len(log[e]))

-----------------------------------------------------------------------------
\* The inductive invariant of QuietSpec.  In one direction, h frames are
\* acknowledged, r are handed over and n composed.

\* The window is what lies between h and n, the receiver waits for frame r + 1, and
\* both counters are these numbers without their turns.
Counts(composed, delivered, confirmed, window, seq, expected) ==
  LET h == Len(confirmed)
      r == Len(delivered)
      n == Len(composed)
  IN /\ h <= r /\ r <= n /\ n = h + Len(window) /\ Len(window) <= DEPTH
     /\ seq = n % SEQ_MOD /\ expected = r % SEQ_MOD
     /\ \A i \in 1 .. r : delivered[i] = composed[i]
     /\ \A i \in 1 .. h : confirmed[i] = composed[i]
     /\ \A i \in 1 .. Len(window) :
          window[i] = DataFrame((h + i - 1) % SEQ_MOD, h + i, composed[h + i])

\* A data frame on its way is at most DEPTH behind the receiver, and two of them are
\* out of order by less than DEPTH: a frame overtaken by its own repetition.
DataFine(x, composed, r) ==
  x.kind = "data" =>
    /\ x.no \in 1 .. Len(composed) /\ x.seq = (x.no - 1) % SEQ_MOD
    /\ x.payload = composed[x.no] /\ r < x.no + DEPTH

DataBefore(y, x) == y.kind = "data" /\ x.kind = "data" => y.no < x.no + DEPTH

\* The decoder is ahead of the line.
DataInFlight(held, symbols, composed, r) ==
  /\ DataFine(held, composed, r)
  /\ \A p \in 1 .. Len(symbols) :
       /\ DataFine(symbols[p], composed, r) /\ DataBefore(held, symbols[p])
       /\ \A q \in 1 .. p - 1 : DataBefore(symbols[q], symbols[p])

\* An ACK knows how far the receiver had got when it was written, later ones know
\* more, and a frame is answered before it is expected or after it was handed over.
AckFine(x, h, r) ==
  x.kind = "ack" =>
    /\ x.no \in 1 .. h + DEPTH /\ x.seq = (x.no - 1) % SEQ_MOD
    /\ x.got \in h .. r /\ x.got < x.no + DEPTH /\ x.got # x.no - 1

AckBefore(y, x) == y.kind = "ack" /\ x.kind = "ack" => y.got <= x.got

\* The decoder is ahead of the line, the line ahead of the queue.
AckInFlight(held, symbols, queue, h, r) ==
  /\ AckFine(held, h, r)
  /\ \A p \in 1 .. Len(symbols) :
       /\ AckFine(symbols[p], h, r) /\ AckBefore(held, symbols[p])
       /\ \A q \in 1 .. p - 1 : AckBefore(symbols[q], symbols[p])
  /\ \A p \in 1 .. Len(queue) :
       /\ AckFine(queue[p], h, r) /\ AckBefore(held, queue[p])
       /\ \A q \in 1 .. Len(symbols) : AckBefore(symbols[q], queue[p])
       /\ \A q \in 1 .. p - 1 : AckBefore(queue[q], queue[p])

\* Before the handshake is over there is nothing to forget.
Untouched(e) ==
  /\ log[e] = <<>> /\ acks[e] = <<>>
  /\ \A ch \in Channel : txCount[e][ch] = 0
  /\ rxAck[e].kind # "ack" /\ rxData[e].kind # "data"
  /\ \A i \in 1 .. Len(line[e]) : line[e][i].kind \notin {"data", "ack"}

Direction(e) ==
  LET o == Other(e) IN
    /\ Counts(log[e], handed[o], acked[e], pending[e], txSeqNr[e], nextExp[o])
    /\ DataInFlight(rxData[o], line[e], log[e], Len(handed[o]))
    /\ AckInFlight(rxAck[e], line[o], acks[o], Len(acked[e]), Len(handed[o]))

LinkInv ==
  /\ \A e \in Station : Direction(e)
  /\ HandshakeOver \/ \A e \in Station : Untouched(e)
=============================================================================
