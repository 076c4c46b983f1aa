# slay2 in TLA+

slay2 ("serial layer 2") is a driver that carries up to eight independent byte
channels over one serial line, with acknowledged frames. This directory holds
TLA+ specifications of the driver, their TLC runs, and proofs checked by TLAPS.
All paths below are relative to the repository; `src/src/slay2.cpp:224` is line
224 of the protocol core.

## 1. The system

| Component | State it keeps | Operations | Source |
|---|---|---|---|
| `Slay2Fifo` | ring of bytes, `read`, `write`, `count` | `push`, `pop`, `flush`, `getCount`, `getSpace` | `slay2_buffer.cpp:260-312` |
| Encoding buffers | bytes of a frame, running CRC, 7-bit/6-bit packing state | `flush`, `pushData`, `pushAck`, `pushEndOfData`, `pushEndOfAck` | `slay2_buffer.cpp:34-170` |
| Decoding buffers | bytes received so far, CRC, unpacking state | `flush`, `pushData`, `pushAck`, `decodeData`, `decodeAck` | `slay2_buffer.cpp:172-258` |
| CRC-32 | table, remainder | `xcrc32`, `addToCrc`, `pushDataBig32`, `pushAckBig32` | `crc32.c`, `slay2_buffer.cpp:71-74` |
| `Slay2LinearFifo<N>` | bytes from `read` to `write`, a zero behind them | `push`, `top`, `pop`, `flush`, `getCount`, `getSpace` | `slay2_buffer.h:147-227` |
| `Slay2TxScheduler` | window of 3 pending data frames with timeouts, queue of 3 ACKs (arrays of pointers to buffers), `txSeqNr`, `nackCount` | `reset`, `getNextXfer`, `acknowledgeXfer`, `scheduleAck` | `slay2_scheduler.cpp` |
| `Slay2Channel` | `txFifo`, `txMore`, receiver callback | `send`, `setReceiver`, `getTxBufferSpace`, `flushTxBuffer`, `enter/leaveCritical` | `slay2.cpp:306-374` |
| `Slay2` | channel table, `syncSent`, `syncCount`, `nextExpRxSeqNr`, two decoders, the scheduler | `open`, `close`, `task` (= `doReception`; `doTransmission`) | `slay2.cpp:99-304` |
| Targets | file descriptor or handle, clock, mutex | `init`, `shutdown`, `getTime1ms`, `transmit`, `receive`, `getTxCount`, `enter/leaveCritical` | `slay2_linux.cpp`, `slay2_win32.cpp`, `slay2_nullmodem.cpp` |

How they interact. An application pushes bytes into a channel's `txFifo` with
`send(data, len, more)`. `task()`, called again and again, first sends five
SYNC characters if it has not yet done so, then feeds every received character
to the decoders, and then lets the scheduler choose at most one frame: a queued
ACK, else the oldest pending data frame if it is overdue, else a new data frame
from the first ready channel. A received intact data frame is answered with an
ACK in any case and handed to the channel's receiver only if its sequence number
is `nextExpRxSeqNr`; a received ACK removes the oldest pending frame if the
numbers agree. The third SYNC in a row makes a station forget its pending
frames, queued ACKs and both sequence numbers.

What is hard about it:

- **Two sequence counters and a finite number space.** Sender and receiver keep
  one counter each; repetitions, overtaken frames and late ACKs carry numbers of
  earlier turns. ACKs are not cumulative and are sent for unexpected frames too.
- **Half-duplex interference.** Starting any transmission flushes the ACK
  decoder (`slay2.cpp:264`), so an ACK that is just arriving is lost.
- **Bounded queues that drop.** The ACK queue drops what does not fit, and its
  slots come to share buffers (section 6).
- **Startup.** SYNCs arrive after traffic may already have begun (section 6).
- **Wrap-around** of sequence numbers (2^8), of the ms clock (2^32), and of the
  two ring indices.
- **Damage on the line**: a lost end mark leaves a frame in the decoder, where it
  meets the next one; a character may be damaged into a SYNC.
- **Restarts and reopened ports**: one station forgets everything, or the lines
  lose what they hold, and the other one is not told.
- **Threads**: `task()` holds a recursive mutex throughout and calls receivers
  inside it; `open`, `close`, `setReceiver`, `getTxBufferSpace`, `init` and
  `shutdown` do not take it.

What makes each component correct: the FIFO is a queue; the scheduler never
overwrites a pending frame, keeps window and sequence numbers together, measures
each frame's own timeout, and sends ACKs only for frames received; the codec
gives back what was put in, whatever the bytes, and its checksum leaves 0 for
an intact frame and not for one with a burst of damage; a channel is not used after its deletion and a frame
holds bytes of one `send` in order; the protocol delivers each
direction's frames in order, without gap or repetition, takes nothing off the
window that was not handed over, and gets every byte across in the end.

## 2. Modules

| Module | Models | Kind |
|---|---|---|
| `BoundedQueue` | a first-in first-out queue with a capacity | abstract specification |
| `Slay2Fifo` | the ring buffer, one action per call | detailed, refines `BoundedQueue` |
| `BurstQueue` | a queue of blocks whose space returns when it is empty | abstract specification |
| `Slay2LinearFifo` | the linear buffer, one action per call | detailed, refines `BurstQueue` |
| `Bytes` | a byte as the set of its bits, and its shifts | shared operators |
| `Slay2Codec` | packing and unpacking of frames | algorithm as state machine |
| `Crc32Table` | the 256 literals of `crc32_table` | data of the code |
| `Slay2Crc` | the checksum on both sides of a damaged line | algorithm as state machine |
| `TxQueues` | the scheduler's decisions as operators on sequences | shared operators |
| `QueueScheduler` | the scheduler as a window, an ACK queue and a counter | abstract specification |
| `Slay2TxScheduler` | the scheduler with its pointer arrays, timeouts and clock | detailed, refines `QueueScheduler` |
| `ReliableStream` | in-order delivery and confirmation per direction | abstract specification |
| `Slay2Link` | two stations running `task()` over two lines | detailed, refines `ReliableStream` |
| `Slay2LinkFaults` | the link with restarts and false SYNCs | extends `Slay2Link` |
| `Slay2Channels` | channel table and channel objects under threads | detailed |
| `Slay2Nullmodem` | one driver connected to itself, with the forwarding demo | composition at real sizes |
| `Slay2Port` | opening and closing the serial port under `task()` | detailed |
| `*_proofs` | theorems about the module named, `TxQueues_proofs` lemmas | proofs |
| `MC*` | the modules TLC starts from | model checking |

The pointer-level `Slay2TxScheduler` refines `QueueScheduler` (checked and proved).
`Slay2Link` does not contain that scheduler: its stations use the operators of
`TxQueues` that `QueueScheduler` is made of (`AckBuffer`, `ShiftAfterPop`, `PutAck`,
`NextSeq`, `Ready`), as `Slay2Nullmodem` does, and each of its transmission actions
corresponds to one action of `QueueScheduler` by reading. No theorem carries what is
shown of the link over to stations with pointer arrays (section 8). Likewise `Slay2Codec` shows what `Slay2Link` assumes
about decoders: an intact frame comes back as it was, and a full decoder drops what
follows; `Slay2Crc` shows that a frame with one burst of damage is not accepted.

### How state and actions correspond to the code

- **`Slay2Fifo`**: the variables are the members of the class; `Push`, `Pop`,
  `Flush`, `GetCount`, `GetSpace` are its methods, a failing call included. The
  value returned is a variable. Bytes popped and count are seen by the abstract
  queue only as a sequence.
- **`Slay2TxScheduler`**: `dataFifo[i]` is the number of the buffer that slot i
  points to, `dataBuffer[b]` the frame in it. `getNextXfer` is one action for
  each way it returns (ACK, repetition, new frame, `NULL`), guarded by the
  conditions in the order of the code. A payload is its channel and length.
  `age`, `again` and `owed` are history variables that the code does not have: the time
  since a frame was last on the line, whether it has been repeated, and the ACKs in the
  order they were scheduled. The first two are kept by buffer and not by slot:
  `TimeoutFollowsFrame` compares them with `dataFifoTimeout`, start and limit. `Load` stands for what an application does to a channel between
  two calls of `task()`.
- **`Slay2LinearFifo`**: as `Slay2Fifo`, names prefixed with `lin` or `Linear` so
  that both buffers can be checked in one run. `top()` shows the bytes its pointer
  leads to; `BurstQueue` knows the bytes taken out since the buffer was empty.
- **`Slay2Crc`**: a byte and a 32-bit word are the sets of their bits, so that
  shifting and exclusive or are set operations. `crc32_table` is made of the literals
  that are compiled (`Crc32Table`); the generator in the comment above them (`Shift8`) is
  only what `TableGenerated` compares them with. Encoder and decoder take one byte after the
  other; `Damage` spoils up to four neighbouring bytes once per frame, and
  `PushCrc` sends the four bytes of the remainder as `pushDataBig32` does, each
  of them changing the encoder's own remainder.
- **`Slay2Codec`**: `count`, `step`, `buffer` as in `Slay2Buffer`, bytes as in
  `Slay2Crc`: `|` is a union, `& 0x7F` the lowest bits, `<<` and `>>` move them. `pushData`
  and `pushAck` of the encoder and of the decoder differ in the number of bits
  and are one operator with a geometry record. The checksum is the sequence of
  bytes it was fed with; the last four bytes of a data or ACK frame are just
  bytes here. A character has the bits of two neighbouring bytes: the encoder keeps
  the unfinished one in `buffer[count]`, the decoder an unfinished byte.
- **`Slay2Link`**: `TaskBegin` is the first part of `task()`, each `Receive`
  action one pass of the loop in `doReception`, and the actions of
  `DoTransmission` the ways `doTransmission` ends; the other station and its
  application run between any two of them. `receive()` returning nothing is the
  choice to stop receiving at any point. The characters of a frame before its
  end mark are one symbol and the end mark another, which is enough for every
  way a decoder can be flushed, spoilt or confused in between. Payloads are
  byte ranges (`from`, `len`) of what was sent on a channel, so that order,
  gaps and repetitions are visible. `no` and `got` in frames and `log`,
  `handed`, `acked` are history variables.

- **`Slay2LinkFaults`** adds `Restart` (the constructors run again, with the lines'
  contents kept or lost) and `FalseSync` (a character of a symbol is damaged into
  0x2C; a frame is then cut at its first, last or an inner character). `life`
  remembers what a station had been given before its last start.
- **`Slay2Channels`**: one action for each statement of a method that does not hold
  the mutex, and for each access of `task()` to a channel while it fills a frame or
  calls a receiver; the readings of count (`TaskCount`) and of the more flag (`TaskMore`)
  and every pop are steps of their own. A byte is known by the call of `send` it came from. A thread
  uses what `open` has returned to it, and no channel that it has closed.
- **`Slay2Nullmodem`**: the one thread of the demo's `main()` with driver,
  receivers and wire. Text is the places of its bytes, a frame one symbol whose
  characters are counted, so that the gate of 24 characters and the fifo of 1024
  are those of the code. Time is counted from the last transmission of a frame.
- **`Slay2Port`**: `file` is what the system has open under each number; the number
  the driver keeps may by then belong to another file. The reading of `fileDesc`
  that decides and the one that is used are two steps.

`send` in `Slay2Link` is modelled outside `task()` only. A receiver callback may call `send`
too (the critical section is recursive), but nothing in `doReception` reads what
`send` writes, so such a call has the effect of one made before the task.

## 3. Runs

| Run | Shows | Bounds |
|---|---|---|
| `Buffers` | the ring is a queue; the linear buffer is a queue of bursts that leaves shown data in place | ring of 3 cells and 2 byte values, linear buffer of 4 bytes, blocks of 0 to 3; one of them per behaviour |
| `Codec` | a frame comes back unchanged from reused and uninitialized buffers; a full decoder keeps its frame when the end mark is lost; `decodeData`/`decodeAck` | payload 1..11, frames that alternate two bytes, 2 frames, buffers full of one byte before |
| `Crc` | an intact frame leaves 0, a burst never does, every literal of the table is the division's | 3 byte values, frames of up to 2 bytes and the CRC, every damage to one character, samples of three in a row |
| `Scheduler` | buffers of slots stay distinct, timeouts follow their frames, with start and limit, across the wrap of the clock, pending frames carry the last sequence numbers, no ACK nobody asked for, refinement of the queues | depth 3, 4 sequence numbers, clock modulo 3, frames of 1 or 2 bytes with limits 0 and 1, repetitions with limit 1, ACKs for 2 numbers; per behaviour either time passes, without the more flag, or the peer's frames are acknowledged |
| `SchedulerAckOrder` | counterexample: the oldest ACK is not what is sent | depth 3 |
| `LinkStream` | `LinkInv`, in-order delivery, nothing acknowledged that was not handed over | 4 sequence numbers, one call of `send` per application; 5 frames one way with 1 fault (line error, short write, reopened port), or 2 frames each way; also a first SYNC write that fails |
| `LinkStartup` | counterexample: with applications that do not wait, frames are acknowledged that were never handed over | 3 frames |
| `LinkLive` | every frame is acknowledged, every byte without the more flag arrives, refinement of `ReliableStream` | fifo of 4 bytes: a text of 5 that it takes in part, the rest sent when there is room, or frames both ways, or faults of one kind: 1 line error, or 2 false SYNCs in settled traffic |
| `LinkRestart` | one life of a station is given nothing twice; no frame is repeated for ever | 4 sequence numbers, 2 frames one way, up to 1 unread symbol on a line when a frame is added, 1 restart anywhere; applications do not wait |
| `Channels` | no use after `delete`, receivers with their objects, no lost channel object, space that was reported can be sent, frames that hold bytes of one `send`, whoever holds the mutex can go on | 2 threads and `task()`, 1 channel number, 2 objects, 2 sends of 2 bytes, 1 received frame |
| `Nullmodem` | nothing is lost between receivers, fifos and wire; the demo ends | the driver's own sizes; texts of 1, 255, 257, 940 and 1024 bytes, 9 tests on 8 channels |
| `Port` | `task()` reaches the port only; on Linux it reads nothing `init` should drop | 2 file numbers, 3 inits, 2 characters of input, both targets |

Why the bounds are enough. The depth of the scheduler is the real one (3). What
matters about the sequence numbers is that they wrap while frames are in flight
and that there are more of them than frames in the window; 4 is the smallest
number with that property and so the hardest case, and `LinkStream` sends 5
frames so that the first number returns. Frames of one and of two bytes separate
a full frame from a short one, which is all the receive buffer distinguishes.
The clock wraps after 3 ticks with
limits of 0 and 1, so each frame meets the wrap, and frames of one and two bytes and
repetitions have limits that a wrong slot would mix up. In the codec a character depends on two neighbouring bytes and on the
step, so `MCSlay2Codec` alternates two bytes; 11 is congruent to 256 modulo 7, so both
buffers have exactly the slack they have at full size. `LineBound` is how many
symbols a station may have on its line when it adds a frame. The gate of the code
(`slay2.cpp:257`) counts the 24 characters of its own output, so that two or three ACKs, or
a frame behind them, may be on the line unread. It is 0 in `LinkStream` and `LinkLive`, which
larger values put out of TLC's reach, 1 in `LinkRestart`, where a frame may follow another
symbol, and 2 in `LinkStartup`; every proof about the link is for every `LineBound`. `LinkStream` and `LinkLive` split their
behaviours by kind of traffic in their MC modules; a line error in two-way traffic
is left to the proofs. The two frames of `LinkRestart` show that the traffic ends; that
nothing comes twice is proved for any number of them (`FramesNeverTwice`). Link, scheduler and channel runs have one channel; several
channels and their priority are in `Nullmodem`, whose nine tests send more than 256
frames. Wherever a bound restricts what the environment does it is a constant
marked "(bound)" in the module, or stated in the MC module.

## 4. Assumptions

- **The checksum detects every damage** in the link model. A damaged frame is
  `Garbled` and gets no answer. `Slay2Crc` justifies this for one burst within
  four bytes; no 32-bit checksum can detect all that is longer. Damage to the mark bit (bit
  7) of a character makes the decoder drop it and moves every later bit of the frame: such
  damage is no burst in this sense, and only the strength of a 32-bit sum speaks for it.
- **Damage looks like a SYNC** only in `Slay2LinkFaults`, and in `LinkLive` only
  once a station has received another character after the handshake (section 6).
- **Quiet start.** `QuietSpec` lets applications send only after both stations
  are up and no SYNC is on its way; `Spec` has no such restriction. In-order
  delivery and `AckedWasHanded` hold in `QuietSpec`; `Spec` violates the second
  (run `LinkStartup`). `LinkRestart` is under `Spec`.
- In the link channels are open with a receiver at both ends.
- **Critical section.** In `Slay2Channels` and `Slay2Port` the application brackets
  the calls in `Guarded` with `enterCritical` and `leaveCritical`, which are public:
  `open`, `close` and `setReceiver`, and `init` and `shutdown`. `send` and
  `flushTxBuffer` enter by themselves. Without the brackets each of the properties
  named for it fails within a few steps (section 6); a program with one thread
  needs none. `getTxBufferSpace` needs none either: what it says stays true for
  the only thread that sends on the channel.
- The driver is destroyed, and `init` called, when nobody else is inside: `init`
  on a closed driver only.

**Fairness** (`Fairness` of `Slay2Link`). `task()` is called again and again and
ends, which is weak fairness of beginning a task and of ending it: the example in
`README.md` and the demo call it in a loop. Reception is strongly
fair: a character that has arrived is read by one of the next tasks.
`NewTransmission` is strongly fair: the gate opens whenever the output has been
sent, and it closes again for every frame, so weak fairness would say nothing;
that a repetition is possible stands for its timeout. The last conjunct is a
statement about time: an ACK of 8 characters takes less than a millisecond,
repetitions are at least 36 ms apart, so a station does not for ever begin a
transmission exactly between an ACK and its end mark. Applications, faults and
restarts have no fairness. `Slay2Nullmodem` has weak fairness of its only thread.

## 5. Proofs

Everything in this section is checked by TLAPS for every value of the constants
that the `ASSUME`s of the modules allow: every depth of at least 3 (the driver
demands this of `SLAY2_SCHEDULER_FIFO_DEPTH`), every number of sequence numbers
above the depth, every frame, FIFO and clock size, every number of line errors.
The runs show the same
properties on small instances.

| Module | Theorem | States |
|---|---|---|
| `Slay2Buffers_proofs` | `RingInvariant`, `RingTypeOK` | types; the write index is `count` places after the read index |
| | `RingImplementsQueue` | the ring implements `BoundedQueue` |
| | `LinearInvariant` | types, the zero behind the data, an empty buffer has all its space |
| | `ShownDataStays` | a push leaves what `top()` has shown where it is |
| | `LinearImplementsBursts` | the linear buffer implements `BurstQueue` |
| `Slay2Frames_proofs` | `CodecInvariant`, `CodecTypeOK` | what encoder, line and decoder hold, for every maximum payload and buffers in any state |
| | `FramesComeBack` | every frame comes back, with the checksum over its bytes |
| | `FullFramesSurvive` | without its end mark a frame survives exactly if it fills the decoder |
| | `ReadableInPlace` | `decodeData` and `decodeAck` find every byte in the encoder |
| | `CrcInvariant` | what the remainders of both sides are after any number of bytes |
| | `IntactAccepted` | an intact frame of any length leaves 0, given `TableGenerated` |
| | `DamagedRejected` | a frame with one burst within four bytes never does, given `TableGenerated` |
| `Slay2TxScheduler_proofs` | `SchedulerTypeOK` | types |
| | `SlotsStayDistinct` | no two slots share a data buffer |
| | `WindowOfSequenceNumbers` | pending frames carry the last sequence numbers, across the wrap |
| | `TimeoutsFollowFrames` | start and limit of a frame's timeout are its own, across slot shifts, repetitions and the wrap of the clock |
| | `AcksNeverOlder` | an ACK in the queue is the one scheduled at its place or a later one |
| | `PointersImplementQueues` | the pointer arrays implement `QueueScheduler` |
| `Slay2Port_proofs` | `PortInvariant` | who is inside, what the driver's number stands for, what waits in the port |
| | `TaskReachesOnlyThePort`, `DroppedInputStaysDropped` | with `init` and `shutdown` inside the critical section |
| `Slay2Link_proofs` | `LinkTypeOK` | types of both stations and lines, for `Spec` |
| | `LinkInvariant` | `LinkInv` below, for `QuietSpec` |
| | `FramesDeliveredInOrder` | frames arrive in order, no gap, no repetition |
| | `AcknowledgedMeansHanded` | what an ACK removed was handed over |
| | `LinkImplementsStream` | each direction implements `ReliableStream` |
| | `RestartTypeOK` | types when stations restart at any time, for `RestartSpec` |
| | `LifeInvariant` | `LifeInv` below, for `RestartSpec` and ports that take the SYNCs whole |
| | `FramesNeverTwice` | no frame twice or after a newer one in one life of a station |
| `Slay2Channels_proofs` | `ChannelsInvariant`, `ChannelsTypeOK` | who is inside, what table and handles name, what the fifos hold |
| | `ChannelsOutliveTheirUse` | no channel object is used after its deletion |
| | `ReceiversGetTheirObjects` | a receiver is called with the object set with it |
| | `DestructorFindsAll` | no object survives the driver |
| | `PromisedSpaceIsThere` | the space `getTxBufferSpace` reported can be sent |
| | `SendsStayTogether` | the bytes of one `send` are not torn apart |
| | `FillingFindsItsBytes` | from the reading of its count on a frame's bytes are there |
| | `HolderNeverStuck` | whoever is inside finds the guard of a next step true |
| `Slay2Nullmodem_proofs` | `NullmodemInvariant` | one frame at a time, no channel ahead of the one before it |
| | `DemoLosesNothing` | what a channel was given is handed on, on the wire or in the next fifo |

`TxQueues_proofs` holds the arithmetic the others need: division, remainders
that commute with counting on, `RemainderNamesOne` (two numbers less than m
apart with one remainder modulo m are equal) and `LeastElement`.

**Ring.** `TypeOK /\ WriteFollowsRead` is inductive; the contents of the abstract
queue are read off from `read`, `count` and the cells.

**Linear buffer.** `LinearTypeOK /\ Terminated /\ EmptyMeansRoom` is inductive: that the
data ends at `write` needs that a pop of the last bytes moves both indices.

**Codec.** `CodecInv` follows a frame through `pushData`, the line and the decoder.
`EncoderInv`: the encoder has `Chars` characters for the bytes so far, all with the
mark, every byte can be read in place, and the bits that the unfinished character still
has to get are 0. `LineInv`: what is on the line is the rest of what the encoder has,
`Gone` characters having left it. `DecoderInv`: of `Gone` characters the decoder has
made all complete bytes, they are the first ones of the frame and those in the
checksum, and the cell after them has the low bits of the next byte. `HeldInv` is for a
decoder that has missed an end mark: a frame of maximum size fills it and nothing
enters; any other gets a byte too many with the second character of the next frame.
None of it depends on what the buffers held before: every cell is assigned before bits
are added to it (`old` in `Encoded`, the second assignment in `Decoded`). Two lemmas carry the
data: `ByteInTwo` (a byte split over two characters and joined again is the byte,
whatever the other bits of the first character are) and `Arrived` (w bytes have w + 1
characters, so a decoder that has counted all characters has all bytes). The proof also
shows that the guards against a full encoding buffer never fail: by `RoomForFrame` the
buffers have room for the longest frame and its end mark.

**Checksum.** `CrcInv` says that both remainders agree until there is damage, that from
then on their difference and the damage still to come do not cancel out, and that the
encoder's remainder during the CRC is the part of it not yet sent. A step through the
table is linear and one to one, so that a difference that is not zero never becomes
zero. Both are properties of the 256 literals, and the theorems take them as the
hypothesis `TableGenerated`: each literal is what eight steps of the division make of its
index. It has no variables and no parameters, and the run `Crc` evaluates it as it
stands, so that nothing is left open.

**Scheduler.** `WindowInv == TypeOK /\ DataSlotsDistinct /\ PendingSeqWindow` is
inductive and none of its parts is alone: `Retransmit` sends what slot 0 points
to, which is a frame only as long as `Compose` never wrote into a buffer of
another slot, and that holds because `acknowledgeXfer` rotates the pointers
instead of shifting them. `AckNeverOlder` and `TimeoutFollowsFrame` are inductive
on top of it, the second in two parts: `Measured`, with the lemma `ElapsedGrows` on the
wrapping clock, and `OwnLimits`, which needs that the buffer of a frame just composed is
none of the pending ones. For
the refinement, slot i of the ACK queue points to buffer min(shift + i, DEPTH - 1)
with one number `shift` for all slots (`AckShape`). That is the whole effect of
the lost buffers, and what the operator `PutAck` of the abstract queue does.

**Port.** `PortInv` needs that the mutex belongs to whoever is inside, that the number
kept is the port's but between the two steps of `shutdown`, and that what waits in an
open port has arrived since the last `init` began.

**Link.** `LinkInv` speaks of each direction with h frames acknowledged, r handed
over and n composed:

- `Counts`: h <= r <= n, the window is what lies between h and n, both counters
  are r and n modulo `SEQ_MOD`, and what was handed over and acknowledged are
  prefixes of what was composed.
- `DataInFlight`: a data frame in a decoder or on the line is at most `DEPTH`
  behind r, and of two of them the later one is less than `DEPTH` older. So if it
  has the expected number it is frame r + 1, not one of another turn; and when r
  moves on, the frames behind it are still near enough.
- `AckInFlight`: an ACK remembers (ghost `got`) what r was when it was written;
  later ACKs remember more, `got` is at least h, and it is not the number before
  the frame it answers, since the receiver does not answer the expected frame
  without taking it. So an ACK with the number of the oldest pending frame
  is an ACK for it, and `got` says that it has been handed over: h < r.
- `HandshakeOver \/ Untouched(e)`: as long as a SYNC can still arrive nothing was
  sent, so a reset forgets nothing.

The proof is in two halves. The first is about one direction as plain sequences
and numbers, one lemma for each thing that can happen to it: symbols are taken,
lost or damaged (`Thins`: what is left was there before, in the same order), a
frame is sent, handed over, answered (with ACKs overwritten), accepted. The second
half applies these to both directions for each action of a station.

**One life.** `LinkInv` does not hold when stations restart: numbers start again while
frames of the life before are still on their way. What holds is that in each direction
there is a number n, the last frame handed over in the receiver's present life, and
`LifeInv` says with it

- `LifeFine`: a frame on its way that is not newer than n is less than `DEPTH` older,
  and the number the receiver expects counts on from the frame's own, so it is not
  taken again. This is a repetition of the present window.
- `Repeats`: a frame that comes behind a newer one is a repetition in the same sense, so
  that it still is one after the newer one has been handed over.
- `Renews`: behind a SYNC, which makes the receiver expect 0 again, there are only frames
  newer than all in front of it and than n; so a reset makes no frame acceptable again.
- `Lately`, `Portioned`: the window is the end of what was composed, and bytes go into
  frames once and in their order; `GivenOnce`: what was handed over since the last
  start is among the first n frames.

The order of decoder, line and window is the order in which frames will be handed over,
and `Flight` states the three for all pairs in that order. `FramesNeverTwice` has no bound on
restarts, errors, frames or numbers; its hypothesis `SyncsWhole`, that the port takes the
five SYNCs of a start at the first try, is needed (section 6).

**Channels.** The theorems are about applications that make `open`, `close` and
`setReceiver` inside the critical section (`Bracketed`, the assumption of section 4;
the mutants of the run `Channels` show that each of the three is needed), for every
number of threads, channels, objects and sends. `ChannelsInv` consists of

- `Exclusion`: the mutex belongs to whoever is past the entrance of a call or in
  `task()`, and is held twice only by a receiver's call; `ReceiverCalls`: a call
  made by `task()`'s thread is one on the object its receiver was called with.
- `TableHoldsLive`, `HandlesHoldLive`: the table holds the live objects, each at its
  own number, and a thread's handle is in the table and nobody else's. Between the
  two statements of `open` one live object is not yet in the table, between those
  of `close` one is no longer.
- `TaskHolds`, `Gone`: the pointer `task()` has read is to a live object, as nobody
  else is inside, and once the driver is destroyed nobody is inside.
- `ReceiversMatch`: function and object differ from what was set together only
  between the two assignments of `setReceiver`.
- `SendsInOrder`: a running `send` has its bytes at the end of one fifo; with it the
  bytes of a finished one are contiguous. `RoomPromised`: no byte takes space promised
  to another call.

`HolderNeverStuck` is `HolderGoesOn` with the guard of each step in the place of
`ENABLED`; in all states of the instance of `Channels` TLC finds guards and `ENABLED`
equivalent. It needs of the memory that there are at least as many objects as channel numbers
(`MemoryForAll`): in `open`, with its place in the table empty, all objects that live
are in other places, so one is left.

**Nullmodem.** `NullmodemInv` says where the one frame of the demo is (`Exchange`): not
sent, on the wire, received and its ACK queued, or its ACK on the wire; `task()`
empties the wire before it sends, and the gate of 24 characters and the order
"ACKs first" keep a second frame from joining it. `Ordered`: no channel is ahead of
the one before it, so what a receiver passes to `send` always fits; this is where
the texts have to fit the fifo (`LengthAssumption` of `Slay2Nullmodem`). `Passed`
is `NothingLost` with the frames that are pending.

Only model-checked: liveness (`EveryByteArrives`, `EveryFrameAcknowledged`,
`WindowDrains`, `DemoEnds`), as fairness is out of the prover's reach; `HolderGoesOn`
as it is written, with `ENABLED`, for the same reason; and false SYNCs.

## 6. What the models show about the code

**ACK buffers are shared after the first ACK** (run `SchedulerAckOrder`).
`getNextXfer` shifts the array of ACK pointers down without putting the popped
buffer back (`slay2_scheduler.cpp:72-75`), unlike `acknowledgeXfer`, which puts
the data buffer at the end (line 182). After two ACKs all slots point to one
buffer, for ever (`reset` does not restore them). From then on a second ACK
scheduled before the first is sent overwrites it, so the first frame is repeated
after its timeout. `Scheduler` shows what remains true, and `LinkLive` that
the protocol recovers.

**Sending before the peer is up loses frames silently** (run `LinkStartup`).
A station that starts second sends SYNCs which make the first station restart
its sequence numbers after frames were already exchanged; the second one keeps
its own `nextExpRxSeqNr`. The following frames carry numbers it does not expect:
they are acknowledged (`slay2.cpp:223`) and dropped (line 224).

**Observations.** After the five SYNCs of a handshake `syncCount` stays at 2
(`slay2.cpp:164`: three reset, two remain), so until another character has come in
a single character damaged into 0x2C resets the station: for `NoisySpec` with
`OnlySettled = FALSE`, `MaxFalseSyncs = 1` and frames of one byte TLC finds
`AckedWasHanded` violated, by a frame that is acknowledged and never handed over. In settled traffic it takes three
such characters in a row, and two do no harm (run `LinkLive`).

A station that starts counts its SYNCs as sent only if the port takes all five
(`slay2.cpp:135`), and sends five again in the next `task()` otherwise, while it sends frames
already. Three SYNCs reset the peer, so it is reset again after frames have come. With
`SyncWrites = {3, 5}` in `LinkRestart` TLC finds `NeverTwiceInALife` violated without a restart
or an error: a frame is handed over, the SYNCs of the second handshake make the
receiver expect 0 again, and the repetition of the frame is handed over as well.

Outside the critical section (the mutants of `Channels` and `Port` are these
programs): `close` deletes a channel that `task()` is filling a frame from or whose
receiver it calls; two threads that open one channel both get an object, one of
which is never deleted; a receiver is called with the object of the one before; a
port closed by another thread leaves `task()` with a number that the next opened
file gets. `shutdown` and `init` of the targets do not bracket themselves.

`init` on an open driver forgets the open port (`slay2_linux.cpp:54`); the result of
`setInterfaceAttribs` is ignored (line 57); `README.md:9` speaks of up to 256
channels where `SLAY2_NUM_CHANNELS` is 8.

## 7. What is not modelled

- Terminal settings on Linux and Windows (`setInterfaceAttribs`, `encodeBaudrate`,
  `DCB`, timeouts of the port): calls into the system without state of the driver.
- The rounding of `getTime1ms` and steps of the system's clock: the scheduler model
  has a clock that goes on and wraps, the link model none; there a pending frame may be
  repeated at any time.
- A second `init` on an open driver, and threads inside the driver while it is
  destroyed: nothing is promised for them.
- The injection of errors in `slay2_nullmodem.cpp`, which is compiled out; the link
  model has line errors.
- `setVerbose`, and the test programs that call codec and targets once and print.
- Frames for channels that are closed or have no receiver are acknowledged and
  dropped (`TaskFrame` of `Slay2Channels`); the link model has open channels only.

## 8. Plan

Done: all modules of section 2, the runs of section 3 and the theorems of section 5.
Left:

- A module of two stations, each with the pointer arrays of `Slay2TxScheduler`, shown to
  refine `Slay2Link`. It would carry what is shown of the link over to the arrays.
- After a restart, how many frames are acknowledged and dropped before one is taken
  again. A bound has to count the ACKs of an earlier life that the gate lets wait on a
  line, and the SYNCs that the line damages.
- Damage that makes the decoder drop a character, in `Slay2Crc`.
