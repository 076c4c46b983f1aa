----------------------------- MODULE Slay2Codec -----------------------------
(***************************************************************************)
(* The encoding and decoding buffers of slay2_buffer.cpp: a frame of bytes *)
(* becomes characters of 7 (data) or 6 (ACK) bits with a mark in front,    *)
(* the receiver packs them into bytes again.  The buffers live on from     *)
(* frame to frame and start with whatever was in memory.  The checksum is  *)
(* represented by the bytes it was computed over.                          *)
(***************************************************************************)
EXTENDS Bytes, Sequences

CONSTANTS
  FRAME_PAYLOAD,   \* SLAY2_FRAME_PAYLOAD
  MaxFrames        \* frames encoded in one behaviour (bound)

ASSUME PayloadAssumption == FRAME_PAYLOAD \in Nat \ {0}
ASSUME FramesAssumption == MaxFrames \in Nat \ {0}

\* Plausible slips, for mutation of the model.
RoomierBuffer == FRAME_PAYLOAD + 9

RX_BUFFER == FRAME_PAYLOAD + 8
TX_BUFFER == (8 * RX_BUFFER) \div 7 + 3
ACK_BUFFER == 16
END_OF_ACK == {0}
END_OF_DATA == {1}

VARIABLES
  kind,      \* which pair of buffers: "data" or "ack"
  tx, rx,    \* count, step and buffer of the encoder and the decoder
  crc,       \* the bytes in the checksum of the decoder
  input,     \* the frame being encoded, checksum bytes included
  line,      \* characters on their way
  taken,     \* bytes and checksum when the last end mark arrived
  held,      \* the frame whose end mark was lost, <<>> if none
  frames     \* frames started

vars == <<kind, tx, rx, crc, input, line, taken, held, frames>>

\* Bits in a character, bits a byte moves from one character to the next, and what
\* a frame has besides its payload.
DataGeometry == [bits |-> 7, inc |-> 1, tx |-> TX_BUFFER, rx |-> RX_BUFFER,
                 end |-> END_OF_DATA, least |-> 7, most |-> FRAME_PAYLOAD + 6]
AckGeometry == [bits |-> 6, inc |-> 2, tx |-> ACK_BUFFER, rx |-> ACK_BUFFER,
                end |-> END_OF_ACK, least |-> 5, most |-> 5]
Geometry == IF kind = "data" THEN DataGeometry ELSE AckGeometry

\* A group is the bytes after which a character is full; it has one character more.
Group(g) == g.bits \div g.inc

\* "data begins at position 1!"
Flushed(b) == [b EXCEPT !.count = 1, !.step = 0]

\* Cells that were never written hold anything.
New(size) == [count : {1}, step : {0}, buffer : [0 .. size - 1 -> Octet]]

Init ==
  /\ kind \in {"data", "ack"}
  /\ tx \in New(Geometry.tx) /\ rx \in New(Geometry.rx)
  /\ crc = <<>> /\ input = <<>> /\ line = <<>> /\ taken = <<>> /\ held = <<>>
  /\ frames = 1

-----------------------------------------------------------------------------

\* Plausible slips, for mutation of the model: a group of one byte
\* too many, the last character forgotten, a step that never starts again.
WrapsLate(g) == tx.step >= Group(g)
RoundDown == tx.count
RunawayStep(g) == rx.step + 1

\* What goes into buffer[count] and buffer[count + 1] for byte c: the low bits beside
\* those of the byte before, the rest alone.
LowChar(g, c, old) == old \cup {g.bits} \cup Lowest(Up(c, g.inc * tx.step), g.bits)
HighChar(g, c) == {g.bits} \cup Down(c, g.bits - g.inc * tx.step)

\* After the last step of a group the rest is a full character.
Wraps(g) == tx.step + 1 >= Group(g)

Encoded(g, c) ==
  LET old == IF tx.step = 0 THEN {} ELSE tx.buffer[tx.count] IN
    [count |-> tx.count + (IF Wraps(g) THEN 2 ELSE 1),
     step |-> IF Wraps(g) THEN 0 ELSE tx.step + 1,
     buffer |-> [tx.buffer EXCEPT ![tx.count] = LowChar(g, c, old),
                                  ![tx.count + 1] = HighChar(g, c)]]

\* Pushing fails when the buffer is full; nobody looks at the result.
Encode(g, c) ==
  /\ line = <<>> /\ taken = <<>> /\ Len(input) < g.most
  /\ tx' = IF tx.count < g.tx - 1 THEN Encoded(g, c) ELSE tx
  /\ input' = Append(input, c)
  /\ UNCHANGED <<kind, rx, crc, line, taken, held, frames>>

EncodeData(c) == kind = "data" /\ Encode(DataGeometry, c)
EncodeAck(c) == kind = "ack" /\ Encode(AckGeometry, c)

RoundUp == tx.count + (IF tx.step # 0 THEN 1 ELSE 0)

\* The frame is complete and goes to the line: getBuffer() and getCount().
EncodeEnd ==
  /\ line = <<>> /\ taken = <<>> /\ Len(input) >= Geometry.least
  /\ tx' = IF RoundUp < Geometry.tx
           THEN [count |-> RoundUp + 1, step |-> 0,
                 buffer |-> [tx.buffer EXCEPT ![RoundUp] = Geometry.end]]
           ELSE tx
  /\ line' = [i \in 1 .. tx'.count - 1 |-> tx'.buffer[i]]
  /\ UNCHANGED <<kind, rx, crc, input, taken, held, frames>>

-----------------------------------------------------------------------------

IsAck(c) == 6 \in c /\ 7 \notin c
IsData(c) == 7 \in c
IsPayload(c) == IF kind = "data" THEN IsData(c) ELSE IsAck(c)

DecoderStep(g) == (rx.step + 1) % (8 \div g.inc)

\* A character of a group adds its low bits to the last byte and starts a new one;
\* the last character of a group has only bits for the last byte.
Decoded(g, c) ==
  LET shift == g.inc * rx.step
      count == rx.count + (IF rx.step # 0 THEN 1 ELSE 0)
      bits == Lowest(c, g.bits)
  IN [count |-> count,
      step |-> DecoderStep(g),
      buffer |-> [rx.buffer EXCEPT ![count - 1] = @ \cup Up(bits, 8 - shift),
                                   ![count] = Down(bits, shift)]]

Decode(g) ==
  /\ line # <<>> /\ IsPayload(Head(line))
  /\ \/ /\ rx.count < g.rx - 1
        /\ rx' = Decoded(g, Head(line))
        /\ crc' = IF rx.step # 0 THEN Append(crc, rx'.buffer[rx'.count - 1]) ELSE crc
     \/ /\ rx.count >= g.rx - 1
        /\ UNCHANGED <<rx, crc>>
  /\ line' = Tail(line)
  /\ UNCHANGED <<kind, tx, input, taken, held, frames>>

DecodeData == kind = "data" /\ Decode(DataGeometry)
DecodeAck == kind = "ack" /\ Decode(AckGeometry)

\* doReception looks at checksum and bytes and flushes the decoder.
DecodeEnd ==
  /\ line # <<>> /\ Head(line) = Geometry.end
  /\ taken' = <<[i \in 1 .. rx.count - 1 |-> rx.buffer[i]], crc>>
  /\ rx' = Flushed(rx) /\ crc' = <<>>
  /\ line' = Tail(line)
  /\ UNCHANGED <<kind, tx, input, held, frames>>

\* Only the end mark is lost: the next frame finds this one in the decoder.
LoseEnd ==
  /\ line # <<>> /\ Head(line) = Geometry.end /\ held = <<>> /\ frames < MaxFrames
  /\ line' = <<>>
  /\ tx' = Flushed(tx)
  /\ held' = input /\ input' = <<>> /\ frames' = frames + 1
  /\ UNCHANGED <<kind, rx, crc, taken>>

NextFrame ==
  /\ taken # <<>> /\ frames < MaxFrames
  /\ tx' = Flushed(tx)
  /\ input' = <<>> /\ taken' = <<>> /\ held' = <<>> /\ frames' = frames + 1
  /\ UNCHANGED <<kind, rx, crc, line>>

Next ==
  \/ \E c \in Byte : EncodeData(c) \/ EncodeAck(c)
  \/ EncodeEnd \/ DecodeData \/ DecodeAck \/ DecodeEnd \/ LoseEnd \/ NextFrame

Spec == Init /\ [][Next]_vars

-----------------------------------------------------------------------------

BufferType(b, size, steps) ==
  /\ b.count \in 1 .. size /\ b.step \in 0 .. steps - 1
  /\ b.buffer \in [0 .. size - 1 -> Octet]

TypeOK ==
  /\ kind \in {"data", "ack"} /\ frames \in 1 .. MaxFrames
  /\ BufferType(tx, Geometry.tx, Group(Geometry))
  /\ BufferType(rx, Geometry.rx, 8 \div Geometry.inc)
  /\ input \in Seq(Byte) /\ held \in Seq(Byte)
  /\ crc \in Seq(Octet) /\ line \in Seq(Octet)

\* What arrives at the end mark is the frame that was encoded, no byte more or less,
\* and its checksum covers exactly that frame, whatever earlier frames or an
\* uninitialized memory have left in both buffers.
FrameComesBack == taken # <<>> /\ held = <<>> => taken = <<input, input>>

\* A frame of maximum size fills the decoder: when its end mark is lost, what follows
\* is dropped and the frame is still intact at the next end mark.  Any shorter frame
\* is spoilt by what follows.
OnlyFullFrameSurvives ==
  taken # <<>> /\ held # <<>> =>
    (taken = <<held, held>>) = (kind = "data" /\ Len(held) = FRAME_PAYLOAD + 6)

\* decodeData and decodeAck read a byte out of a frame that is still encoded.
DecodeByte(g, buffer, n) ==
  LET step == n % Group(g)
      offset == ((8 \div g.inc) * (n \div Group(g))) + step
      char(i) == buffer[i + 1]
  IN Down(Lowest(char(offset), g.bits), g.inc * step)
       \cup Up(char(offset + 1), g.bits - g.inc * step)

\* Every byte of a frame can be read back in place while the frame is in the encoder,
\* the byte at the end of a group and the last byte of a frame included.
BytesReadableInPlace ==
  \A n \in 1 .. Len(input) : DecodeByte(Geometry, tx.buffer, n - 1) = input[n]

-----------------------------------------------------------------------------
\* The inductive invariant.  The characters of n bytes:
Chars(g, n) == n + (n \div Group(g)) + (IF n % Group(g) # 0 THEN 1 ELSE 0)

Encoding == line = <<>> /\ taken = <<>>

\* The characters of the frame carry the mark, the one that is not full has no bits above
\* those of the last byte.
EncoderInv ==
  /\ \A i \in 1 .. Chars(Geometry, Len(input)) :
       tx.buffer[i] \subseteq 0 .. Geometry.bits /\ Geometry.bits \in tx.buffer[i]
  /\ BytesReadableInPlace
  /\ IF Encoding
     THEN /\ tx.count = 1 + Len(input) + (Len(input) \div Group(Geometry))
          /\ tx.step = Len(input) % Group(Geometry)
          /\ tx.step # 0 =>
               Lowest(tx.buffer[tx.count], Geometry.bits) \subseteq 0 .. Geometry.inc * tx.step - 1
     ELSE /\ Len(input) >= Geometry.least
          /\ tx.count = Chars(Geometry, Len(input)) + 2
          /\ tx.buffer[Chars(Geometry, Len(input)) + 1] = Geometry.end

\* Characters of this frame that have left the line.
Gone == IF line = <<>> THEN 0 ELSE tx.count - 1 - Len(line)

LineInv ==
  line # <<>> =>
    /\ taken = <<>> /\ Len(line) < tx.count
    /\ \A i \in 1 .. Len(line) : line[i] = tx.buffer[Gone + i]

\* The decoder has the complete bytes of what has arrived, and the low bits of the next.
DecoderInv ==
  LET ready == rx.count - 1 IN
    /\ rx.step = Gone % (Group(Geometry) + 1)
    /\ Gone = ready + (Gone \div (Group(Geometry) + 1)) + (IF rx.step # 0 THEN 1 ELSE 0)
    /\ ready <= Len(input)
    /\ \A i \in 1 .. ready : rx.buffer[i] = input[i]
    /\ crc = [i \in 1 .. ready |-> input[i]]
    /\ rx.step # 0 =>
         rx.buffer[rx.count] = Down(Lowest(tx.buffer[Gone], Geometry.bits), Geometry.inc * (rx.step - 1))

\* A decoder with an earlier frame in it: full, or soon with a byte too many.
Full == kind = "data" /\ Len(held) = FRAME_PAYLOAD + 6
HeldInv ==
  /\ Len(held) \in Geometry.least .. Geometry.most
  /\ Full => /\ rx.count = Len(held) + 1 /\ crc = held
             /\ \A i \in 1 .. Len(held) : rx.buffer[i] = held[i]
  /\ ~Full => /\ rx.count > Len(held)
              /\ Gone >= 1 => rx.count > Len(held) + 1 \/ rx.step # 0
              /\ Gone >= 2 => rx.count > Len(held) + 1

CodecInv ==
  /\ TypeOK /\ Len(input) <= Geometry.most
  /\ EncoderInv /\ LineInv
  /\ taken = <<>> => IF held = <<>> THEN DecoderInv ELSE HeldInv
  /\ taken # <<>> => /\ rx.count = 1 /\ rx.step = 0 /\ crc = <<>>
                     /\ FrameComesBack /\ OnlyFullFrameSurvives
=============================================================================
