------------------------------ MODULE Slay2Crc ------------------------------
(***************************************************************************)
(* xcrc32 (crc32.c) and its use by the encoders and decoders: both sides   *)
(* add every byte of a frame to a remainder, the sender appends its        *)
(* remainder big endian, the receiver expects 0 after the last byte.  The   *)
(* table is the literals of the code.                                      *)
(***************************************************************************)
EXTENDS Bytes, Crc32Table

CONSTANTS
  Burst,     \* damage to four neighbouring bytes, the first in bits 24 .. 31
  MaxLen     \* bytes of a frame before its CRC (bound)

Width == 0 .. 31

ASSUME BurstAssumption == \A b \in Burst : b \subseteq Width /\ b # {}
ASSUME LengthAssumption == MaxLen \in Nat

VARIABLES
  txCrc, rxCrc,     \* the remainders of the encoder and of the decoder
  sum,        \* what pushDataBig32 was called with
  len,        \* bytes sent before the CRC
  left,       \* bytes of the CRC still to be sent; 5 before the CRC has begun
  burst,      \* the damage that is still to come
  damaged

crcVars == <<txCrc, rxCrc, sum, len, left, burst, damaged>>

CrcTypeOK ==
  /\ txCrc \subseteq Width /\ rxCrc \subseteq Width /\ sum \subseteq Width /\ burst \subseteq Width
  /\ len \in 0 .. MaxLen /\ left \in 0 .. 5 /\ damaged \in BOOLEAN

-----------------------------------------------------------------------------

Xor(a, b) == (a \ b) \cup (b \ a)

ShiftLeft(a, k) == {i \in Width : i - k \in a}
ShiftRight(a, k) == {i \in Width : i + k \in a}

\* Plausible slips, for mutation of the model: the remainder sent with its low byte
\* first, and a remainder that forgets what is shifted out.
LittleEndian(k) == {i \in 0 .. 7 : i + (8 * (4 - k)) \in sum}

\* A number below 2^16, a literal of the table and an index into it as sets of bits.
Bits(n) == {i \in 0 .. 15 : (n \div 2^i) % 2 = 1}
Word(literal) == {i + 16 : i \in Bits(literal[1])} \cup Bits(literal[2])
Number(c) == CHOOSE n \in 0 .. 255 : Bits(n) = c

\* A plausible slip, for mutation of the model: two literals in each other's place.
TransposedTable ==
  [c \in Octet |-> LET n == Number(c) IN Word(Literals[IF n \in {200, 201} THEN 402 - n ELSE n + 1])]

crc32_table == [c \in Octet |-> Word(Literals[Number(c) + 1])]

ForgetfulCrc(crc, c) == Xor(ShiftLeft(crc, 8), crc32_table[c])
xcrc32(crc, c) == Xor(ShiftLeft(crc, 8), crc32_table[Xor(ShiftRight(crc, 24), c)])

\* 0xFFFFFFFF
FlushedCrc == Width

CrcInit ==
  /\ txCrc = FlushedCrc /\ rxCrc = FlushedCrc /\ sum = {}
  /\ len = 0 /\ left = 5 /\ burst = {} /\ damaged = FALSE

\* A byte goes through the encoder, over the line and through the decoder.
Transfer(c) ==
  /\ txCrc' = xcrc32(txCrc, c)
  /\ rxCrc' = xcrc32(rxCrc, Xor(c, ShiftRight(burst, 24)))
  /\ burst' = ShiftLeft(burst, 8)

PushData(c) ==
  /\ left = 5 /\ len < MaxLen
  /\ len' = len + 1 /\ Transfer(c)
  /\ UNCHANGED <<sum, left, damaged>>

\* pushDataBig32(getCrc32()): the remainder is read once, before its own bytes change it.
BeginCrc ==
  /\ left = 5 /\ left' = 4 /\ sum' = txCrc
  /\ UNCHANGED <<txCrc, rxCrc, len, burst, damaged>>

\* The byte of sum when k bytes are left: bits 24 .. 31 first.
BigEndian(k) == {i \in 0 .. 7 : i + (8 * (k - 1)) \in sum}

PushCrc ==
  /\ left \in 1 .. 4 /\ left' = left - 1
  /\ Transfer(BigEndian(left))
  /\ UNCHANGED <<sum, len, damaged>>

\* The line damages neighbouring characters.  A character of data carries 7 bits of two
\* bytes, so three characters in a row lie within four bytes.
Damage(b) ==
  /\ ~damaged /\ damaged' = TRUE /\ left # 0
  /\ burst' = b
  /\ UNCHANGED <<txCrc, rxCrc, sum, len, left>>

CrcNext == (\E c \in Byte : PushData(c)) \/ BeginCrc \/ PushCrc \/ \E b \in Burst : Damage(b)

CrcSpec == CrcInit /\ [][CrcNext]_crcVars

-----------------------------------------------------------------------------
\* "CRC of valid frames is 0": an intact frame of any length is accepted.
IntactFrameAccepted == left = 0 /\ ~damaged => rxCrc = {}

\* A frame that any one burst has damaged, its CRC included, is not.
DamagedFrameRejected == left = 0 /\ damaged /\ burst = {} => rxCrc # {}

\* "This table was generated by the following program": 0x04c11db7 and one pass of its
\* inner loop, eight of which make an entry.
Poly == {26, 23, 22, 16, 12, 11, 10, 8, 7, 5, 4, 2, 1, 0}
Shift(a) == IF 31 \in a THEN Xor(ShiftLeft(a, 1), Poly) ELSE ShiftLeft(a, 1)
Shift4(a) == Shift(Shift(Shift(Shift(a))))
Shift8(a) == Shift4(Shift4(a))

TableGenerated == \A c \in Octet : crc32_table[c] = Shift8(ShiftLeft(c, 24))

\* Each of the 256 literals is what that program makes of its index, and through them, a
\* byte at a time, the encoder's remainder is the one of the division bit by bit.
LongDivision ==
  /\ TableGenerated
  /\ ~damaged => \A c \in Octet : xcrc32(txCrc, c) = Shift8(Xor(txCrc, ShiftLeft(c, 24)))

-----------------------------------------------------------------------------
\* The inductive invariant: while the CRC goes out the encoder's remainder is what is
\* left of it, and damage that has begun is in the difference of the two remainders or
\* still to come, and does not cancel out.
CrcInv ==
  /\ CrcTypeOK
  /\ left \in 0 .. 4 => txCrc = ShiftLeft(sum, 8 * (4 - left))
  /\ ~damaged => burst = {} /\ rxCrc = txCrc
  /\ damaged => Xor(Xor(txCrc, rxCrc), burst) # {}
=============================================================================
