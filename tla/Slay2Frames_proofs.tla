------------------------- MODULE Slay2Frames_proofs -------------------------
(***************************************************************************)
(* What the receiver has of a frame is what was sent: the codec returns    *)
(* the bytes of every frame and its checksum (Slay2Codec), the checksum    *)
(* accepts intact frames and sees damage to four neighbouring bytes        *)
(* (Slay2Crc).                                                             *)
(***************************************************************************)
EXTENDS Slay2Codec, Slay2Crc, TLAPS

LEMMA Numbers ==
  ASSUME NEW g \in {DataGeometry, AckGeometry}
  PROVE  \/ /\ g.bits = 7 /\ g.inc = 1 /\ g.bits \div g.inc = 7 /\ 8 \div g.inc = 8
            /\ g.tx = TX_BUFFER /\ g.rx = RX_BUFFER /\ g.end = {1}
            /\ g.least = 7 /\ g.most = FRAME_PAYLOAD + 6
         \/ /\ g.bits = 6 /\ g.inc = 2 /\ g.bits \div g.inc = 3 /\ 8 \div g.inc = 4
            /\ g.tx = 16 /\ g.rx = 16 /\ g.end = {0} /\ g.least = 5 /\ g.most = 5
<1>0. 7 \div 1 = 7 /\ 8 \div 1 = 8 /\ 6 \div 2 = 3 /\ 8 \div 2 = 4
  OBVIOUS
<1>1. CASE g = DataGeometry
  BY <1>0, <1>1 DEF DataGeometry, END_OF_DATA
<1>2. CASE g = AckGeometry
  BY <1>0, <1>2 DEF AckGeometry, END_OF_ACK, ACK_BUFFER
<1> QED BY <1>1, <1>2

LEMMA ItsGeometry ==
  ASSUME kind \in {"data", "ack"}
  PROVE  /\ Geometry \in {DataGeometry, AckGeometry}
         /\ kind = "data" => Geometry = DataGeometry
         /\ kind = "ack" => Geometry = AckGeometry
BY DEF Geometry

\* Bits of a character, bits a byte moves on, and where in its character a byte begins.
Fits(bits, inc, shift) ==
  /\ bits \in {6, 7} /\ inc \in {1, 2} /\ bits + inc = 8
  /\ shift \in Nat /\ shift + inc <= bits

\* A byte from two neighbouring characters.
Joined(low, high, bits, shift) == Down(Lowest(low, bits), shift) \cup Up(high, bits - shift)

\* A byte in two neighbouring characters, beside the bits of the byte before.
LEMMA ByteInTwo ==
  ASSUME NEW bits, NEW inc, NEW shift, Fits(bits, inc, shift), NEW c \in Octet,
         NEW old \in SUBSET (0 .. bits), Lowest(old, bits) \subseteq 0 .. shift - 1,
         NEW low, low = old \cup {bits} \cup Lowest(Up(c, shift), bits),
         NEW high, high = {bits} \cup Down(c, bits - shift)
  PROVE  /\ low \in SUBSET (0 .. bits) /\ high \in SUBSET (0 .. bits) /\ bits \in low /\ bits \in high
         /\ low \in Octet /\ high \in Octet
         /\ Lowest(high, bits) \subseteq 0 .. shift + inc - 1
         /\ Joined(low, high, bits, shift) = c
<1>1. /\ shift \in Nat /\ shift < bits /\ bits \in {6, 7} /\ inc \in {1, 2}
      /\ bits + inc = 8 /\ shift + inc <= bits
  BY DEF Fits
<1>b. Lowest(Up(c, shift), bits) \in SUBSET (0 .. bits)
  BY <1>1 DEF Lowest
<1>c. \A i \in Down(c, bits - shift) : i \in 0 .. shift + inc - 1
  BY <1>1 DEF Down, Octet
<1>2. low \in SUBSET (0 .. bits) /\ high \in SUBSET (0 .. bits) /\ bits \in low /\ bits \in high
  <2>1. Down(c, bits - shift) \in SUBSET (0 .. bits) /\ bits \in 0 .. bits
    BY <1>1, <1>c
  <2> QED BY <1>b, <2>1
<1>o. low \in Octet /\ high \in Octet
  <2>1. \A i \in 0 .. bits : i \in 0 .. 7
    BY <1>1
  <2> QED BY <1>2, <2>1, Zenon DEF Octet
<1>3. Lowest(high, bits) \subseteq 0 .. shift + inc - 1
  BY <1>1, <1>c DEF Lowest
<1>4. \A j \in 0 .. 7 : j \in Down(Lowest(low, bits), shift) <=> j + shift < bits /\ j \in c
  <2> SUFFICES ASSUME NEW j \in 0 .. 7
               PROVE  j \in Down(Lowest(low, bits), shift) <=> j + shift < bits /\ j \in c
    OBVIOUS
  <2>1. j \in Down(Lowest(low, bits), shift) <=> j + shift \in low /\ j + shift < bits
    BY <1>1 DEF Down, Lowest
  <2>2. j + shift < bits => j + shift \notin old
    BY <1>1 DEF Lowest
  <2>3. j + shift < bits => (j + shift \in Lowest(Up(c, shift), bits) <=> j \in c)
    <3>1. (j + shift) - shift = j
      BY <1>1
    <3> QED BY <1>1, <3>1 DEF Lowest, Up
  <2>4. j + shift < bits => (j + shift \in low <=> j \in c)
    BY <1>1, <2>2, <2>3
  <2> QED BY <2>1, <2>4
<1>5. \A j \in 0 .. 7 : j \in Up(high, bits - shift) <=> j + shift >= bits /\ j \in c
  <2> SUFFICES ASSUME NEW j \in 0 .. 7
               PROVE  j \in Up(high, bits - shift) <=> j + shift >= bits /\ j \in c
    OBVIOUS
  <2>1. j \in Up(high, bits - shift) <=> j - (bits - shift) \in high
    BY DEF Up
  <2>2. j - (bits - shift) # bits
    BY <1>1
  <2>3. (j - (bits - shift)) + (bits - shift) = j
    BY <1>1
  <2>4. j - (bits - shift) \in Down(c, bits - shift) <=> j + shift >= bits /\ j \in c
    BY <2>3, <1>1 DEF Down
  <2> QED BY <2>1, <2>2, <2>4
<1>6. Joined(low, high, bits, shift) = c
  <2>1. /\ Down(Lowest(low, bits), shift) \subseteq 0 .. 7 /\ Up(high, bits - shift) \subseteq 0 .. 7
        /\ c \subseteq 0 .. 7
    BY DEF Down, Up, Octet
  <2>2. \A j \in 0 .. 7 : j + shift < bits \/ j + shift >= bits
    BY <1>1
  <2> QED BY <2>1, <2>2, <1>4, <1>5 DEF Joined
<1> QED BY <1>o, <1>2, <1>3, <1>6

\* The bits added to a character do not reach the byte before.
LEMMA ByteBeforeStays ==
  ASSUME NEW bits, NEW inc, NEW shift, Fits(bits, inc, shift), NEW c \in Octet, NEW old,
         NEW before \in Nat, before + inc = shift
  PROVE  Up(old \cup {bits} \cup Lowest(Up(c, shift), bits), bits - before) = Up(old, bits - before)
<1> DEFINE m == bits - before
<1>1. shift \in Nat /\ m \in Nat /\ shift + m = 8 /\ bits + m > 7 /\ bits \in {6, 7}
  BY DEF Fits
<1> HIDE DEF m
<1>2. ASSUME NEW j \in 0 .. 7 PROVE j - m # bits /\ j - m \notin Lowest(Up(c, shift), bits)
  <2>1. j - m # bits
    BY <1>1
  <2>2. (j - m) - shift < 0
    BY <1>1
  <2>3. j - m \notin Up(c, shift)
    BY <2>2, <1>1 DEF Up, Octet
  <2> QED BY <2>1, <2>3 DEF Lowest
<1>3. Up(old \cup {bits} \cup Lowest(Up(c, shift), bits), m) = Up(old, m)
  BY <1>2 DEF Up
<1> QED BY <1>3 DEF m

\* What the decoder adds to the byte before is what reading in place takes.
LEMMA UpperPart ==
  ASSUME NEW bits, NEW inc, NEW shift, Fits(bits, inc, shift), NEW char \in Octet
  PROVE  Up(Lowest(char, bits), 8 - (shift + inc)) = Up(char, bits - shift)
<1> DEFINE k == bits - shift
<1>1. 8 - (shift + inc) = k /\ k \in 1 .. bits /\ bits \in {6, 7} /\ bits + k > 7
  BY DEF Fits
<1> HIDE DEF k
<1>2. ASSUME NEW j \in 0 .. 7 PROVE j - k \in Lowest(char, bits) <=> j - k \in char
  <2>1. j - k < bits
    BY <1>1
  <2> QED BY <2>1, <1>1 DEF Lowest, Octet
<1> QED BY <1>1, <1>2 DEF Up, k

-----------------------------------------------------------------------------
\* Bytes and characters are counted in groups.
LEMMA NextInGroup ==
  ASSUME NEW m \in {3, 4, 7, 8}, NEW n \in Nat
  PROVE  /\ n \div m \in Nat /\ n % m \in 0 .. m - 1 /\ n = m * (n \div m) + (n % m)
         /\ (n % m) + 1 < m => (n + 1) \div m = n \div m /\ (n + 1) % m = (n % m) + 1
         /\ (n % m) + 1 = m => (n + 1) \div m = (n \div m) + 1 /\ (n + 1) % m = 0
<1>1. CASE m = 3
  BY <1>1
<1>2. CASE m = 4
  BY <1>2
<1>3. CASE m = 7
  BY <1>3
<1>4. CASE m = 8
  BY <1>4
<1> QED BY <1>1, <1>2, <1>3, <1>4

LEMMA GroupsGrow ==
  ASSUME NEW m \in {3, 4, 7, 8}, NEW a \in Nat, NEW b \in Nat, a <= b
  PROVE  a \div m <= b \div m
<1>1. CASE m = 3
  BY <1>1
<1>2. CASE m = 4
  BY <1>2
<1>3. CASE m = 7
  BY <1>3
<1>4. CASE m = 8
  BY <1>4
<1> QED BY <1>1, <1>2, <1>3, <1>4

\* What the numbers of both geometries have in common.
LEMMA Common ==
  ASSUME NEW g \in {DataGeometry, AckGeometry}
  PROVE  /\ Group(g) \in {3, 7} /\ 8 \div g.inc = Group(g) + 1 /\ Group(g) + 1 \in {4, 8}
         /\ g.bits \in {6, 7} /\ g.inc \in {1, 2}
         /\ \A step \in 0 .. Group(g) - 1 :
              Fits(g.bits, g.inc, g.inc * step) /\ g.inc * (step + 1) = g.inc * step + g.inc
         /\ g.end \in Octet /\ g.bits \notin g.end
         /\ g.least \in Nat /\ g.most \in Nat /\ g.least >= 5
         /\ g.tx \in Nat /\ g.rx \in Nat /\ g.most + 2 <= g.rx
<1>1. TX_BUFFER \in Nat /\ RX_BUFFER = FRAME_PAYLOAD + 8 /\ FRAME_PAYLOAD \in Nat
  <2>1. \A f \in Nat : ((8 * (f + 8)) \div 7) + 3 \in Nat
    OBVIOUS
  <2> QED BY <2>1, PayloadAssumption DEF TX_BUFFER, RX_BUFFER
<1>2. \/ /\ g.bits = 7 /\ g.inc = 1 /\ Group(g) = 7 /\ 8 \div g.inc = 8
         /\ g.tx = TX_BUFFER /\ g.rx = RX_BUFFER /\ g.end = {1}
         /\ g.least = 7 /\ g.most = FRAME_PAYLOAD + 6
      \/ /\ g.bits = 6 /\ g.inc = 2 /\ Group(g) = 3 /\ 8 \div g.inc = 4
         /\ g.tx = 16 /\ g.rx = 16 /\ g.end = {0} /\ g.least = 5 /\ g.most = 5
  BY Numbers DEF Group
<1> QED BY <1>1, <1>2 DEF Fits, Octet

\* The encoder has room for a frame and its end.
LEMMA RoomForFrame ==
  ASSUME NEW g \in {DataGeometry, AckGeometry}, NEW n \in Nat, n <= g.most
  PROVE  n + (n \div Group(g)) + 3 < g.tx
<1>1. CASE g.bits = 7
  <2>1. g.tx = TX_BUFFER /\ Group(g) = 7 /\ g.most = FRAME_PAYLOAD + 6
    BY <1>1, Numbers DEF Group
  <2>2. \A f \in Nat : n <= f + 6 => n + (n \div 7) + 3 < ((8 * (f + 8)) \div 7) + 3
    OBVIOUS
  <2> QED BY <2>1, <2>2, PayloadAssumption DEF TX_BUFFER, RX_BUFFER
<1>2. CASE g.bits # 7
  <2>1. g.tx = 16 /\ Group(g) = 3 /\ g.most = 5
    BY <1>2, Numbers DEF Group
  <2> QED BY <2>1
<1> QED BY <1>1, <1>2

\* Reading in place takes byte m from the character it begins in and the next one.
LEMMA ReadsAt ==
  ASSUME NEW g \in {DataGeometry, AckGeometry}, NEW b, NEW m \in Nat
  PROVE  DecodeByte(g, b, m) =
           Joined(b[m + (m \div Group(g)) + 1], b[m + (m \div Group(g)) + 2],
                  g.bits, g.inc * (m % Group(g)))
<1> DEFINE q == m \div Group(g)
           r == m % Group(g)
           o == ((8 \div g.inc) * q) + r
<1>1. 8 \div g.inc = Group(g) + 1 /\ Group(g) \in {3, 7}
  BY Common
<1>2. q \in Nat /\ r \in Nat /\ m = Group(g) * q + r
  <2> DEFINE w == Group(g)
  <2>1. w \in {3, 4, 7, 8}
    BY <1>1
  <2> HIDE DEF w
  <2>2. m \div w \in Nat /\ m % w \in 0 .. w - 1 /\ m = w * (m \div w) + (m % w)
    BY <2>1, NextInGroup
  <2>3. w \in Nat
    BY <2>1
  <2> QED BY <2>2, <2>3 DEF w
<1>3. o + 1 = m + q + 1 /\ (o + 1) + 1 = m + q + 2
  <2> HIDE DEF q, r
  <2>1. CASE Group(g) = 3
    BY <1>1, <1>2, <2>1
  <2>2. CASE Group(g) = 7
    BY <1>1, <1>2, <2>2
  <2> QED BY <1>1, <2>1, <2>2
<1>4. DecodeByte(g, b, m) = Joined(b[o + 1], b[(o + 1) + 1], g.bits, g.inc * r)
  BY DEF DecodeByte, Joined
<1> QED BY <1>3, <1>4

-----------------------------------------------------------------------------
\* Where a byte begins, and the characters before it.
LEMMA Places ==
  ASSUME NEW g \in {DataGeometry, AckGeometry}, NEW n \in Nat
  PROVE  LET q == n \div Group(g)
             r == n % Group(g)
         IN /\ q \in Nat /\ r \in 0 .. Group(g) - 1
            /\ Chars(g, n) = n + q + (IF r # 0 THEN 1 ELSE 0)
            /\ Chars(g, n + 1) = n + q + 2
            /\ r + 1 < Group(g) => (n + 1) \div Group(g) = q /\ (n + 1) % Group(g) = r + 1
            /\ r + 1 >= Group(g) => (n + 1) \div Group(g) = q + 1 /\ (n + 1) % Group(g) = 0
            /\ \A m \in 0 .. n - 1 :
                 /\ m \div Group(g) \in Nat /\ m % Group(g) \in 0 .. Group(g) - 1
                 /\ \/ m + (m \div Group(g)) + 2 <= n + q
                    \/ r # 0 /\ m \div Group(g) = q /\ m % Group(g) = r - 1 /\ m = n - 1
<1> DEFINE w == Group(g)
           q == n \div w
           r == n % w
<1>1. w \in {3, 7} /\ w \in {3, 4, 7, 8} /\ w \in Nat
  BY Common
<1>2. Chars(g, n) = n + q + (IF r # 0 THEN 1 ELSE 0)
  BY DEF Chars
<1>3. Chars(g, n + 1) = (n + 1) + ((n + 1) \div w) + (IF (n + 1) % w # 0 THEN 1 ELSE 0)
  BY DEF Chars
<1> HIDE DEF w
<1>5. /\ q \in Nat /\ r \in 0 .. w - 1 /\ n = w * q + r
      /\ r + 1 < w => (n + 1) \div w = q /\ (n + 1) % w = r + 1
      /\ r + 1 = w => (n + 1) \div w = q + 1 /\ (n + 1) % w = 0
  BY <1>1, NextInGroup
<1>6. r + 1 >= w => r + 1 = w
  BY <1>1, <1>5
<1>7. Chars(g, n + 1) = n + q + 2
  <2>1. CASE r + 1 < w
    BY <1>1, <1>3, <1>5, <2>1
  <2>2. CASE r + 1 = w
    BY <1>1, <1>3, <1>5, <2>2
  <2> QED BY <1>1, <1>5, <2>1, <2>2
<1>8. ASSUME NEW m \in 0 .. n - 1
      PROVE  /\ m \div w \in Nat /\ m % w \in 0 .. w - 1
             /\ \/ m + (m \div w) + 2 <= n + q
                \/ r # 0 /\ m \div w = q /\ m % w = r - 1 /\ m = n - 1
  <2>1. m \in Nat /\ m <= n /\ m \div w \in Nat /\ m % w \in 0 .. w - 1 /\ m \div w <= q
    BY <1>1, NextInGroup, GroupsGrow
  <2>2. CASE m = n - 1
    <3>1. m + 1 = n
      BY <2>1, <2>2
    <3>2. /\ (m % w) + 1 < w => q = m \div w /\ r = (m % w) + 1
          /\ (m % w) + 1 = w => q = (m \div w) + 1 /\ r = 0
      BY <1>1, <2>1, <3>1, NextInGroup
    <3> HIDE DEF q, r
    <3>3. CASE (m % w) + 1 < w
      BY <1>1, <1>5, <2>1, <2>2, <3>2, <3>3
    <3>4. CASE (m % w) + 1 = w
      BY <1>1, <1>5, <2>1, <2>2, <3>2, <3>4
    <3> QED BY <1>1, <2>1, <3>3, <3>4
  <2>3. CASE m # n - 1
    <3> HIDE DEF q, r
    <3> QED BY <1>5, <2>1, <2>3
  <2> QED BY <2>1, <2>2, <2>3
<1> QED BY <1>2, <1>5, <1>6, <1>7, <1>8 DEF w

-----------------------------------------------------------------------------
\* Types and numbers of a state, for every step.
LEMMA Unpacked ==
  ASSUME CodecInv
  PROVE  /\ kind \in {"data", "ack"} /\ Geometry \in {DataGeometry, AckGeometry}
         /\ frames \in 1 .. MaxFrames
         /\ tx.count \in 1 .. Geometry.tx /\ tx.buffer \in [0 .. Geometry.tx - 1 -> Octet]
         /\ rx.count \in 1 .. Geometry.rx /\ rx.step \in 0 .. Group(Geometry)
         /\ rx.buffer \in [0 .. Geometry.rx - 1 -> Octet]
         /\ input \in Seq(Byte) /\ held \in Seq(Byte) /\ crc \in Seq(Octet) /\ line \in Seq(Octet)
         /\ Len(input) \in Nat /\ Len(input) <= Geometry.most
<1>1. kind \in {"data", "ack"} /\ Geometry \in {DataGeometry, AckGeometry}
  BY ItsGeometry DEF CodecInv, TypeOK
<1>2. 8 \div Geometry.inc = Group(Geometry) + 1 /\ Group(Geometry) \in Nat
  BY <1>1, Common
<1>3. rx.step \in 0 .. (8 \div Geometry.inc) - 1
  BY DEF CodecInv, TypeOK, BufferType
<1>4. rx.step \in 0 .. Group(Geometry)
  BY <1>2, <1>3
<1> QED BY <1>1, <1>4 DEF CodecInv, TypeOK, BufferType

\* The decoder before the first character of a frame.
LEMMA NothingGone ==
  ASSUME CodecInv, Gone = 0, DecoderInv
  PROVE  rx.step = 0 /\ rx.count = 1 /\ crc = <<>>
<1> DEFINE w == Group(Geometry) + 1
<1>1. w \in {4, 8} /\ rx.count \in Nat
  <2>1. Geometry \in {DataGeometry, AckGeometry} /\ rx.count \in 1 .. Geometry.rx
    BY Unpacked
  <2>2. w \in {4, 8} /\ Geometry.rx \in Nat
    BY <2>1, Common
  <2> QED BY <2>1, <2>2
<1>2. rx.step = 0 % w /\ 0 = (rx.count - 1) + (0 \div w) + (IF rx.step # 0 THEN 1 ELSE 0)
      /\ crc = [i \in 1 .. rx.count - 1 |-> input[i]]
  BY DEF DecoderInv
<1> HIDE DEF w
<1>3. 0 % w = 0 /\ 0 \div w = 0
  BY <1>1
<1>4. rx.step = 0 /\ rx.count = 1
  BY <1>1, <1>2, <1>3
<1> QED BY <1>2, <1>4

LEMMA NothingGoneNext ==
  ASSUME CodecInv, kind' = kind, Gone' = 0, Len(input') \in Nat,
         rx'.step = 0, rx'.count = 1, crc' = <<>>
  PROVE  DecoderInv'
<1> DEFINE w == Group(Geometry) + 1
<1>1. w \in {4, 8} /\ Geometry' = Geometry
  BY Unpacked, Common DEF Geometry
<1>2. 0 % w = 0 /\ 0 \div w = 0
  <2> HIDE DEF w
  <2> QED BY <1>1
<1>3. crc' = [i \in 1 .. rx'.count - 1 |-> input'[i]]
  OBVIOUS
<1> QED BY <1>1, <1>2, <1>3 DEF DecoderInv

LEMMA EncodeStep ==
  ASSUME CodecInv, NEW c \in Byte, Encode(Geometry, c)
  PROVE  CodecInv'
<1> DEFINE g == Geometry
           n == Len(input)
           q == n \div Group(g)
           r == n % Group(g)
           k == tx.count
           shift == g.inc * r
           old == IF r = 0 THEN {} ELSE tx.buffer[k]
           low == old \cup {g.bits} \cup Lowest(Up(c, shift), g.bits)
           high == {g.bits} \cup Down(c, g.bits - shift)
           b == [tx.buffer EXCEPT ![k] = low, ![k + 1] = high]
<1>1. /\ kind \in {"data", "ack"} /\ g \in {DataGeometry, AckGeometry} /\ k \in 1 .. g.tx
      /\ tx.buffer \in [0 .. g.tx - 1 -> Octet] /\ n \in Nat /\ input \in Seq(Byte)
      /\ c \in Octet
  BY Unpacked, ByteAssumption
<1>2. /\ Encoding /\ n < g.most /\ input' = Append(input, c)
      /\ tx' = IF k < g.tx - 1 THEN Encoded(g, c) ELSE tx
      /\ UNCHANGED <<kind, rx, crc, line, taken, held, frames>>
  BY DEF Encode, Encoding
<1>3. /\ k = 1 + n + q /\ tx.step = r
      /\ r # 0 => Lowest(tx.buffer[k], g.bits) \subseteq 0 .. shift - 1
      /\ \A i \in 1 .. Chars(g, n) : tx.buffer[i] \subseteq 0 .. g.bits /\ g.bits \in tx.buffer[i]
      /\ \A i \in 1 .. n : DecodeByte(g, tx.buffer, i - 1) = input[i]
  BY <1>2 DEF CodecInv, EncoderInv, BytesReadableInPlace
<1>4. /\ Group(g) \in {3, 7} /\ g.bits \in {6, 7} /\ g.tx \in Nat /\ g.most \in Nat
      /\ \A step \in 0 .. Group(g) - 1 :
           Fits(g.bits, g.inc, g.inc * step) /\ g.inc * (step + 1) = g.inc * step + g.inc
  BY <1>1, Common
<1>5. n + q + 3 < g.tx /\ q \in Nat
  <2>1. q \in Nat
    BY <1>1, Places
  <2> QED BY <1>1, <1>2, <1>4, <2>1, RoomForFrame
<1>6. tx' = Encoded(g, c)
  <2>1. k < g.tx - 1
    <3> HIDE DEF g, n, q, k
    <3> QED BY <1>1, <1>3, <1>4, <1>5
  <2> QED BY <1>2, <2>1
<1>7. /\ tx'.buffer = b /\ tx'.count = k + (IF Wraps(g) THEN 2 ELSE 1)
      /\ tx'.step = IF Wraps(g) THEN 0 ELSE r + 1
  <2>1. LowChar(g, c, IF tx.step = 0 THEN {} ELSE tx.buffer[k]) = low /\ HighChar(g, c) = high
    BY <1>3, Zenon DEF LowChar, HighChar
  <2>2. /\ tx'.buffer = [tx.buffer EXCEPT ![k] = LowChar(g, c, IF tx.step = 0 THEN {} ELSE tx.buffer[k]),
                                         ![k + 1] = HighChar(g, c)]
        /\ tx'.count = k + (IF Wraps(g) THEN 2 ELSE 1)
        /\ tx'.step = IF Wraps(g) THEN 0 ELSE tx.step + 1
    <3> HIDE DEF g
    <3> QED BY <1>6 DEF Encoded
  <2> QED BY <1>3, <2>1, <2>2, Zenon
<1>8. /\ q \in Nat /\ r \in 0 .. Group(g) - 1
      /\ Chars(g, n) = n + q + (IF r # 0 THEN 1 ELSE 0)
      /\ Chars(g, n + 1) = n + q + 2
      /\ r + 1 < Group(g) => (n + 1) \div Group(g) = q /\ (n + 1) % Group(g) = r + 1
      /\ r + 1 >= Group(g) => (n + 1) \div Group(g) = q + 1 /\ (n + 1) % Group(g) = 0
      /\ \A m \in 0 .. n - 1 :
           /\ m \div Group(g) \in Nat /\ m % Group(g) \in 0 .. Group(g) - 1
           /\ \/ m + (m \div Group(g)) + 2 <= n + q
              \/ r # 0 /\ m \div Group(g) = q /\ m % Group(g) = r - 1 /\ m = n - 1
  <2> HIDE DEF g, n
  <2> QED BY <1>1, Places DEF q, r
<1>d. /\ q \in Nat /\ r \in 0 .. Group(g) - 1
      /\ Chars(g, n) = n + q + (IF r # 0 THEN 1 ELSE 0) /\ Chars(g, n + 1) = n + q + 2
  BY <1>8
<1>w. Wraps(g) <=> r + 1 >= Group(g)
  BY <1>3 DEF Wraps
<1>f. Fits(g.bits, g.inc, shift) /\ g.inc * (r + 1) = shift + g.inc
  BY <1>4, <1>8
<1> HIDE DEF g, n, q, r, k, shift
<1>9. old \in SUBSET (0 .. g.bits) /\ Lowest(old, g.bits) \subseteq 0 .. shift - 1
  <2>1. CASE r = 0
    BY <2>1 DEF Lowest
  <2>2. CASE r # 0
    <3>1. k \in 1 .. Chars(g, n)
      BY <1>1, <1>3, <1>8, <2>2
    <3> QED BY <1>3, <2>2, <3>1
  <2> QED BY <2>1, <2>2
<1>10. \A i \in 1 .. k - 1 : tx.buffer[i] \subseteq 0 .. g.bits /\ g.bits \in tx.buffer[i]
  <2>1. \A i \in 1 .. k - 1 : i \in 1 .. Chars(g, n)
    BY <1>1, <1>3, <1>8
  <2> QED BY <1>3, <2>1
<1>11. k \in Nat \ {0} /\ g.tx \in Nat /\ k + 1 < g.tx /\ Chars(g, n + 1) = k + 1
  BY <1>1, <1>3, <1>4, <1>5, <1>8
<1>l. /\ low = old \cup {g.bits} \cup Lowest(Up(c, shift), g.bits)
      /\ high = {g.bits} \cup Down(c, g.bits - shift)
      /\ b = [tx.buffer EXCEPT ![k] = low, ![k + 1] = high]
  OBVIOUS
<1> HIDE DEF old, low, high, b
<1>12. /\ low \in SUBSET (0 .. g.bits) /\ high \in SUBSET (0 .. g.bits) /\ g.bits \in low /\ g.bits \in high
       /\ low \in Octet /\ high \in Octet
       /\ Lowest(high, g.bits) \subseteq 0 .. shift + g.inc - 1
       /\ Joined(low, high, g.bits, shift) = c
  <2> DEFINE bits == g.bits
             inc == g.inc
  <2>1. /\ Fits(bits, inc, shift) /\ c \in Octet
        /\ old \in SUBSET (0 .. bits) /\ Lowest(old, bits) \subseteq 0 .. shift - 1
        /\ low = old \cup {bits} \cup Lowest(Up(c, shift), bits)
        /\ high = {bits} \cup Down(c, bits - shift)
    BY <1>1, <1>f, <1>9, <1>l
  <2> HIDE DEF bits, inc
  <2>2. /\ low \in SUBSET (0 .. bits) /\ high \in SUBSET (0 .. bits) /\ bits \in low /\ bits \in high
        /\ low \in Octet /\ high \in Octet
        /\ Lowest(high, bits) \subseteq 0 .. shift + inc - 1
        /\ Joined(low, high, bits, shift) = c
    BY <2>1, ByteInTwo
  <2> QED BY <2>2 DEF bits, inc
<1>b. /\ b \in [0 .. g.tx - 1 -> Octet] /\ b[k] = low /\ b[k + 1] = high
      /\ \A i \in 0 .. k - 1 : b[i] = tx.buffer[i]
  <2>1. /\ k \in 0 .. g.tx - 1 /\ k + 1 \in 0 .. g.tx - 1 /\ k + 1 # k
        /\ \A i \in 0 .. k - 1 : i # k /\ i # k + 1 /\ i \in 0 .. g.tx - 1
    BY <1>11
  <2>2. b \in [0 .. g.tx - 1 -> Octet]
    BY <1>1, <1>l, <1>12
  <2>3. b[k] = low /\ b[k + 1] = high /\ \A i \in 0 .. k - 1 : b[i] = tx.buffer[i]
    BY <1>1, <1>l, <2>1, Zenon
  <2> QED BY <2>2, <2>3
<1>c. ASSUME NEW i \in 1 .. k + 1 PROVE b[i] \subseteq 0 .. g.bits /\ g.bits \in b[i]
  <2>1. i = k \/ i = k + 1 \/ (i \in 1 .. k - 1 /\ i \in 0 .. k - 1)
    BY <1>11
  <2> QED BY <1>10, <1>12, <1>b, <2>1, Zenon
<1>13. ASSUME NEW m \in 0 .. n - 1 PROVE DecodeByte(g, b, m) = DecodeByte(g, tx.buffer, m)
  <2> DEFINE x == m \div Group(g)
             y == m % Group(g)
             before == g.inc * y
  <2>0. m \in Nat
    BY <1>1
  <2>1. /\ DecodeByte(g, b, m) = Joined(b[m + x + 1], b[m + x + 2], g.bits, before)
        /\ DecodeByte(g, tx.buffer, m) = Joined(tx.buffer[m + x + 1], tx.buffer[m + x + 2], g.bits, before)
    BY <1>1, <2>0, ReadsAt
  <2>2. /\ x \in Nat /\ y \in 0 .. Group(g) - 1
        /\ m + x + 2 <= n + q \/ (r # 0 /\ x = q /\ y = r - 1 /\ m = n - 1)
    BY <1>8
  <2>3. g.inc * (y + 1) = before + g.inc /\ before \in Nat
    BY <1>4, <2>2 DEF Fits
  <2> HIDE DEF x, before
  <2>4. CASE m + x + 2 <= n + q
    <3>1. m + x + 1 \in 0 .. k - 1 /\ m + x + 2 \in 0 .. k - 1
      BY <1>1, <1>3, <1>8, <2>2, <2>4
    <3> QED BY <1>b, <2>1, <3>1
  <2>5. CASE r # 0 /\ x = q /\ y = r - 1 /\ m = n - 1
    <3>1. m + x + 1 \in 0 .. k - 1 /\ m + x + 2 = k /\ y + 1 = r
      BY <1>1, <1>3, <1>8, <2>2, <2>5
    <3>2. before + g.inc = shift
      BY <2>3, <3>1 DEF shift
    <3>3. Up(low, g.bits - before) = Up(old, g.bits - before)
      BY <1>1, <1>f, <2>3, <3>2, ByteBeforeStays DEF low
    <3>4. old = tx.buffer[k]
      BY <2>5 DEF old
    <3> QED BY <1>b, <2>1, <3>1, <3>3, <3>4 DEF Joined
  <2> QED BY <2>2, <2>4, <2>5
<1>14. DecodeByte(g, b, n) = c
  <2>1. n + q + 1 = k /\ n + q + 2 = k + 1
    BY <1>1, <1>3, <1>8
  <2>2. DecodeByte(g, b, n) = Joined(b[n + q + 1], b[n + q + 2], g.bits, shift)
    BY <1>1, ReadsAt DEF q, r, shift
  <2> QED BY <1>12, <1>b, <2>1, <2>2
<1>15. Len(input') = n + 1 /\ input' \in Seq(Byte)
       /\ input'[n + 1] = c /\ \A i \in 1 .. n : input'[i] = input[i]
  BY <1>1, <1>2 DEF n
<1>16. \A i \in 1 .. n + 1 : DecodeByte(g, b, i - 1) = input'[i]
  <2> SUFFICES ASSUME NEW i \in 1 .. n + 1 PROVE DecodeByte(g, b, i - 1) = input'[i]
    OBVIOUS
  <2>1. CASE i = n + 1
    <3>1. i - 1 = n
      BY <1>1, <2>1
    <3> QED BY <1>14, <1>15, <2>1, <3>1
  <2>2. CASE i # n + 1
    <3>1. i \in 1 .. n /\ i - 1 \in 0 .. n - 1
      BY <1>1, <2>2
    <3> QED BY <1>3, <1>13, <1>15, <3>1
  <2> QED BY <2>1, <2>2
<1>17. Geometry' = g /\ Encoding' /\ Gone' = 0 /\ Gone = 0
  BY <1>2 DEF g, Geometry, Encoding, Gone
<1>18. /\ tx'.count = 1 + (n + 1) + ((n + 1) \div Group(g)) /\ tx'.step = (n + 1) % Group(g)
       /\ tx'.count \in 1 .. g.tx /\ tx'.step \in 0 .. Group(g) - 1
       /\ tx'.step # 0 => tx'.count = k + 1 /\ g.inc * tx'.step = shift + g.inc
  <2> DEFINE w == Group(g)
             x == (n + 1) \div w
             y == (n + 1) % w
  <2>1. w \in Nat /\ w >= 3 /\ k \in Nat /\ n \in Nat /\ q \in Nat /\ k = 1 + n + q /\ r \in 0 .. w - 1
        /\ n + q + 3 < g.tx /\ g.tx \in Nat
    BY <1>1, <1>3, <1>4, <1>5, <1>d
  <2>2. (r + 1 < w => x = q /\ y = r + 1) /\ (r + 1 >= w => x = q + 1 /\ y = 0)
    BY <1>8
  <2>3. /\ r + 1 >= w => tx'.count = k + 2 /\ tx'.step = 0
        /\ r + 1 < w => tx'.count = k + 1 /\ tx'.step = r + 1
    <3>1. Wraps(g) <=> r + 1 >= w
      BY <1>w
    <3>2. r + 1 < w => ~(r + 1 >= w)
      BY <2>1
    <3> QED BY <1>7, <3>1, <3>2, Zenon
  <2> HIDE DEF w, x, y
  <2>4. CASE r + 1 < w
    <3>1. tx'.count = 1 + (n + 1) + x /\ tx'.step = y /\ tx'.count \in 1 .. g.tx /\ tx'.step \in 0 .. w - 1
      BY <2>1, <2>2, <2>3, <2>4
    <3> QED BY <1>f, <2>3, <2>4, <3>1 DEF w, x, y
  <2>5. CASE r + 1 >= w
    <3>1. tx'.count = 1 + (n + 1) + x /\ tx'.step = y /\ tx'.count \in 1 .. g.tx /\ tx'.step \in 0 .. w - 1
      BY <2>1, <2>2, <2>3, <2>5
    <3> QED BY <2>3, <2>5, <3>1 DEF w, x, y
  <2> QED BY <2>1, <2>4, <2>5
<1>19. EncoderInv'
  <2>1. \A i \in 1 .. Chars(g, n + 1) : b[i] \subseteq 0 .. g.bits /\ g.bits \in b[i]
    BY <1>11, <1>c
  <2>2. tx'.step # 0 => Lowest(tx'.buffer[tx'.count], g.bits) \subseteq 0 .. g.inc * tx'.step - 1
    <3>1. tx'.step # 0 => tx'.count = k + 1 /\ g.inc * tx'.step = shift + g.inc
      BY <1>18
    <3> SUFFICES ASSUME tx'.step # 0
                 PROVE  Lowest(tx'.buffer[tx'.count], g.bits) \subseteq 0 .. g.inc * tx'.step - 1
      OBVIOUS
    <3>2. tx'.buffer[tx'.count] = b[k + 1] /\ g.inc * tx'.step = shift + g.inc
      BY <1>7, <3>1, Zenon
    <3> DEFINE top == g.inc * tx'.step
    <3>3. top = shift + g.inc /\ shift \in Nat /\ g.inc \in Nat
      BY <1>f, <3>2 DEF Fits
    <3> HIDE DEF top
    <3>4. Lowest(b[k + 1], g.bits) \subseteq 0 .. top - 1
      BY <1>12, <1>b, <3>3
    <3> QED BY <3>2, <3>4, Zenon DEF top
  <2> QED BY <1>7, <1>15, <1>16, <1>17, <1>18, <2>1, <2>2 DEF EncoderInv, BytesReadableInPlace
<1>20. Len(input') <= Geometry'.most /\ LineInv'
  BY <1>1, <1>2, <1>4, <1>15, <1>17 DEF LineInv, Encoding, g
<1>21. TypeOK'
  <2>1. tx'.buffer \in [0 .. Geometry'.tx - 1 -> Octet] /\ BufferType(tx, Geometry.tx, Group(Geometry))'
    BY <1>7, <1>b, <1>17, <1>18 DEF BufferType
  <2>2. BufferType(rx, Geometry.rx, 8 \div Geometry.inc)'
    BY <1>2, <1>17 DEF CodecInv, TypeOK, g
  <2> QED BY <1>2, <1>15, <2>1, <2>2 DEF CodecInv, TypeOK
<1>22. taken' = <<>> /\ (IF held = <<>> THEN DecoderInv ELSE HeldInv)'
  <2>1. taken = <<>> /\ (IF held = <<>> THEN DecoderInv ELSE HeldInv)
    BY <1>2 DEF CodecInv, Encoding
  <2>2. CASE held = <<>>
    <3>1. rx.step = 0 /\ rx.count = 1 /\ crc = <<>>
      BY <2>1, <2>2, <1>17, NothingGone
    <3>2. /\ Len(input') \in Nat /\ rx' = rx /\ crc' = crc /\ kind' = kind /\ held' = held
          /\ taken' = taken
      BY <1>1, <1>2, <1>15
    <3> QED BY <2>1, <2>2, <3>1, <3>2, <1>17, NothingGoneNext
  <2>3. CASE held # <<>>
    BY <2>1, <2>3, <1>2, <1>17 DEF HeldInv, Full, g
  <2> QED BY <2>2, <2>3
<1> QED BY <1>19, <1>20, <1>21, <1>22 DEF CodecInv

\* The characters a byte is read from belong to the frame.
LEMMA InsideFrame ==
  ASSUME NEW g \in {DataGeometry, AckGeometry}, NEW n \in Nat, NEW m \in 0 .. n - 1
  PROVE  /\ m + (m \div Group(g)) + 1 \in 1 .. Chars(g, n)
         /\ m + (m \div Group(g)) + 2 \in 1 .. Chars(g, n)
<1> DEFINE x == m \div Group(g)
           q == n \div Group(g)
           r == n % Group(g)
<1>1. /\ q \in Nat /\ r \in 0 .. Group(g) - 1
      /\ Chars(g, n) = n + q + (IF r # 0 THEN 1 ELSE 0)
      /\ Chars(g, n + 1) = n + q + 2
      /\ r + 1 < Group(g) => (n + 1) \div Group(g) = q /\ (n + 1) % Group(g) = r + 1
      /\ r + 1 >= Group(g) => (n + 1) \div Group(g) = q + 1 /\ (n + 1) % Group(g) = 0
      /\ \A l \in 0 .. n - 1 :
           /\ l \div Group(g) \in Nat /\ l % Group(g) \in 0 .. Group(g) - 1
           /\ \/ l + (l \div Group(g)) + 2 <= n + q
              \/ r # 0 /\ l \div Group(g) = q /\ l % Group(g) = r - 1 /\ l = n - 1
  BY Places
<1>2. m \in Nat /\ x \in Nat /\ (m + x + 2 <= n + q \/ (r # 0 /\ x = q /\ m = n - 1))
  BY <1>1
<1> HIDE DEF x, q, r
<1>3. m + x + 1 \in 1 .. Chars(g, n) /\ m + x + 2 \in 1 .. Chars(g, n)
  BY <1>1, <1>2
<1> QED BY <1>3 DEF x

LEMMA EncodeEndStep ==
  ASSUME CodecInv, EncodeEnd
  PROVE  CodecInv'
<1> DEFINE g == Geometry
           n == Len(input)
           q == n \div Group(g)
           r == n % Group(g)
           total == Chars(g, n)
           b == [tx.buffer EXCEPT ![total + 1] = g.end]
<1>1. /\ kind \in {"data", "ack"} /\ g \in {DataGeometry, AckGeometry}
      /\ tx.buffer \in [0 .. g.tx - 1 -> Octet] /\ n \in Nat /\ n <= g.most /\ input \in Seq(Byte)
  BY Unpacked
<1>2. /\ Encoding /\ n >= g.least
      /\ tx' = IF RoundUp < g.tx THEN [count |-> RoundUp + 1, step |-> 0,
                                       buffer |-> [tx.buffer EXCEPT ![RoundUp] = g.end]] ELSE tx
      /\ line' = [i \in 1 .. tx'.count - 1 |-> tx'.buffer[i]]
      /\ UNCHANGED <<kind, rx, crc, input, taken, held, frames>>
  BY DEF EncodeEnd, Encoding
<1>3. /\ tx.count = 1 + n + q /\ tx.step = r
      /\ \A i \in 1 .. Chars(g, n) : tx.buffer[i] \subseteq 0 .. g.bits /\ g.bits \in tx.buffer[i]
      /\ \A i \in 1 .. n : DecodeByte(g, tx.buffer, i - 1) = input[i]
  BY <1>2 DEF CodecInv, EncoderInv, BytesReadableInPlace
<1>4. g.tx \in Nat /\ g.end \in Octet /\ g.bits \in {6, 7} /\ Group(g) \in {3, 7}
  BY <1>1, Common
<1>5. n + q + 3 < g.tx
  BY <1>1, RoomForFrame
<1>6. /\ q \in Nat /\ total = n + q + (IF r # 0 THEN 1 ELSE 0)
  BY <1>1, Places
<1>7. RoundUp = total + 1 /\ total + 1 < g.tx - 1 /\ total \in Nat
  <2> HIDE DEF g, n, q, r, total
  <2>1. tx.count = 1 + n + q /\ tx.step = r
    BY <1>3
  <2>2. RoundUp = total + 1
    BY <1>1, <1>6, <2>1 DEF RoundUp
  <2>3. total + 1 < g.tx - 1 /\ total \in Nat
    BY <1>1, <1>4, <1>5, <1>6
  <2> QED BY <2>2, <2>3
<1>8. tx'.count = total + 2 /\ tx'.step = 0 /\ tx'.buffer = b
  <2> HIDE DEF g, n, q, r, total
  <2>1. tx' = [count |-> RoundUp + 1, step |-> 0, buffer |-> [tx.buffer EXCEPT ![RoundUp] = g.end]]
    BY <1>2, <1>4, <1>7
  <2> QED BY <1>7, <2>1
<1> HIDE DEF g, n, q, r, total
<1>9. /\ b \in [0 .. g.tx - 1 -> Octet] /\ b[total + 1] = g.end
      /\ \A i \in 1 .. total : b[i] = tx.buffer[i]
  BY <1>1, <1>4, <1>7
<1> HIDE DEF b
<1>10. \A m \in 0 .. n - 1 : DecodeByte(g, b, m) = DecodeByte(g, tx.buffer, m)
  <2> SUFFICES ASSUME NEW m \in 0 .. n - 1
               PROVE  DecodeByte(g, b, m) = DecodeByte(g, tx.buffer, m)
    OBVIOUS
  <2> DEFINE x == m \div Group(g)
  <2>1. m \in Nat
    BY <1>1
  <2>2. /\ DecodeByte(g, b, m) = Joined(b[m + x + 1], b[m + x + 2], g.bits, g.inc * (m % Group(g)))
        /\ DecodeByte(g, tx.buffer, m)
             = Joined(tx.buffer[m + x + 1], tx.buffer[m + x + 2], g.bits, g.inc * (m % Group(g)))
    BY <1>1, <2>1, ReadsAt
  <2>3. m + x + 1 \in 1 .. total /\ m + x + 2 \in 1 .. total
    BY <1>1, InsideFrame DEF total
  <2> QED BY <1>9, <2>2, <2>3
<1>11. \A i \in 1 .. n : DecodeByte(g, b, i - 1) = input[i]
  <2>1. \A i \in 1 .. n : i - 1 \in 0 .. n - 1
    BY <1>1
  <2> QED BY <1>3, <1>10, <2>1
<1>12. /\ Geometry' = g /\ Len(input') = n /\ tx'.count - 1 = total + 1
       /\ line' \in Seq(Octet) /\ Len(line') = total + 1 /\ line' # <<>>
       /\ \A i \in 1 .. total + 1 : line'[i] = b[i]
  <2>1. tx'.count - 1 = total + 1 /\ total + 1 >= 1 /\ total + 1 \in Nat
    BY <1>7, <1>8
  <2>2. line' = [i \in 1 .. total + 1 |-> b[i]]
    <3> DEFINE Sent(last, chars) == [i \in 1 .. last |-> chars[i]]
    <3>1. line' = Sent(tx'.count - 1, tx'.buffer)
      BY <1>2
    <3> HIDE DEF Sent
    <3>2. line' = Sent(total + 1, b)
      BY <1>8, <2>1, <3>1, Zenon
    <3> QED BY <3>2 DEF Sent
  <2>3. \A i \in 1 .. total + 1 : b[i] \in Octet
    BY <1>4, <1>7, <1>9
  <2> QED BY <1>2, <2>1, <2>2, <2>3 DEF g, n, Geometry
<1>13. Gone' = 0 /\ Gone = 0 /\ ~Encoding' /\ Encoding
  BY <1>2, <1>7, <1>8, <1>12 DEF Gone, Encoding
<1>14. EncoderInv'
  <2>1. \A i \in 1 .. total : b[i] \subseteq 0 .. g.bits /\ g.bits \in b[i]
    BY <1>3, <1>9 DEF total
  <2> QED BY <1>2, <1>8, <1>9, <1>11, <1>12, <1>13, <2>1 DEF EncoderInv, BytesReadableInPlace, total
<1>15. LineInv'
  BY <1>2, <1>7, <1>8, <1>12, <1>13 DEF LineInv, Encoding
<1>16. TypeOK'
  <2>1. BufferType(tx, Geometry.tx, Group(Geometry))'
    BY <1>4, <1>7, <1>8, <1>9, <1>12 DEF BufferType
  <2>2. BufferType(rx, Geometry.rx, 8 \div Geometry.inc)'
    BY <1>2, <1>12 DEF CodecInv, TypeOK, g
  <2> QED BY <1>2, <1>12, <2>1, <2>2 DEF CodecInv, TypeOK
<1>17. taken' = <<>> /\ (IF held = <<>> THEN DecoderInv ELSE HeldInv)'
  <2>1. taken = <<>> /\ (IF held = <<>> THEN DecoderInv ELSE HeldInv)
    BY <1>13 DEF CodecInv, Encoding
  <2>2. CASE held = <<>>
    <3>1. rx.step = 0 /\ rx.count = 1 /\ crc = <<>>
      BY <2>1, <2>2, <1>13, NothingGone
    <3>2. /\ Len(input') \in Nat /\ rx' = rx /\ crc' = crc /\ kind' = kind /\ held' = held
          /\ taken' = taken
      BY <1>1, <1>2, <1>12
    <3> QED BY <2>1, <2>2, <3>1, <3>2, <1>13, NothingGoneNext
  <2>3. CASE held # <<>>
    BY <2>1, <2>3, <1>2, <1>12, <1>13 DEF HeldInv, Full, g
  <2> QED BY <2>2, <2>3
<1>18. Len(input') <= Geometry'.most
  BY <1>1, <1>12
<1> QED BY <1>14, <1>15, <1>16, <1>17, <1>18 DEF CodecInv

-----------------------------------------------------------------------------
\* How many bytes are complete after k characters: every group of w bytes has w + 1 of them.
Joint(v, k, ready) == k = ready + (k \div v) + (IF k % v # 0 THEN 1 ELSE 0)
Whole(w, n) == n + (n \div w) + (IF n % w # 0 THEN 1 ELSE 0)

LEMMA Arrived ==
  ASSUME NEW w \in {3, 7}, NEW v \in {4, 8}, v = w + 1,
         NEW k \in Nat, NEW ready \in Nat, NEW n \in Nat, ready <= n,
         Joint(v, k, ready)
  PROVE  /\ k \div v \in Nat /\ k % v \in 0 .. w
         /\ k % v # 0 => /\ ready \div w = k \div v
                               /\ ready % w = (k % v) - 1
         /\ k < Whole(w, n) => ready < n
         /\ k = Whole(w, n) => ready = n
         /\ (k % v) < w => (k + 1) \div v = k \div v
                                 /\ (k + 1) % v = (k % v) + 1
         /\ (k % v) = w => (k + 1) \div v = (k \div v) + 1
                                 /\ (k + 1) % v = 0
<1> DEFINE Q == k \div v
           r == k % v
           N == n \div w
           s == n % w
           R == ready \div w
           t == ready % w
<1>1. /\ w \in {3, 4, 7, 8} /\ v \in {3, 4, 7, 8} /\ w \in Nat /\ v \in Nat /\ v = w + 1
  OBVIOUS
<1>2. /\ Q \in Nat /\ r \in 0 .. v - 1 /\ k = v * Q + r
      /\ r + 1 < v => (k + 1) \div v = Q /\ (k + 1) % v = r + 1
      /\ r + 1 = v => (k + 1) \div v = Q + 1 /\ (k + 1) % v = 0
  BY <1>1, NextInGroup, ZenonT(20)
<1>3. N \in Nat /\ s \in 0 .. w - 1 /\ n = w * N + s
  BY <1>1, NextInGroup
<1>4. R \in Nat /\ t \in 0 .. w - 1 /\ ready = w * R + t
  BY <1>1, NextInGroup
<1>5. R <= N
  BY <1>1, GroupsGrow
<1>6. k = ready + Q + (IF r # 0 THEN 1 ELSE 0)
  BY DEF Joint
<1>a. Whole(w, n) = n + N + (IF s # 0 THEN 1 ELSE 0)
  BY DEF Whole
<1> HIDE DEF Q, r, N, s, R, t
<1>7. CASE w = 3
  <2>1. v = 4 /\ k = 4 * Q + r /\ n = 3 * N + s /\ ready = 3 * R + t /\ r \in 0 .. 3 /\ s \in 0 .. 2 /\ t \in 0 .. 2
    BY <1>1, <1>2, <1>3, <1>4, <1>7
  <2>2. r # 0 => R = Q /\ t = r - 1
    BY <2>1, <1>2, <1>4, <1>6
  <2>3. r = 0 => R = Q /\ t = 0
    BY <2>1, <1>2, <1>4, <1>6
  <2>4. k < n + N + (IF s # 0 THEN 1 ELSE 0) => ready < n
    BY <2>1, <2>2, <2>3, <1>2, <1>3, <1>4, <1>6
  <2>5. k = n + N + (IF s # 0 THEN 1 ELSE 0) => ready = n
    BY <2>1, <2>2, <2>3, <1>2, <1>3, <1>4, <1>5, <1>6
  <2> QED BY <1>1, <1>2, <2>1, <2>2, <2>4, <2>5, <1>a, <1>7 DEF Q, r, N, s, R, t
<1>8. CASE w = 7
  <2>1. v = 8 /\ k = 8 * Q + r /\ n = 7 * N + s /\ ready = 7 * R + t /\ r \in 0 .. 7 /\ s \in 0 .. 6 /\ t \in 0 .. 6
    BY <1>1, <1>2, <1>3, <1>4, <1>8
  <2>2. r # 0 => R = Q /\ t = r - 1
    BY <2>1, <1>2, <1>4, <1>6
  <2>3. r = 0 => R = Q /\ t = 0
    BY <2>1, <1>2, <1>4, <1>6
  <2>4. k < n + N + (IF s # 0 THEN 1 ELSE 0) => ready < n
    BY <2>1, <2>2, <2>3, <1>2, <1>3, <1>4, <1>6
  <2>5. k = n + N + (IF s # 0 THEN 1 ELSE 0) => ready = n
    BY <2>1, <2>2, <2>3, <1>2, <1>3, <1>4, <1>5, <1>6
  <2> QED BY <1>1, <1>2, <2>1, <2>2, <2>4, <2>5, <1>a, <1>8 DEF Q, r, N, s, R, t
<1> QED BY <1>7, <1>8

-----------------------------------------------------------------------------
LEMMA EndIsNoPayload ==
  ASSUME CodecInv
  PROVE  ~IsPayload(Geometry.end)
<1>1. kind \in {"data", "ack"}
  BY Unpacked
<1>2. CASE kind = "data"
  <2>1. Geometry.end = {1}
    BY <1>2 DEF Geometry, DataGeometry, END_OF_DATA
  <2> QED BY <1>2, <2>1 DEF IsPayload, IsData
<1>3. CASE kind = "ack"
  <2>1. Geometry.end = {0}
    BY <1>3 DEF Geometry, AckGeometry, END_OF_ACK
  <2> QED BY <1>3, <2>1 DEF IsPayload, IsAck
<1> QED BY <1>1, <1>2, <1>3

\* The next character on the line is the next one in the encoder: one of the frame or its end.
LEMMA OnTheLine ==
  ASSUME CodecInv, line # <<>>
  PROVE  /\ ~Encoding /\ taken = <<>> /\ Gone \in Nat /\ Chars(Geometry, Len(input)) \in Nat
         /\ Len(line) = Chars(Geometry, Len(input)) + 1 - Gone /\ Len(line) \in Nat \ {0}
         /\ Head(line) = tx.buffer[Gone + 1] /\ Head(line) \in Octet
         /\ Head(line) # Geometry.end => Gone < Chars(Geometry, Len(input))
         /\ Head(line) = Geometry.end => Gone = Chars(Geometry, Len(input))
<1> DEFINE g == Geometry
           n == Len(input)
           total == Chars(g, n)
<1>1. /\ g \in {DataGeometry, AckGeometry} /\ n \in Nat /\ line \in Seq(Octet)
  BY Unpacked
<1>2. /\ taken = <<>> /\ Len(line) < tx.count
      /\ \A i \in 1 .. Len(line) : line[i] = tx.buffer[Gone + i]
  BY DEF CodecInv, LineInv
<1>3. ~Encoding
  BY DEF Encoding
<1>4. /\ \A i \in 1 .. total : g.bits \in tx.buffer[i]
      /\ tx.count = total + 2 /\ tx.buffer[total + 1] = g.end
  BY <1>3 DEF CodecInv, EncoderInv
<1>5. total \in Nat
  <2> HIDE DEF g, n
  <2>1. n \div Group(g) \in Nat
    BY <1>1, Places
  <2> QED BY <1>1, <2>1 DEF total, Chars
<1>6. g.bits \notin g.end
  BY <1>1, Common
<1>7. Gone = tx.count - 1 - Len(line)
  BY DEF Gone
<1> HIDE DEF g, n, total
<1>8. Len(line) \in Nat \ {0} /\ Len(line) = total + 1 - Gone /\ Gone \in Nat
  BY <1>1, <1>2, <1>4, <1>5, <1>7
<1>9. Head(line) = tx.buffer[Gone + 1] /\ Head(line) \in Octet
  BY <1>1, <1>2, <1>8
<1>10. Head(line) # g.end => Gone < total
  BY <1>4, <1>5, <1>8, <1>9
<1>11. Head(line) = g.end => Gone = total
  <2>1. Gone + 1 \in 1 .. total => g.bits \in Head(line)
    BY <1>4, <1>9
  <2> QED BY <1>5, <1>6, <1>8, <2>1
<1> QED BY <1>2, <1>3, <1>5, <1>8, <1>9, <1>10, <1>11 DEF g, n, total

\* A payload character leaves the line and the frame is still in the encoder.
LEMMA CharTaken ==
  ASSUME CodecInv, Decode(Geometry)
  PROVE  /\ Geometry' = Geometry /\ Gone' = Gone + 1 /\ line' \in Seq(Octet)
         /\ EncoderInv' /\ LineInv' /\ Gone < Chars(Geometry, Len(input))
<1>1. /\ line # <<>> /\ IsPayload(Head(line)) /\ line' = Tail(line)
      /\ UNCHANGED <<kind, tx, input, taken, held, frames>>
  BY DEF Decode
<1>2. line \in Seq(Octet)
  BY Unpacked
<1>3. Geometry' = Geometry
  BY <1>1 DEF Geometry
<1>4. Head(line) # Geometry.end
  BY <1>1, EndIsNoPayload
<1> DEFINE total == Chars(Geometry, Len(input))
<1>5. /\ ~Encoding /\ taken = <<>> /\ Gone \in Nat /\ total \in Nat
      /\ Len(line) = total + 1 - Gone /\ Gone < total
  BY <1>1, <1>4, OnTheLine
<1>6. /\ \A i \in 1 .. Len(line) : line[i] = tx.buffer[Gone + i]
      /\ tx.count = total + 2
  BY <1>1, <1>5 DEF CodecInv, LineInv, EncoderInv
<1> HIDE DEF total
<1>7. /\ line' \in Seq(Octet) /\ Len(line') = Len(line) - 1 /\ line' # <<>>
      /\ \A i \in 1 .. Len(line') : line'[i] = line[i + 1]
  <2>1. Len(line) \in Nat /\ Len(line) > 1
    BY <1>5
  <2>2. line' \in Seq(Octet) /\ Len(line') = Len(line) - 1
    BY <1>1, <1>2
  <2>3. \A i \in 1 .. Len(line') : line'[i] = line[i + 1]
    BY <1>1, <1>2, <2>1, <2>2
  <2> QED BY <2>1, <2>2, <2>3
<1>8. Gone' = Gone + 1
  <2>1. Gone' = tx.count - 1 - (Len(line) - 1)
    BY <1>1, <1>7 DEF Gone
  <2> QED BY <1>5, <1>6, <2>1
<1>9. EncoderInv'
  <2>1. ~Encoding' /\ EncoderInv
    BY <1>7 DEF Encoding, CodecInv
  <2> QED BY <1>1, <1>3, <1>5, <2>1 DEF EncoderInv, BytesReadableInPlace
<1>10. LineInv'
  <2>1. \A i \in 1 .. Len(line') : line'[i] = tx.buffer[(Gone + 1) + i]
    <3> SUFFICES ASSUME NEW i \in 1 .. Len(line') PROVE line'[i] = tx.buffer[(Gone + 1) + i]
      OBVIOUS
    <3>1. i + 1 \in 1 .. Len(line) /\ Gone + (i + 1) = (Gone + 1) + i
      BY <1>5, <1>7
    <3> QED BY <1>6, <1>7, <3>1
  <2>2. Len(line') < tx.count
    BY <1>5, <1>6, <1>7
  <2> QED BY <1>1, <1>5, <1>8, <2>1, <2>2 DEF LineInv
<1> QED BY <1>3, <1>5, <1>7, <1>8, <1>9, <1>10 DEF total

\* What the decoder stores for a character: the cell that gets more bits and the next.
LEMMA CharStored ==
  ASSUME CodecInv, NEW c \in Octet, rx.count < Geometry.rx - 1,
         rx' = Decoded(Geometry, c), kind' = kind,
         crc' = IF rx.step # 0 THEN Append(crc, rx'.buffer[rx'.count - 1]) ELSE crc
  PROVE  LET last == rx.count + (IF rx.step # 0 THEN 1 ELSE 0)
             bits == Lowest(c, Geometry.bits)
         IN /\ rx'.count = last
            /\ rx'.step = IF rx.step = Group(Geometry) THEN 0 ELSE rx.step + 1
            /\ rx'.buffer[last] = Down(bits, Geometry.inc * rx.step)
            /\ rx'.buffer[last - 1] = rx.buffer[last - 1] \cup Up(bits, 8 - Geometry.inc * rx.step)
            /\ \A i \in 0 .. last - 2 : rx'.buffer[i] = rx.buffer[i]
            /\ BufferType(rx, Geometry.rx, 8 \div Geometry.inc)'
            /\ crc' \in Seq(Octet)
<1> DEFINE g == Geometry
           w == Group(g)
           r == rx.step
           last == rx.count + (IF r # 0 THEN 1 ELSE 0)
           bits == Lowest(c, g.bits)
           inBefore == Up(bits, 8 - g.inc * r)
           inLast == Down(bits, g.inc * r)
           b == [rx.buffer EXCEPT ![last - 1] = @ \cup inBefore, ![last] = inLast]
<1>1. /\ g \in {DataGeometry, AckGeometry} /\ rx.count \in 1 .. g.rx /\ r \in 0 .. w
      /\ rx.buffer \in [0 .. g.rx - 1 -> Octet] /\ crc \in Seq(Octet) /\ Geometry' = g
  BY Unpacked DEF Geometry
<1>2. w \in {3, 7} /\ 8 \div g.inc = w + 1 /\ g.rx \in Nat
  BY <1>1, Common
<1>3. rx'.count = last /\ rx'.step = (r + 1) % (8 \div g.inc) /\ rx'.buffer = b
  BY DEF Decoded, DecoderStep
<1>4. rx'.step = IF r = w THEN 0 ELSE r + 1
  <2> HIDE DEF w, r
  <2>1. CASE w = 3
    BY <1>1, <1>2, <1>3, <2>1
  <2>2. CASE w = 7
    BY <1>1, <1>2, <1>3, <2>2
  <2> QED BY <1>2, <2>1, <2>2
<1>5. last \in 1 .. g.rx - 1 /\ rx.count < g.rx - 1
  <2> HIDE DEF g, r
  <2> QED BY <1>1, <1>2 DEF g
<1>6. inBefore \in Octet /\ inLast \in Octet
  BY DEF Up, Down, Octet
<1> HIDE DEF g, w, r, last, inBefore, inLast
<1>7. /\ last \in 0 .. g.rx - 1 /\ last - 1 \in 0 .. g.rx - 1 /\ last # last - 1
      /\ \A i \in 0 .. last - 2 : i # last /\ i # last - 1 /\ i \in 0 .. g.rx - 1
  BY <1>1, <1>2, <1>5
<1>8. /\ b[last] = inLast /\ b[last - 1] = rx.buffer[last - 1] \cup inBefore
      /\ \A i \in 0 .. last - 2 : b[i] = rx.buffer[i]
  BY <1>1, <1>7, Zenon
<1>9. b \in [0 .. g.rx - 1 -> Octet]
  <2>1. rx.buffer[last - 1] \cup inBefore \in Octet
    <3>1. rx.buffer[last - 1] \in Octet
      BY <1>1, <1>7
    <3> QED BY <1>6, <3>1 DEF Octet
  <2>2. [rx.buffer EXCEPT ![last - 1] = @ \cup inBefore] \in [0 .. g.rx - 1 -> Octet]
    BY <1>1, <2>1
  <2> QED BY <1>6, <2>2
<1> HIDE DEF b
<1>10. BufferType(rx, Geometry.rx, 8 \div Geometry.inc)'
  <2>1. rx'.count \in 1 .. g.rx
    BY <1>2, <1>3, <1>5
  <2>2. rx'.step \in 0 .. (8 \div g.inc) - 1
    BY <1>1, <1>2, <1>4
  <2> QED BY <1>1, <1>3, <1>9, <2>1, <2>2 DEF BufferType, g
<1>11. crc' \in Seq(Octet)
  <2>1. rx'.buffer[rx'.count - 1] \in Octet
    BY <1>3, <1>7, <1>9
  <2> QED BY <1>1, <2>1 DEF r
<1> QED BY <1>3, <1>4, <1>8, <1>10, <1>11 DEF g, w, r, last, inBefore, inLast

LEMMA DecodeStep ==
  ASSUME CodecInv, Decode(Geometry), held = <<>>
  PROVE  BufferType(rx, Geometry.rx, 8 \div Geometry.inc)' /\ crc' \in Seq(Octet) /\ DecoderInv'
<1> DEFINE g == Geometry
           w == Group(g)
           n == Len(input)
           K == Gone
           Q == K \div (w + 1)
           r == rx.step
           ready == rx.count - 1
           char == Head(line)
           bits == Lowest(char, g.bits)
<1>1. /\ g \in {DataGeometry, AckGeometry} /\ rx.count \in 1 .. g.rx /\ r \in 0 .. w
      /\ rx.buffer \in [0 .. g.rx - 1 -> Octet] /\ crc \in Seq(Octet)
      /\ n \in Nat /\ n <= g.most /\ input \in Seq(Byte)
  BY Unpacked
<1>2. /\ w \in {3, 7} /\ g.rx \in Nat /\ g.most + 2 <= g.rx /\ g.most \in Nat /\ g.bits \in {6, 7}
      /\ \A step \in 0 .. w - 1 :
           Fits(g.bits, g.inc, g.inc * step) /\ g.inc * (step + 1) = g.inc * step + g.inc
  BY <1>1, Common
<1>3. line # <<>> /\ UNCHANGED <<kind, tx, input, taken, held, frames>>
  BY DEF Decode
<1>4. /\ taken = <<>> /\ K \in Nat /\ char = tx.buffer[K + 1] /\ char \in Octet
      /\ K < Chars(g, n) /\ Gone' = K + 1 /\ Geometry' = g
  BY <1>3, OnTheLine, CharTaken
<1>5. /\ r = K % (w + 1) /\ K = ready + Q + (IF r # 0 THEN 1 ELSE 0) /\ ready <= n
      /\ \A i \in 1 .. ready : rx.buffer[i] = input[i]
      /\ crc = [i \in 1 .. ready |-> input[i]]
      /\ r # 0 => rx.buffer[rx.count] = Down(Lowest(tx.buffer[K], g.bits), g.inc * (r - 1))
  BY <1>4 DEF CodecInv, DecoderInv
<1>6. \A i \in 1 .. n : DecodeByte(g, tx.buffer, i - 1) = input[i]
  BY DEF CodecInv, EncoderInv, BytesReadableInPlace
<1>7. Chars(g, n) = n + (n \div w) + (IF n % w # 0 THEN 1 ELSE 0)
  BY DEF Chars
<1>8. ready \in Nat /\ rx.count = ready + 1
  <2> HIDE DEF g
  <2> QED BY <1>1, <1>2
<1>9. /\ Q \in Nat
      /\ r # 0 => ready \div w = Q /\ ready % w = r - 1
      /\ ready < n
      /\ r < w => (K + 1) \div (w + 1) = Q /\ (K + 1) % (w + 1) = r + 1
      /\ r = w => (K + 1) \div (w + 1) = Q + 1 /\ (K + 1) % (w + 1) = 0
  <2> HIDE DEF g, w, n, K, ready
  <2> DEFINE v == w + 1
  <2>0. /\ w \in {3, 7} /\ v \in {4, 8} /\ v = w + 1
        /\ K \in Nat /\ ready \in Nat /\ n \in Nat /\ ready <= n
    BY <1>1, <1>2, <1>4, <1>5, <1>8
  <2>1. K = ready + (K \div v) + (IF K % v # 0 THEN 1 ELSE 0)
    BY <1>5
  <2> HIDE DEF v, Q, r
  <2>a. Joint(v, K, ready)
    BY <2>1 DEF Joint
  <2>2. /\ K \div v \in Nat /\ K % v \in 0 .. w
        /\ K % v # 0 => /\ ready \div w = K \div v
                        /\ ready % w = (K % v) - 1
        /\ K < Whole(w, n) => ready < n
        /\ K = Whole(w, n) => ready = n
        /\ (K % v) < w => (K + 1) \div v = K \div v /\ (K + 1) % v = (K % v) + 1
        /\ (K % v) = w => (K + 1) \div v = (K \div v) + 1 /\ (K + 1) % v = 0
    BY <2>0, <2>a, Arrived
  <2>3. ready < n
    <3>1. K < Whole(w, n)
      BY <1>4, <1>7 DEF Whole
    <3> QED BY <2>2, <3>1
  <2> QED BY <2>2, <2>3, <1>5 DEF Q, v
<1> HIDE DEF n, K, Q, ready
<1>10. rx.count < g.rx - 1
  <2> HIDE DEF g
  <2> QED BY <1>1, <1>2, <1>8, <1>9
<1>11. /\ rx' = Decoded(g, char)
       /\ crc' = IF r # 0 THEN Append(crc, rx'.buffer[rx'.count - 1]) ELSE crc
  BY <1>10, <1>1, <1>2 DEF Decode
<1> DEFINE last == rx.count + (IF r # 0 THEN 1 ELSE 0)
<1>12. /\ rx'.count = last
       /\ rx'.step = IF r = w THEN 0 ELSE r + 1
       /\ rx'.buffer[last] = Down(bits, g.inc * r)
       /\ rx'.buffer[last - 1] = rx.buffer[last - 1] \cup Up(bits, 8 - g.inc * r)
       /\ \A i \in 0 .. last - 2 : rx'.buffer[i] = rx.buffer[i]
       /\ BufferType(rx, Geometry.rx, 8 \div Geometry.inc)'
       /\ crc' \in Seq(Octet)
  BY <1>3, <1>4, <1>10, <1>11, CharStored
<1>13. g.inc * r \in Nat /\ (r # 0 => g.inc * (r - 1) + g.inc = g.inc * r) /\ (r = 0 => g.inc * r = 0)
  <2>2. r # 0 => r - 1 \in 0 .. w - 1 /\ (r - 1) + 1 = r
    <3> HIDE DEF g, w, r
    <3> QED BY <1>1, <1>2
  <2>3. g.inc \in {1, 2}
    BY <1>1, Common
  <2>4. g.inc * r \in Nat
    BY <1>1, <1>2, <2>3
  <2>5. r = 0 => g.inc * r = 0
    BY <2>3
  <2> QED BY <1>2, <2>2, <2>4, <2>5
<1> HIDE DEF g, w, r, char
<1>14. CASE r = 0
  <2>1. last = ready + 1 /\ rx'.count = ready + 1 /\ rx'.step = 1 /\ crc' = crc
    BY <1>2, <1>8, <1>11, <1>12, <1>14
  <2>2. Up(bits, 8 - g.inc * r) = {}
    <3>1. 8 - g.inc * r = 8
      BY <1>13, <1>14
    <3>2. bits \subseteq 0 .. 7
      BY <1>2, <1>4 DEF Lowest, Octet
    <3> HIDE DEF bits
    <3>3. Up(bits, 8) = {}
      BY <3>2 DEF Up
    <3> QED BY <3>1, <3>3, Zenon
  <2>3. \A i \in 1 .. ready : rx'.buffer[i] = rx.buffer[i]
    <3> SUFFICES ASSUME NEW i \in 1 .. ready PROVE rx'.buffer[i] = rx.buffer[i]
      OBVIOUS
    <3>1. i = last - 1 \/ i \in 0 .. last - 2
      BY <1>8, <2>1
    <3> QED BY <1>12, <2>2, <3>1
  <2>4. (K + 1) \div (w + 1) = Q /\ (K + 1) % (w + 1) = 1
    BY <1>2, <1>9, <1>14
  <2>5. K + 1 = (rx'.count - 1) + Q + 1
    BY <1>4, <1>5, <1>8, <1>9, <1>14, <2>1
  <2>6. rx'.buffer[rx'.count] = Down(Lowest(tx.buffer[K + 1], g.bits), g.inc * (rx'.step - 1))
    <3>1. rx'.step - 1 = r
      BY <1>14, <2>1
    <3> QED BY <1>4, <1>12, <2>1, <3>1, Zenon
  <2>7. rx'.count - 1 = ready
    BY <1>8, <2>1
  <2> QED BY <1>3, <1>4, <1>5, <1>12, <2>1, <2>3, <2>4, <2>5, <2>6, <2>7 DEF DecoderInv, w, n
<1>15. CASE r # 0
  <2>1. last = ready + 2 /\ rx'.count = ready + 2 /\ last - 1 = ready + 1
    BY <1>8, <1>12, <1>15
  <2> DEFINE shift == g.inc * (r - 1)
             before == Down(Lowest(tx.buffer[K], g.bits), shift)
  <2>2. rx'.buffer[ready + 1] = before \cup Up(bits, 8 - (shift + g.inc))
    BY <1>5, <1>8, <1>12, <1>13, <1>15, <2>1
  <2>3. Fits(g.bits, g.inc, shift)
    BY <1>1, <1>2, <1>15
  <2>4. Up(bits, 8 - (shift + g.inc)) = Up(char, g.bits - shift)
    <3> DEFINE width == g.bits
               inc == g.inc
    <3>1. Fits(width, inc, shift)
      BY <2>3
    <3> HIDE DEF width, inc, shift
    <3>2. Up(Lowest(char, width), 8 - (shift + inc)) = Up(char, width - shift)
      BY <1>4, <3>1, UpperPart
    <3> QED BY <3>2 DEF width, inc
  <2>5. rx'.buffer[ready + 1] = DecodeByte(g, tx.buffer, ready)
    <3>1. ready + Q + 1 = K /\ ready + Q + 2 = K + 1
      BY <1>4, <1>5, <1>8, <1>9, <1>15
    <3>2. DecodeByte(g, tx.buffer, ready) = Joined(tx.buffer[K], tx.buffer[K + 1], g.bits, shift)
      <4>1. DecodeByte(g, tx.buffer, ready) =
              Joined(tx.buffer[ready + (ready \div w) + 1], tx.buffer[ready + (ready \div w) + 2],
                     g.bits, g.inc * (ready % w))
        BY <1>1, <1>8, ReadsAt DEF w
      <4> QED BY <4>1, <3>1, <1>9, <1>15
    <3> QED BY <2>2, <2>4, <3>2, <1>4 DEF Joined
  <2>6. rx'.buffer[ready + 1] = input[ready + 1]
    <3>1. ready + 1 \in 1 .. n /\ (ready + 1) - 1 = ready
      BY <1>1, <1>8, <1>9
    <3> QED BY <1>6, <2>5, <3>1
  <2>7. \A i \in 1 .. ready + 1 : rx'.buffer[i] = input[i]
    <3> SUFFICES ASSUME NEW i \in 1 .. ready + 1 PROVE rx'.buffer[i] = input[i]
      OBVIOUS
    <3>1. i = ready + 1 \/ (i \in 1 .. ready /\ i \in 0 .. last - 2)
      BY <1>8, <2>1
    <3> QED BY <1>5, <1>12, <2>6, <3>1
  <2>8. crc' = [i \in 1 .. ready + 1 |-> input[i]]
    <3>1. rx'.count - 1 = ready + 1
      BY <1>8, <2>1
    <3>2. crc' = Append(crc, input[ready + 1])
      BY <1>11, <1>15, <2>6, <3>1
    <3>3. crc = [i \in 1 .. ready |-> input[i]]
      BY <1>5
    <3> QED BY <1>8, <3>2, <3>3
  <2>9. rx'.step # 0 => rx'.buffer[rx'.count]
                          = Down(Lowest(tx.buffer[K + 1], g.bits), g.inc * (rx'.step - 1))
    <3>1. rx'.step # 0 => rx'.step - 1 = r
      BY <1>1, <1>12, <1>2
    <3> QED BY <1>4, <1>12, <2>1, <3>1, Zenon
  <2>10. /\ rx'.step = (K + 1) % (w + 1)
         /\ K + 1 = (ready + 1) + ((K + 1) \div (w + 1)) + (IF rx'.step # 0 THEN 1 ELSE 0)
    <3> DEFINE x == (K + 1) \div (w + 1)
               y == (K + 1) % (w + 1)
    <3>1. /\ r < w => x = Q /\ y = r + 1
          /\ r = w => x = Q + 1 /\ y = 0
      BY <1>9
    <3> HIDE DEF x, y
    <3>3. /\ K = ready + Q + 1 /\ rx'.step = IF r = w THEN 0 ELSE r + 1
          /\ K \in Nat /\ ready \in Nat /\ Q \in Nat /\ w \in Nat /\ r \in 0 .. w
      <4>1. K = ready + Q + 1
        BY <1>5, <1>15
      <4>2. w \in Nat /\ Q \in Nat
        BY <1>2, <1>9
      <4> QED BY <1>1, <1>4, <1>8, <1>12, <4>1, <4>2
    <3>2. rx'.step = y /\ K + 1 = (ready + 1) + x + (IF rx'.step # 0 THEN 1 ELSE 0)
      BY <3>1, <3>3
    <3> QED BY <3>2 DEF x, y
  <2>11. ready + 1 <= n /\ rx'.count - 1 = ready + 1
    BY <1>1, <1>8, <1>9, <2>1
  <2> QED BY <1>3, <1>4, <1>12, <2>7, <2>8, <2>9, <2>10, <2>11 DEF DecoderInv, w, n
<1> QED BY <1>12, <1>14, <1>15

\* While an earlier frame is in the decoder, a full one keeps everything out and any other
\* gets a byte too many.
LEMMA DecodeHeldStep ==
  ASSUME CodecInv, Decode(Geometry), held # <<>>
  PROVE  BufferType(rx, Geometry.rx, 8 \div Geometry.inc)' /\ crc' \in Seq(Octet) /\ HeldInv'
<1> DEFINE g == Geometry
<1>1. /\ kind \in {"data", "ack"} /\ g \in {DataGeometry, AckGeometry} /\ rx.count \in 1 .. g.rx
      /\ rx.step \in 0 .. Group(g) /\ held \in Seq(Byte) /\ crc \in Seq(Octet)
  BY Unpacked
<1>2. /\ Group(g) \in {3, 7} /\ g.rx \in Nat /\ g.most + 2 <= g.rx /\ g.most \in Nat /\ g.least \in Nat
  BY <1>1, Common
<1>3. line # <<>> /\ UNCHANGED <<kind, tx, input, taken, held, frames>>
  BY DEF Decode
<1>4. /\ taken = <<>> /\ Gone \in Nat /\ Head(line) \in Octet /\ Gone' = Gone + 1 /\ Geometry' = g
  BY <1>3, OnTheLine, CharTaken
<1>5. HeldInv
  BY <1>4 DEF CodecInv
<1>6. Len(held) \in Nat /\ Len(held) <= g.most
  BY <1>1, <1>2, <1>5 DEF HeldInv
<1>7. kind = "data" => g.rx = FRAME_PAYLOAD + 8 /\ g.most = FRAME_PAYLOAD + 6
  <2> SUFFICES ASSUME kind = "data" PROVE g.rx = FRAME_PAYLOAD + 8 /\ g.most = FRAME_PAYLOAD + 6
    OBVIOUS
  <2>1. g = DataGeometry
    BY <1>1, ItsGeometry
  <2> QED BY <2>1 DEF DataGeometry, RX_BUFFER
<1>8. kind = "ack" => g.rx = 16 /\ g.most = 5
  <2> SUFFICES ASSUME kind = "ack" PROVE g.rx = 16 /\ g.most = 5
    OBVIOUS
  <2>1. g = AckGeometry
    BY <1>1, ItsGeometry
  <2> QED BY <2>1 DEF AckGeometry, ACK_BUFFER
<1>9. FRAME_PAYLOAD \in Nat
  BY PayloadAssumption
<1>10. Full => rx.count >= g.rx - 1
  <2> HIDE DEF g
  <2> QED BY <1>5, <1>7, <1>9 DEF HeldInv, Full
<1>11. ~Full => g.rx - 1 > Len(held) + 1
  <2> HIDE DEF g
  <2> QED BY <1>1, <1>6, <1>7, <1>8, <1>9 DEF Full
<1>12. Full' = Full /\ held' = held
  BY <1>3 DEF Full
<1>13. CASE rx.count < g.rx - 1
  <2>1. /\ rx' = Decoded(g, Head(line)) /\ kind' = kind
        /\ crc' = IF rx.step # 0 THEN Append(crc, rx'.buffer[rx'.count - 1]) ELSE crc
    <3>1. ~(rx.count >= g.rx - 1)
      <4> HIDE DEF g
      <4> QED BY <1>1, <1>2, <1>13
    <3> QED BY <1>3, <1>13, <3>1 DEF Decode
  <2>2. /\ rx'.count = rx.count + (IF rx.step # 0 THEN 1 ELSE 0)
        /\ rx'.step = IF rx.step = Group(g) THEN 0 ELSE rx.step + 1
        /\ BufferType(rx, Geometry.rx, 8 \div Geometry.inc)' /\ crc' \in Seq(Octet)
    BY <1>4, <1>13, <2>1, CharStored
  <2>3. ~Full
    <3> HIDE DEF g
    <3> QED BY <1>1, <1>2, <1>10, <1>13
  <2>4. rx.count > Len(held) /\ (Gone >= 1 => rx.count > Len(held) + 1 \/ rx.step # 0)
    BY <1>5, <2>3 DEF HeldInv
  <2>5. /\ rx'.count > Len(held)
        /\ rx'.count > Len(held) + 1 \/ rx'.step # 0
        /\ Gone + 1 >= 2 => rx'.count > Len(held) + 1
    <3> HIDE DEF g
    <3>1. rx.count \in Nat /\ Group(g) \in Nat /\ Group(g) # 0
      BY <1>1, <1>2
    <3> QED BY <1>1, <1>4, <1>6, <2>2, <2>4, <3>1
  <2>6. held' = held /\ Geometry' = g /\ Gone' = Gone + 1 /\ ~Full'
    BY <1>4, <1>12, <2>3
  <2>7. /\ rx'.count > Len(held')
        /\ Gone' >= 1 => rx'.count > Len(held') + 1 \/ rx'.step # 0
        /\ Gone' >= 2 => rx'.count > Len(held') + 1
    BY <2>5, <2>6
  <2>8. Len(held') \in Geometry'.least .. Geometry'.most
    BY <1>5, <2>6 DEF HeldInv
  <2> QED BY <2>2, <2>6, <2>7, <2>8 DEF HeldInv
<1>14. CASE ~(rx.count < g.rx - 1)
  <2>1. rx' = rx /\ crc' = crc
    BY <1>14 DEF Decode
  <2>2. BufferType(rx, Geometry.rx, 8 \div Geometry.inc)'
    BY <1>4, <2>1 DEF CodecInv, TypeOK
  <2>3. ~Full => rx.count > Len(held) + 1
    <3> HIDE DEF g
    <3> QED BY <1>1, <1>2, <1>6, <1>11, <1>14
  <2>4. rx.count \in Nat /\ (~Full => rx.count > Len(held))
    <3> HIDE DEF g
    <3> QED BY <1>1, <1>2, <1>6, <2>3
  <2> QED BY <1>1, <1>4, <1>5, <1>12, <2>1, <2>2, <2>3, <2>4 DEF HeldInv
<1> QED BY <1>13, <1>14

LEMMA DecodeKeeps ==
  ASSUME CodecInv, Decode(Geometry)
  PROVE  CodecInv'
<1>1. line # <<>> /\ UNCHANGED <<kind, tx, input, taken, held, frames>>
  BY DEF Decode
<1>2. /\ Geometry' = Geometry /\ line' \in Seq(Octet) /\ EncoderInv' /\ LineInv' /\ taken = <<>>
  BY <1>1, CharTaken, OnTheLine
<1>3. BufferType(rx, Geometry.rx, 8 \div Geometry.inc)' /\ crc' \in Seq(Octet)
  BY DecodeStep, DecodeHeldStep
<1>4. TypeOK' /\ Len(input') <= Geometry'.most
  <2>1. BufferType(tx, Geometry.tx, Group(Geometry))'
    BY <1>1, <1>2 DEF CodecInv, TypeOK
  <2> QED BY <1>1, <1>2, <1>3, <2>1 DEF CodecInv, TypeOK
<1>5. IF held' = <<>> THEN DecoderInv' ELSE HeldInv'
  BY <1>1, DecodeStep, DecodeHeldStep
<1> QED BY <1>1, <1>2, <1>4, <1>5 DEF CodecInv

-----------------------------------------------------------------------------
\* At its end all of a frame has arrived.
LEMMA AllArrived ==
  ASSUME CodecInv, line # <<>>, Head(line) = Geometry.end, held = <<>>
  PROVE  /\ rx.count = Len(input) + 1 /\ crc = input
         /\ \A i \in 1 .. Len(input) : rx.buffer[i] = input[i]
<1> DEFINE g == Geometry
           w == Group(g)
           v == w + 1
           n == Len(input)
           K == Gone
           ready == rx.count - 1
<1>1. g \in {DataGeometry, AckGeometry} /\ n \in Nat /\ input \in Seq(Byte) /\ rx.count \in 1 .. g.rx
  BY Unpacked
<1>2. w \in {3, 7} /\ v \in {4, 8} /\ v = w + 1 /\ g.rx \in Nat
  BY <1>1, Common
<1>3. taken = <<>> /\ K \in Nat /\ K = Chars(g, n)
  BY OnTheLine
<1>4. /\ rx.step = K % v /\ K = ready + (K \div v) + (IF rx.step # 0 THEN 1 ELSE 0) /\ ready <= n
      /\ \A i \in 1 .. ready : rx.buffer[i] = input[i]
      /\ crc = [i \in 1 .. ready |-> input[i]]
  BY <1>3 DEF CodecInv, DecoderInv
<1>5. Joint(v, K, ready) /\ K = Whole(w, n)
  BY <1>3, <1>4 DEF Joint, Whole, Chars
<1>6. ready \in Nat /\ rx.count = ready + 1
  <2> HIDE DEF g
  <2> QED BY <1>1, <1>2
<1> HIDE DEF g, w, v, n, K
<1>7. ready = n
  <2> HIDE DEF ready
  <2> QED BY <1>1, <1>2, <1>3, <1>4, <1>5, <1>6, Arrived
<1>8. crc = input
  <2>1. crc = [i \in 1 .. n |-> input[i]]
    BY <1>4, <1>7
  <2> QED BY <1>1, <2>1 DEF n
<1>9. rx.count = n + 1
  BY <1>6, <1>7
<1> QED BY <1>4, <1>7, <1>8, <1>9 DEF n

\* The end mark is the last character on the line.
LEMMA LastOnTheLine ==
  ASSUME CodecInv, line # <<>>, Head(line) = Geometry.end
  PROVE  /\ Tail(line) = <<>> /\ ~Encoding /\ taken = <<>>
         /\ Gone >= Len(input) /\ Gone \in Nat /\ Len(input) >= Geometry.least /\ Geometry.least >= 5
<1> DEFINE g == Geometry
           n == Len(input)
<1>1. g \in {DataGeometry, AckGeometry} /\ n \in Nat /\ line \in Seq(Octet)
  BY Unpacked
<1>2. /\ ~Encoding /\ taken = <<>> /\ Gone \in Nat /\ Gone = Chars(g, n)
      /\ Len(line) = Chars(g, n) + 1 - Gone
  BY OnTheLine
<1>3. n \div Group(g) \in Nat
  <2> HIDE DEF g, n
  <2> QED BY <1>1, Places
<1>4. Gone >= n
  <2> DEFINE q == n \div Group(g)
             r == n % Group(g)
  <2>1. Gone = n + q + (IF r # 0 THEN 1 ELSE 0) /\ q \in Nat
    BY <1>2, <1>3 DEF Chars
  <2> HIDE DEF g, n, q, r
  <2> QED BY <1>1, <2>1
<1>5. Tail(line) = <<>>
  <2>1. Len(line) = 1
    <3> HIDE DEF g, n
    <3> QED BY <1>2
  <2> DEFINE rest == Tail(line)
  <2>2. rest \in Seq(Octet) /\ Len(rest) = 0
    BY <1>1, <2>1
  <2> HIDE DEF rest
  <2>3. rest = <<>>
    BY <2>2
  <2> QED BY <2>3 DEF rest
<1>6. n >= g.least /\ g.least >= 5
  BY <1>1, <1>2, Common DEF CodecInv, EncoderInv
<1> QED BY <1>2, <1>4, <1>5, <1>6

LEMMA DecodeEndStep ==
  ASSUME CodecInv, DecodeEnd
  PROVE  CodecInv'
<1> DEFINE g == Geometry
           n == Len(input)
           bytes == [i \in 1 .. rx.count - 1 |-> rx.buffer[i]]
<1>1. /\ g \in {DataGeometry, AckGeometry} /\ n \in Nat /\ n <= g.most
      /\ input \in Seq(Byte) /\ held \in Seq(Byte) /\ rx.count \in 1 .. g.rx
      /\ rx.buffer \in [0 .. g.rx - 1 -> Octet] /\ kind \in {"data", "ack"}
  BY Unpacked
<1>2. /\ line # <<>> /\ Head(line) = g.end /\ line' = Tail(line)
      /\ taken' = <<bytes, crc>> /\ rx' = Flushed(rx) /\ crc' = <<>>
      /\ UNCHANGED <<kind, tx, input, held, frames>>
  BY DEF DecodeEnd
<1>3. /\ line' = <<>> /\ ~Encoding /\ taken = <<>> /\ Gone >= n /\ Gone \in Nat /\ n >= g.least
      /\ g.least >= 5
  BY <1>2, LastOnTheLine
<1>4. Geometry' = g /\ g.rx \in Nat /\ g.least \in Nat /\ 8 \div g.inc = Group(g) + 1 /\ Group(g) \in {3, 7}
  BY <1>1, <1>2, Common DEF Geometry
<1>5. /\ taken' # <<>> /\ ~Encoding'
      /\ taken'[1] = bytes /\ taken'[2] = crc
  BY <1>2 DEF Encoding
<1>6. EncoderInv' /\ LineInv'
  BY <1>2, <1>3, <1>4, <1>5 DEF CodecInv, EncoderInv, LineInv, BytesReadableInPlace
<1>7. rx'.count = 1 /\ rx'.step = 0 /\ rx'.buffer = rx.buffer
  BY <1>2 DEF Flushed
<1>8. TypeOK'
  <2>1. BufferType(rx, Geometry.rx, 8 \div Geometry.inc)'
    <3>1. 1 \in 1 .. g.rx
      <4> HIDE DEF g
      <4> QED BY <1>1, <1>4
    <3>2. 0 \in 0 .. (8 \div g.inc) - 1
      <4> HIDE DEF g
      <4> QED BY <1>4
    <3> QED BY <1>1, <1>4, <1>7, <3>1, <3>2 DEF BufferType, g
  <2>2. BufferType(tx, Geometry.tx, Group(Geometry))'
    BY <1>2, <1>4 DEF CodecInv, TypeOK, g
  <2>3. line' \in Seq(Octet) /\ crc' \in Seq(Octet)
    <3>1. <<>> \in Seq(Octet)
      OBVIOUS
    <3> QED BY <1>2, <1>3, <3>1
  <2> QED BY <1>2, <2>1, <2>2, <2>3 DEF CodecInv, TypeOK
<1>9. FrameComesBack'
  <2> SUFFICES ASSUME held = <<>> PROVE taken' = <<input, input>>
    BY <1>2 DEF FrameComesBack
  <2>1. rx.count = n + 1 /\ crc = input /\ \A i \in 1 .. n : rx.buffer[i] = input[i]
    BY <1>2, AllArrived
  <2>2. rx.count - 1 = n
    BY <1>1, <2>1
  <2>3. bytes = input
    <3> HIDE DEF g
    <3>1. bytes = [i \in 1 .. n |-> rx.buffer[i]]
      BY <2>2
    <3> HIDE DEF bytes
    <3> QED BY <1>1, <2>1, <3>1 DEF n
  <2> QED BY <1>2, <2>1, <2>3
<1>10. OnlyFullFrameSurvives'
  <2> SUFFICES ASSUME held # <<>> PROVE (taken' = <<held, held>>) = Full
    BY <1>2 DEF OnlyFullFrameSurvives, Full
  <2>1. HeldInv
    BY <1>3 DEF CodecInv
  <2>2. CASE Full
    <3>1. rx.count - 1 = Len(held) /\ crc = held /\ \A i \in 1 .. Len(held) : rx.buffer[i] = held[i]
      BY <1>1, <2>1, <2>2 DEF HeldInv
    <3>2. bytes = held
      <4>1. bytes = [i \in 1 .. Len(held) |-> rx.buffer[i]]
        BY <3>1
      <4> HIDE DEF bytes
      <4> QED BY <1>1, <3>1, <4>1
    <3> QED BY <1>2, <2>2, <3>1, <3>2
  <2>3. CASE ~Full
    <3>1. Gone >= 2
      <4> HIDE DEF g, n
      <4> QED BY <1>1, <1>3, <1>4
    <3>2. rx.count > Len(held) + 1
      BY <2>1, <2>3, <3>1 DEF HeldInv
    <3>3. bytes # held
      <4>1. Len(bytes) = rx.count - 1 /\ rx.count \in Nat
        <5> HIDE DEF g
        <5> QED BY <1>1, <1>4
      <4> HIDE DEF bytes
      <4> QED BY <1>1, <3>2, <4>1
    <3>4. taken' # <<held, held>>
      BY <1>5, <3>3
    <3> QED BY <2>3, <3>4, Zenon DEF Full
  <2> QED BY <2>2, <2>3
<1>11. Len(input') <= Geometry'.most
  BY <1>1, <1>2, <1>4
<1> QED BY <1>2, <1>5, <1>6, <1>7, <1>8, <1>9, <1>10, <1>11 DEF CodecInv

\* An encoder with nothing in it.
LEMMA NothingEncoded ==
  ASSUME NEW g \in {DataGeometry, AckGeometry}
  PROVE  Chars(g, 0) = 0 /\ 0 \div Group(g) = 0 /\ 0 % Group(g) = 0
<1>1. Group(g) \in {3, 7}
  BY Common
<1>2. 0 \div Group(g) = 0 /\ 0 % Group(g) = 0
  <2> DEFINE w == Group(g)
  <2>1. w \in {3, 7}
    BY <1>1
  <2> HIDE DEF w
  <2>2. 0 \div w = 0 /\ 0 % w = 0
    BY <2>1
  <2> QED BY <2>2 DEF w
<1> QED BY <1>2 DEF Chars

LEMMA FlushedEncoder ==
  ASSUME CodecInv, kind' = kind, tx' = Flushed(tx), input' = <<>>, line' = <<>>, taken' = <<>>
  PROVE  /\ Geometry' = Geometry /\ EncoderInv' /\ LineInv' /\ Gone' = 0
         /\ BufferType(tx, Geometry.tx, Group(Geometry))' /\ Len(input') <= Geometry'.most
<1> DEFINE g == Geometry
<1>1. g \in {DataGeometry, AckGeometry} /\ tx.count \in 1 .. g.tx /\ tx.buffer \in [0 .. g.tx - 1 -> Octet]
  BY Unpacked
<1>2. Geometry' = g
  BY DEF Geometry
<1>3. Chars(g, 0) = 0 /\ 0 \div Group(g) = 0 /\ 0 % Group(g) = 0
  BY <1>1, NothingEncoded
<1>4. g.tx \in Nat /\ g.most \in Nat /\ Group(g) \in {3, 7}
  BY <1>1, Common
<1>5. tx'.count = 1 /\ tx'.step = 0 /\ tx'.buffer = tx.buffer
  BY DEF Flushed
<1>6. Len(input') = 0 /\ Encoding' /\ Gone' = 0 /\ LineInv'
  BY DEF Encoding, Gone, LineInv
<1>7. BufferType(tx, Geometry.tx, Group(Geometry))'
  <2>1. 1 \in 1 .. g.tx /\ 0 \in 0 .. Group(g) - 1
    <3> HIDE DEF g
    <3> QED BY <1>1, <1>4
  <2> QED BY <1>1, <1>2, <1>5, <2>1 DEF BufferType
<1>8. EncoderInv'
  <2>1. /\ \A i \in 1 .. 0 : tx'.buffer[i] \subseteq 0 .. g.bits /\ g.bits \in tx'.buffer[i]
        /\ \A i \in 1 .. 0 : DecodeByte(g, tx'.buffer, i - 1) = input'[i]
    OBVIOUS
  <2> HIDE DEF g
  <2> QED BY <1>2, <1>3, <1>5, <1>6, <2>1 DEF EncoderInv, BytesReadableInPlace
<1> QED BY <1>2, <1>4, <1>6, <1>7, <1>8

LEMMA LoseEndStep ==
  ASSUME CodecInv, LoseEnd
  PROVE  CodecInv'
<1> DEFINE g == Geometry
<1>1. /\ g \in {DataGeometry, AckGeometry} /\ Len(input) \in Nat /\ Len(input) <= g.most
      /\ input \in Seq(Byte) /\ kind \in {"data", "ack"} /\ frames \in 1 .. MaxFrames
  BY Unpacked
<1>2. /\ line # <<>> /\ Head(line) = g.end /\ held = <<>> /\ frames < MaxFrames /\ line' = <<>>
      /\ tx' = Flushed(tx) /\ held' = input /\ input' = <<>> /\ frames' = frames + 1
      /\ UNCHANGED <<kind, rx, crc, taken>>
  BY DEF LoseEnd
<1>3. taken' = <<>> /\ Len(input) >= g.least /\ g.least >= 5 /\ g.least \in Nat
  BY <1>1, <1>2, LastOnTheLine, Common
<1>4. /\ Geometry' = g /\ EncoderInv' /\ LineInv' /\ Gone' = 0
      /\ BufferType(tx, Geometry.tx, Group(Geometry))' /\ Len(input') <= Geometry'.most
  BY <1>2, <1>3, FlushedEncoder
<1>5. /\ rx.count = Len(input) + 1 /\ crc = input
      /\ \A i \in 1 .. Len(input) : rx.buffer[i] = input[i]
  BY <1>2, AllArrived
<1>6. held' # <<>>
  <2>1. Len(input) # 0
    <3> HIDE DEF g
    <3> QED BY <1>1, <1>3
  <2> QED BY <1>2, <2>1
<1>7. HeldInv'
  <2>1. Len(input) \in g.least .. g.most
    <3>1. g.most \in Nat
      BY <1>1, Common
    <3> HIDE DEF g
    <3> QED BY <1>1, <1>3, <3>1
  <2>2. rx.count > Len(input) /\ ~(0 >= 1) /\ ~(0 >= 2)
    BY <1>1, <1>5
  <2> HIDE DEF g
  <2> QED BY <1>2, <1>4, <1>5, <2>1, <2>2 DEF HeldInv
<1>8. TypeOK'
  <2>1. BufferType(rx, Geometry.rx, 8 \div Geometry.inc)'
    BY <1>2, <1>4 DEF CodecInv, TypeOK, g
  <2>2. frames' \in 1 .. MaxFrames
    BY <1>1, <1>2, FramesAssumption
  <2>3. kind' \in {"data", "ack"} /\ input' \in Seq(Byte) /\ held' \in Seq(Byte) /\ crc' \in Seq(Octet)
        /\ line' \in Seq(Octet)
    BY <1>1, <1>2 DEF CodecInv, TypeOK
  <2> QED BY <1>4, <2>1, <2>2, <2>3 DEF TypeOK
<1> QED BY <1>3, <1>4, <1>6, <1>7, <1>8 DEF CodecInv

LEMMA NextFrameStep ==
  ASSUME CodecInv, NextFrame
  PROVE  CodecInv'
<1>1. /\ taken # <<>> /\ frames < MaxFrames /\ tx' = Flushed(tx) /\ input' = <<>> /\ taken' = <<>>
      /\ held' = <<>> /\ frames' = frames + 1 /\ UNCHANGED <<kind, rx, crc, line>>
  BY DEF NextFrame
<1>2. line' = <<>> /\ rx.count = 1 /\ rx.step = 0 /\ crc = <<>>
  BY <1>1 DEF CodecInv, LineInv
<1>3. /\ Geometry' = Geometry /\ EncoderInv' /\ LineInv' /\ Gone' = 0
      /\ BufferType(tx, Geometry.tx, Group(Geometry))' /\ Len(input') <= Geometry'.most
  BY <1>1, <1>2, FlushedEncoder
<1>4. DecoderInv'
  <2>1. Len(input') \in Nat /\ rx'.step = 0 /\ rx'.count = 1 /\ crc' = <<>> /\ kind' = kind
    BY <1>1, <1>2
  <2> QED BY <1>3, <2>1, NothingGoneNext
<1>5. TypeOK'
  <2>1. BufferType(rx, Geometry.rx, 8 \div Geometry.inc)'
    BY <1>1, <1>3 DEF CodecInv, TypeOK
  <2>2. frames' \in 1 .. MaxFrames
    BY <1>1, FramesAssumption, Unpacked
  <2>3. kind' \in {"data", "ack"} /\ input' \in Seq(Byte) /\ held' \in Seq(Byte) /\ crc' \in Seq(Octet)
        /\ line' \in Seq(Octet)
    BY <1>1, <1>2 DEF CodecInv, TypeOK
  <2> QED BY <1>3, <2>1, <2>2, <2>3 DEF TypeOK
<1> QED BY <1>1, <1>3, <1>4, <1>5 DEF CodecInv

-----------------------------------------------------------------------------
LEMMA FirstState ==
  ASSUME Init
  PROVE  CodecInv
<1> DEFINE g == Geometry
           w == Group(g) + 1
<1>1. kind \in {"data", "ack"} /\ g \in {DataGeometry, AckGeometry}
  BY ItsGeometry DEF Init
<1>2. /\ Group(g) \in {3, 7} /\ 8 \div g.inc = Group(g) + 1 /\ g.tx \in Nat /\ g.rx \in Nat
      /\ g.most \in Nat /\ g.most + 2 <= g.rx
  BY <1>1, Common
<1>3. g.tx > 0
  <2>1. 0 \in Nat /\ 0 <= g.most
    BY <1>1, Common
  <2>2. 0 + (0 \div Group(g)) + 3 < g.tx
    BY <1>1, <2>1, RoomForFrame
  <2>3. 0 \div Group(g) = 0
    BY <1>1, NothingEncoded
  <2> HIDE DEF g
  <2> QED BY <1>2, <2>2, <2>3
<1>4. /\ tx.count = 1 /\ tx.step = 0 /\ tx.buffer \in [0 .. g.tx - 1 -> Octet]
      /\ rx.count = 1 /\ rx.step = 0 /\ rx.buffer \in [0 .. g.rx - 1 -> Octet]
      /\ crc = <<>> /\ input = <<>> /\ line = <<>> /\ taken = <<>> /\ held = <<>> /\ frames = 1
  BY DEF Init, New
<1>5. Chars(g, 0) = 0 /\ 0 \div Group(g) = 0 /\ 0 % Group(g) = 0
  BY <1>1, NothingEncoded
<1>6. Len(input) = 0 /\ Encoding /\ Gone = 0
  BY <1>4 DEF Encoding, Gone
<1>7. TypeOK
  <2>1. 1 \in 1 .. g.tx /\ 1 \in 1 .. g.rx /\ 0 \in 0 .. Group(g) - 1 /\ 0 \in 0 .. (8 \div g.inc) - 1
    <3> HIDE DEF g
    <3> QED BY <1>2, <1>3
  <2>2. BufferType(tx, g.tx, Group(g)) /\ BufferType(rx, g.rx, 8 \div g.inc)
    BY <1>4, <2>1 DEF BufferType
  <2>3. frames \in 1 .. MaxFrames
    BY <1>4, FramesAssumption
  <2> QED BY <1>1, <1>4, <2>2, <2>3 DEF TypeOK
<1>8. EncoderInv
  <2>1. /\ \A i \in 1 .. 0 : tx.buffer[i] \subseteq 0 .. g.bits /\ g.bits \in tx.buffer[i]
        /\ \A i \in 1 .. 0 : DecodeByte(g, tx.buffer, i - 1) = input[i]
    OBVIOUS
  <2> HIDE DEF g
  <2> QED BY <1>4, <1>5, <1>6, <2>1 DEF EncoderInv, BytesReadableInPlace, g
<1>9. DecoderInv
  <2>1. 0 % w = 0 /\ 0 \div w = 0
    <3>1. w \in {4, 8}
      BY <1>2
    <3> HIDE DEF w
    <3> QED BY <3>1
  <2>2. crc = [i \in 1 .. rx.count - 1 |-> input[i]]
    BY <1>4
  <2> QED BY <1>4, <1>6, <2>1, <2>2 DEF DecoderInv
<1> QED BY <1>2, <1>4, <1>6, <1>7, <1>8, <1>9 DEF CodecInv, LineInv

LEMMA AnyStep ==
  ASSUME CodecInv, [Next]_vars
  PROVE  CodecInv'
<1>1. /\ kind = "data" => Geometry = DataGeometry
      /\ kind = "ack" => Geometry = AckGeometry
  BY ItsGeometry, Unpacked
<1>2. ASSUME NEW c \in Byte, EncodeData(c) PROVE CodecInv'
  BY <1>1, <1>2, EncodeStep DEF EncodeData
<1>3. ASSUME NEW c \in Byte, EncodeAck(c) PROVE CodecInv'
  BY <1>1, <1>3, EncodeStep DEF EncodeAck
<1>4. CASE DecodeData
  BY <1>1, <1>4, DecodeKeeps DEF DecodeData
<1>5. CASE DecodeAck
  BY <1>1, <1>5, DecodeKeeps DEF DecodeAck
<1>6. CASE UNCHANGED vars
  BY <1>6 DEF vars, CodecInv, TypeOK, BufferType, Geometry, EncoderInv, Encoding, LineInv, Gone,
              DecoderInv, HeldInv, Full, BytesReadableInPlace, FrameComesBack, OnlyFullFrameSurvives
<1> QED BY <1>2, <1>3, <1>4, <1>5, <1>6, EncodeEndStep, DecodeEndStep, LoseEndStep, NextFrameStep
    DEF Next

\* The inductive invariant of the frame codec, for every maximum payload, every set of
\* bytes and whatever the buffers held before the first frame: the encoder has the
\* characters of the frame, the line the rest of them, the decoder the bytes so far.
THEOREM CodecInvariant == Spec => []CodecInv
<1>1. Init => CodecInv
  BY FirstState
<1>2. CodecInv /\ [Next]_vars => CodecInv'
  BY AnyStep
<1> QED BY <1>1, <1>2, PTL DEF Spec

\* Encoder and decoder never write outside their buffers, which are sized for the
\* longest frame, and every character fits a byte.
THEOREM CodecTypeOK == Spec => []TypeOK
<1>1. CodecInv => TypeOK
  BY DEF CodecInv
<1> QED BY <1>1, CodecInvariant, PTL

\* What the receiver has at the end mark is the frame that was encoded, and the checksum
\* was taken over exactly its bytes.
THEOREM FramesComeBack == Spec => []FrameComesBack
<1>1. CodecInv => FrameComesBack
  BY DEF CodecInv, FrameComesBack
<1> QED BY <1>1, CodecInvariant, PTL

\* When only the end mark is lost, a frame that fills the decoder is intact at the next
\* end mark and every other one is spoilt.
THEOREM FullFramesSurvive == Spec => []OnlyFullFrameSurvives
<1>1. CodecInv => OnlyFullFrameSurvives
  BY DEF CodecInv, OnlyFullFrameSurvives
<1> QED BY <1>1, CodecInvariant, PTL

\* decodeData and decodeAck find every byte of a frame while it is still encoded.
THEOREM ReadableInPlace == Spec => []BytesReadableInPlace
<1>1. CodecInv => BytesReadableInPlace
  BY DEF CodecInv, EncoderInv
<1> QED BY <1>1, CodecInvariant, PTL

-----------------------------------------------------------------------------
\* The unprimed arithmetic of words: xor and shifts, place by place.
LEMMA XorType ==
  ASSUME NEW a \in SUBSET Width, NEW b \in SUBSET Width
  PROVE  Xor(a, b) \in SUBSET Width
BY DEF Xor

LEMMA ShiftLeftType ==
  ASSUME NEW a, NEW k \in Nat
  PROVE  ShiftLeft(a, k) \in SUBSET Width
BY DEF ShiftLeft

LEMMA ShiftType ==
  ASSUME NEW a \in SUBSET Width
  PROVE  Shift(a) \in SUBSET Width
BY DEF Shift, Xor, ShiftLeft, Poly, Width

LEMMA Shift8Type ==
  ASSUME NEW a \in SUBSET Width
  PROVE  Shift8(a) \in SUBSET Width
BY ShiftType DEF Shift8, Shift4

LEMMA ShiftLeftLinear ==
  ASSUME NEW a \in SUBSET Width, NEW b \in SUBSET Width, NEW k \in Nat
  PROVE  ShiftLeft(Xor(a, b), k) = Xor(ShiftLeft(a, k), ShiftLeft(b, k))
BY DEF ShiftLeft, Xor

\* The loop of the table is linear: the polynomial is added once or twice or not.
LEMMA ShiftLinear ==
  ASSUME NEW a \in SUBSET Width, NEW b \in SUBSET Width
  PROVE  Shift(Xor(a, b)) = Xor(Shift(a), Shift(b))
<1> DEFINE x == ShiftLeft(a, 1)
           y == ShiftLeft(b, 1)
<1>1. ShiftLeft(Xor(a, b), 1) = Xor(x, y)
  BY ShiftLeftLinear
<1>2. 31 \in Xor(a, b) <=> ~(31 \in a <=> 31 \in b)
  BY DEF Xor
<1>3. /\ Shift(a) = IF 31 \in a THEN Xor(x, Poly) ELSE x
      /\ Shift(b) = IF 31 \in b THEN Xor(y, Poly) ELSE y
      /\ Shift(Xor(a, b)) = IF 31 \in Xor(a, b) THEN Xor(Xor(x, y), Poly) ELSE Xor(x, y)
  BY <1>1 DEF Shift
<1> HIDE DEF x, y
<1>4. /\ Xor(Xor(x, y), Poly) = Xor(Xor(x, Poly), y)
      /\ Xor(Xor(x, y), Poly) = Xor(x, Xor(y, Poly))
      /\ Xor(x, y) = Xor(Xor(x, Poly), Xor(y, Poly))
  BY DEF Xor
<1> QED BY <1>2, <1>3, <1>4

LEMMA Shift4Linear ==
  ASSUME NEW a \in SUBSET Width, NEW b \in SUBSET Width
  PROVE  Shift4(Xor(a, b)) = Xor(Shift4(a), Shift4(b)) /\ Shift4(a) \in SUBSET Width
<1>1. Shift(Xor(a, b)) = Xor(Shift(a), Shift(b)) /\ Shift(a) \in SUBSET Width /\ Shift(b) \in SUBSET Width
  BY ShiftLinear, ShiftType
<1> DEFINE a1 == Shift(a)
           b1 == Shift(b)
           a2 == Shift(a1)
           b2 == Shift(b1)
           a3 == Shift(a2)
           b3 == Shift(b2)
<1>2. Shift(Xor(a1, b1)) = Xor(a2, b2) /\ a2 \in SUBSET Width /\ b2 \in SUBSET Width
  BY <1>1, ShiftLinear, ShiftType
<1>3. Shift(Xor(a2, b2)) = Xor(a3, b3) /\ a3 \in SUBSET Width /\ b3 \in SUBSET Width
  BY <1>2, ShiftLinear, ShiftType
<1>4. Shift(Xor(a3, b3)) = Xor(Shift(a3), Shift(b3)) /\ Shift(a3) \in SUBSET Width
  BY <1>3, ShiftLinear, ShiftType
<1> QED BY <1>1, <1>2, <1>3, <1>4 DEF Shift4

LEMMA Shift8Linear ==
  ASSUME NEW a \in SUBSET Width, NEW b \in SUBSET Width
  PROVE  Shift8(Xor(a, b)) = Xor(Shift8(a), Shift8(b))
BY Shift4Linear, Shift4Linear DEF Shift8

\* The last term of the polynomial: nothing but zero becomes zero.
LEMMA ShiftKeepsDamage ==
  ASSUME NEW a \in SUBSET Width, a # {}
  PROVE  Shift(a) # {}
<1>1. CASE 31 \in a
  <2>1. 0 \in Poly /\ 0 \notin ShiftLeft(a, 1)
    BY DEF Poly, ShiftLeft, Width
  <2> QED BY <1>1, <2>1 DEF Shift, Xor
<1>2. CASE 31 \notin a
  <2>0. \A i \in a : i \in 0 .. 31 /\ i # 31
    BY <1>2 DEF Width
  <2>1. PICK i \in a : i \in 0 .. 30
    <3>1. PICK i \in a : TRUE
      OBVIOUS
    <3>2. i \in 0 .. 30
      BY <2>0, <3>1
    <3> QED BY <3>1, <3>2
  <2>2. i + 1 \in Width /\ (i + 1) - 1 = i
    BY <2>1 DEF Width
  <2>3. i + 1 \in ShiftLeft(a, 1)
    BY <2>1, <2>2 DEF ShiftLeft
  <2> QED BY <1>2, <2>3 DEF Shift
<1> QED BY <1>1, <1>2

LEMMA Shift8KeepsDamage ==
  ASSUME NEW a \in SUBSET Width, a # {}
  PROVE  Shift8(a) # {}
BY ShiftKeepsDamage, ShiftType DEF Shift8, Shift4

\* Without a bit at the top it is a shift.
LEMMA ShiftPlain ==
  ASSUME NEW a, NEW k \in 0 .. 7, a \subseteq 0 .. 23
  PROVE  Shift(ShiftLeft(a, k)) = ShiftLeft(a, k + 1)
<1>1. 31 \notin ShiftLeft(a, k)
  BY DEF ShiftLeft, Width
<1>2. ShiftLeft(ShiftLeft(a, k), 1) = ShiftLeft(a, k + 1)
  <2>1. ASSUME NEW i \in Width PROVE i - 1 \in ShiftLeft(a, k) <=> i - (k + 1) \in a
    <3>1. (i - 1) - k = i - (k + 1)
      BY DEF Width
    <3>2. i - (k + 1) \in a => i - 1 \in Width
      BY DEF Width
    <3> QED BY <3>1, <3>2 DEF ShiftLeft
  <2> QED BY <2>1 DEF ShiftLeft
<1> QED BY <1>1, <1>2 DEF Shift

LEMMA Shift8Plain ==
  ASSUME NEW a, a \subseteq 0 .. 23
  PROVE  Shift8(a) = ShiftLeft(a, 8)
<1>0. a = ShiftLeft(a, 0)
  <2>1. \A i \in Width : i - 0 = i
    BY DEF Width
  <2>2. a \subseteq Width
    BY DEF Width
  <2> QED BY <2>1, <2>2 DEF ShiftLeft
<1>k. \A k \in 0 .. 7 : Shift(ShiftLeft(a, k)) = ShiftLeft(a, k + 1)
  BY ShiftPlain
<1>1. /\ Shift(ShiftLeft(a, 0)) = ShiftLeft(a, 1) /\ Shift(ShiftLeft(a, 1)) = ShiftLeft(a, 2)
      /\ Shift(ShiftLeft(a, 2)) = ShiftLeft(a, 3) /\ Shift(ShiftLeft(a, 3)) = ShiftLeft(a, 4)
  BY <1>k
<1>2. /\ Shift(ShiftLeft(a, 4)) = ShiftLeft(a, 5) /\ Shift(ShiftLeft(a, 5)) = ShiftLeft(a, 6)
      /\ Shift(ShiftLeft(a, 6)) = ShiftLeft(a, 7) /\ Shift(ShiftLeft(a, 7)) = ShiftLeft(a, 8)
  BY <1>k
<1>3. Shift4(a) = ShiftLeft(a, 4)
  BY <1>0, <1>1 DEF Shift4
<1> QED BY <1>2, <1>3 DEF Shift8, Shift4

\* The low 24 bits of a word and a byte above them.
Low(a) == a \cap 0 .. 23

LEMMA LowShift ==
  ASSUME NEW a \in SUBSET Width
  PROVE  ShiftLeft(a, 8) = Shift8(Low(a)) /\ Low(a) \in SUBSET Width
<1>1. ShiftLeft(a, 8) = ShiftLeft(Low(a), 8)
  BY DEF ShiftLeft, Low, Width
<1> QED BY <1>1, Shift8Plain DEF Low, Width

LEMMA ByteOnTop ==
  ASSUME NEW a \in SUBSET Width, NEW c \in Octet
  PROVE  /\ ShiftRight(a, 24) \in Octet
         /\ Xor(Low(a), ShiftLeft(Xor(ShiftRight(a, 24), c), 24)) = Xor(a, ShiftLeft(c, 24))
<1>1. ShiftRight(a, 24) \in Octet
  BY DEF ShiftRight, Width, Octet
<1>2. ASSUME NEW i \in Width
      PROVE  i - 24 \in Xor(ShiftRight(a, 24), c) <=> ~((i >= 24 /\ i \in a) <=> i - 24 \in c)
  <2>1. i - 24 \in ShiftRight(a, 24) <=> i >= 24 /\ i \in a
    BY DEF ShiftRight, Width
  <2> QED BY <2>1 DEF Xor
<1>3. ASSUME NEW i \in Width
      PROVE  i \in ShiftLeft(Xor(ShiftRight(a, 24), c), 24) <=> ~((i >= 24 /\ i \in a) <=> i \in ShiftLeft(c, 24))
  BY <1>2 DEF ShiftLeft
<1>4. ASSUME NEW i \in Width, i < 24 PROVE i \notin ShiftLeft(c, 24)
  BY <1>4 DEF ShiftLeft, Width, Octet
<1> DEFINE x == ShiftLeft(Xor(ShiftRight(a, 24), c), 24)
           y == ShiftLeft(c, 24)
<1>5. x \in SUBSET Width /\ y \in SUBSET Width
  BY DEF ShiftLeft
<1> HIDE DEF x, y
<1>6. ASSUME NEW i \in Width PROVE i \in Xor(Low(a), x) <=> i \in Xor(a, y)
  <2>1. i \in Low(a) <=> i \in a /\ ~(i >= 24)
    BY DEF Low, Width
  <2>2. i \in x <=> ~((i >= 24 /\ i \in a) <=> i \in y)
    BY <1>3 DEF x, y
  <2>3. ~(i >= 24) => i \notin y
    BY <1>4 DEF y, Width
  <2> QED BY <2>1, <2>2, <2>3 DEF Xor
<1>7. Xor(Low(a), x) = Xor(a, y)
  BY <1>5, <1>6 DEF Xor, Low, Width
<1> QED BY <1>1, <1>7 DEF x, y

\* A generated table computes division bit by bit, eight bits at a time.
LEMMA TableDivides ==
  ASSUME TableGenerated, NEW a \in SUBSET Width, NEW c \in Octet
  PROVE  xcrc32(a, c) = Shift8(Xor(a, ShiftLeft(c, 24)))
<1> DEFINE h == Xor(ShiftRight(a, 24), c)
<1>1. h \in Octet
  BY ByteOnTop DEF Xor, Octet
<1>2. crc32_table[h] = Shift8(ShiftLeft(h, 24))
  BY <1>1 DEF TableGenerated
<1>3. ShiftLeft(h, 24) \in SUBSET Width
  BY ShiftLeftType
<1>4. Xor(ShiftLeft(a, 8), crc32_table[h]) = Shift8(Xor(Low(a), ShiftLeft(h, 24)))
  BY <1>2, <1>3, LowShift, Shift8Linear
<1> QED BY <1>4, ByteOnTop DEF xcrc32

-----------------------------------------------------------------------------
\* The CRC goes out from the top: what is sent is what the remainder starts with.
LEMMA OwnByteShifts ==
  ASSUME TableGenerated, NEW a \in SUBSET Width
  PROVE  xcrc32(a, ShiftRight(a, 24)) = ShiftLeft(a, 8)
<1> DEFINE h == Xor(ShiftRight(a, 24), ShiftRight(a, 24))
<1>1. h = {} /\ h \in Octet
  BY DEF Xor, Octet
<1>2. ShiftLeft({}, 24) = Low({}) /\ Low({}) = ShiftLeft({}, 8) /\ {} \in SUBSET Width
  BY DEF ShiftLeft, Low
<1>3. crc32_table[h] = {}
  BY <1>1, <1>2, LowShift DEF TableGenerated, ShiftLeft
<1> QED BY <1>3 DEF xcrc32, Xor

LEMMA CrcByte ==
  ASSUME NEW k \in 1 .. 4, sum \in SUBSET Width, txCrc = ShiftLeft(sum, 8 * (4 - k))
  PROVE  BigEndian(k) = ShiftRight(txCrc, 24) /\ ShiftLeft(txCrc, 8) = ShiftLeft(sum, 8 * (4 - (k - 1)))
<1> DEFINE n == 8 * (4 - k)
<1>1. n \in 0 .. 24 /\ 8 * (k - 1) = 24 - n /\ 8 * (4 - (k - 1)) = n + 8
  OBVIOUS
<1>2. BigEndian(k) = {i \in 0 .. 7 : i + (24 - n) \in sum}
  BY <1>1 DEF BigEndian
<1>3. txCrc = ShiftLeft(sum, n)
  OBVIOUS
<1> HIDE DEF n
<1>4. ASSUME NEW i \in 0 .. 7 PROVE i + (24 - n) \in sum <=> i + 24 \in txCrc
  <2>1. i + 24 \in Width /\ (i + 24) - n = i + (24 - n)
    BY <1>1 DEF Width
  <2> QED BY <2>1, <1>3 DEF ShiftLeft
<1>5. ASSUME NEW i \in Width, i + 24 \in txCrc PROVE i \in 0 .. 7
  BY <1>5, <1>3 DEF ShiftLeft, Width
<1>6. BigEndian(k) = ShiftRight(txCrc, 24)
  <2>1. ASSUME NEW i \in 0 .. 7 PROVE i \in Width
    BY DEF Width
  <2> QED BY <1>2, <1>4, <1>5, <2>1 DEF ShiftRight
<1>7. ASSUME NEW i \in Width PROVE i - 8 \in txCrc <=> i - (n + 8) \in sum
  <2>1. (i - 8) - n = i - (n + 8)
    BY <1>1 DEF Width
  <2>2. i - (n + 8) \in sum => i - 8 \in Width
    BY <1>1 DEF Width
  <2> QED BY <2>1, <2>2, <1>3 DEF ShiftLeft
<1>8. ShiftLeft(txCrc, 8) = ShiftLeft(sum, n + 8)
  BY <1>7 DEF ShiftLeft
<1> QED BY <1>1, <1>6, <1>8

\* The difference of the remainders and the damage to come, taken together.
LEMMA DamageRunsOn ==
  ASSUME TableGenerated, CrcTypeOK, NEW c \in Octet, Transfer(c)
  PROVE  /\ txCrc' \in SUBSET Width /\ rxCrc' \in SUBSET Width /\ burst' \in SUBSET Width
         /\ Xor(Xor(txCrc', rxCrc'), burst') = Shift8(Xor(Xor(txCrc, rxCrc), burst))
<1> DEFINE e == ShiftRight(burst, 24)
           d == Xor(c, e)
           x == Xor(txCrc, ShiftLeft(c, 24))
           y == Xor(rxCrc, ShiftLeft(d, 24))
           z == Low(burst)
<1>1. txCrc \in SUBSET Width /\ rxCrc \in SUBSET Width /\ burst \in SUBSET Width
  BY DEF CrcTypeOK
<1>2. e \in Octet /\ d \in Octet
  BY <1>1, ByteOnTop DEF Xor, Octet
<1>3. x \in SUBSET Width /\ y \in SUBSET Width /\ z \in SUBSET Width
  BY <1>1, ShiftLeftType, LowShift, XorType
<1>4. txCrc' = Shift8(x)
  BY <1>1, TableDivides DEF Transfer
<1>5. rxCrc' = Shift8(y)
  BY <1>1, <1>2, TableDivides DEF Transfer
<1>6. burst' = Shift8(z)
  BY <1>1, LowShift DEF Transfer
<1>7. Xor(Xor(x, y), z) = Xor(Xor(txCrc, rxCrc), burst)
  <2>1. ShiftLeft(d, 24) = Xor(ShiftLeft(c, 24), ShiftLeft(e, 24))
    BY DEF ShiftLeft, Xor
  <2>2. Xor(z, ShiftLeft(e, 24)) = burst
    <3>1. Xor(ShiftRight(burst, 24), {}) = e /\ {} \in Octet
      BY DEF Xor, Octet
    <3>2. Xor(z, ShiftLeft(e, 24)) = Xor(burst, ShiftLeft({}, 24))
      BY <1>1, <3>1, ByteOnTop
    <3> QED BY <3>2 DEF Xor, ShiftLeft
  <2> DEFINE p == ShiftLeft(c, 24)
             q == ShiftLeft(e, 24)
  <2> HIDE DEF p, q, z, e
  <2>3. x = Xor(txCrc, p) /\ y = Xor(rxCrc, Xor(p, q)) /\ Xor(z, q) = burst
    BY <2>1, <2>2 DEF p, q
  <2>4. Xor(Xor(Xor(txCrc, p), Xor(rxCrc, Xor(p, q))), z) = Xor(Xor(txCrc, rxCrc), Xor(z, q))
    BY DEF Xor
  <2> QED BY <2>3, <2>4
<1> HIDE DEF x, y, z
<1>8. Shift8(Xor(Xor(x, y), z)) = Xor(Xor(Shift8(x), Shift8(y)), Shift8(z))
  BY <1>3, XorType, Shift8Linear
<1> QED BY <1>3, <1>4, <1>5, <1>6, <1>7, <1>8, Shift8Type

-----------------------------------------------------------------------------

LEMMA CrcInvPreserved == TableGenerated /\ CrcInv /\ [CrcNext]_crcVars => CrcInv'
<1> SUFFICES ASSUME TableGenerated, CrcInv, [CrcNext]_crcVars PROVE CrcInv'
  OBVIOUS
<1>0. /\ CrcTypeOK /\ txCrc \in SUBSET Width /\ rxCrc \in SUBSET Width /\ sum \in SUBSET Width
      /\ burst \in SUBSET Width /\ len \in 0 .. MaxLen /\ left \in 0 .. 5 /\ damaged \in BOOLEAN
  BY DEF CrcInv, CrcTypeOK
<1>t. ASSUME NEW c \in Octet, Transfer(c), UNCHANGED damaged
      PROVE  /\ txCrc' \in SUBSET Width /\ rxCrc' \in SUBSET Width /\ burst' \in SUBSET Width
             /\ ~damaged' => burst' = {} /\ rxCrc' = txCrc'
             /\ damaged' => Xor(Xor(txCrc', rxCrc'), burst') # {}
  <2>1. /\ txCrc' \in SUBSET Width /\ rxCrc' \in SUBSET Width /\ burst' \in SUBSET Width
        /\ Xor(Xor(txCrc', rxCrc'), burst') = Shift8(Xor(Xor(txCrc, rxCrc), burst))
    BY <1>0, <1>t, DamageRunsOn
  <2>2. CASE damaged
    <3>1. Xor(Xor(txCrc, rxCrc), burst) # {} /\ Xor(Xor(txCrc, rxCrc), burst) \in SUBSET Width
      BY <2>2, <1>0, XorType DEF CrcInv
    <3>2. Xor(Xor(txCrc', rxCrc'), burst') # {}
      BY <2>1, <3>1, Shift8KeepsDamage
    <3> QED BY <2>1, <2>2, <3>2, <1>t
  <2>3. CASE ~damaged
    <3>1. burst = {} /\ rxCrc = txCrc
      BY <2>3 DEF CrcInv
    <3>2. ShiftRight(burst, 24) = {} /\ ShiftLeft(burst, 8) = {}
      BY <3>1 DEF ShiftRight, ShiftLeft
    <3>3. Xor(c, {}) = c
      BY DEF Xor
    <3>4. burst' = {} /\ rxCrc' = txCrc'
      BY <1>t, <3>1, <3>2, <3>3 DEF Transfer
    <3> QED BY <2>1, <2>3, <3>4, <1>t
  <2> QED BY <2>2, <2>3, <1>0
<1>1. ASSUME NEW c \in Byte, PushData(c) PROVE CrcInv'
  <2>1. c \in Octet /\ Transfer(c) /\ UNCHANGED damaged
    BY <1>1, ByteAssumption DEF PushData
  <2>2. left' = 5 /\ len' \in 0 .. MaxLen /\ sum' = sum /\ damaged' = damaged
    BY <1>0, <1>1, LengthAssumption DEF PushData
  <2> QED BY <1>0, <1>t, <2>1, <2>2 DEF CrcInv, CrcTypeOK
<1>2. CASE BeginCrc
  <2>1. ShiftLeft(txCrc, 8 * (4 - 4)) = txCrc
    <3>1. \A i \in Width : i - 0 = i
      BY DEF Width
    <3>2. ShiftLeft(txCrc, 0) = txCrc
      BY <1>0, <3>1 DEF ShiftLeft
    <3> QED BY <3>2
  <2>2. left' = 4 /\ sum' = txCrc /\ txCrc' = txCrc /\ rxCrc' = rxCrc /\ len' = len /\ burst' = burst /\ damaged' = damaged
    BY <1>2 DEF BeginCrc
  <2>3. txCrc' = ShiftLeft(sum', 8 * (4 - left'))
    BY <2>1, <2>2
  <2> QED BY <1>0, <2>2, <2>3 DEF CrcInv, CrcTypeOK
<1>3. CASE PushCrc
  <2>1. left \in 1 .. 4 /\ left' = left - 1 /\ Transfer(BigEndian(left)) /\ UNCHANGED <<sum, len, damaged>>
    BY <1>3 DEF PushCrc
  <2>2. BigEndian(left) \in Octet
    BY DEF BigEndian, Octet
  <2>3. txCrc = ShiftLeft(sum, 8 * (4 - left))
    BY <2>1 DEF CrcInv
  <2>4. BigEndian(left) = ShiftRight(txCrc, 24) /\ ShiftLeft(txCrc, 8) = ShiftLeft(sum, 8 * (4 - (left - 1)))
    BY <1>0, <2>1, <2>3, CrcByte
  <2>5. txCrc' = ShiftLeft(sum, 8 * (4 - (left - 1)))
    BY <1>0, <2>1, <2>4, OwnByteShifts DEF Transfer
  <2>6. left' \in 0 .. 5 /\ txCrc' = ShiftLeft(sum', 8 * (4 - left'))
    BY <2>1, <2>5
  <2> QED BY <1>0, <1>t, <2>1, <2>2, <2>6 DEF CrcInv, CrcTypeOK
<1>4. ASSUME NEW b \in Burst, Damage(b) PROVE CrcInv'
  <2>1. b \in SUBSET Width /\ b # {}
    BY BurstAssumption
  <2>2. burst = {} /\ rxCrc = txCrc
    BY <1>4 DEF CrcInv, Damage
  <2>3. Xor(Xor(txCrc, rxCrc), b) = b
    BY <2>2 DEF Xor
  <2> QED BY <1>0, <1>4, <2>1, <2>3 DEF CrcInv, CrcTypeOK, Damage
<1>5. CASE UNCHANGED crcVars
  BY <1>0, <1>5 DEF crcVars, CrcInv, CrcTypeOK
<1> QED BY <1>1, <1>2, <1>3, <1>4, <1>5 DEF CrcNext

\* While the CRC goes out the encoder shifts it out of its own remainder, and damage that
\* has begun never cancels out: for all bytes, bursts and lengths.  That the literals of
\* crc32.c are the generated ones is a formula without variables that TLC evaluates, as
\* part of LongDivision.
THEOREM CrcInvariant == TableGenerated => (CrcSpec => []CrcInv)
<1>1. CrcInit => CrcInv
  <2> SUFFICES ASSUME CrcInit PROVE CrcInv
    OBVIOUS
  <2>1. CrcTypeOK
    <3>1. txCrc \subseteq Width /\ rxCrc \subseteq Width /\ sum \subseteq Width /\ burst \subseteq Width
      BY DEF CrcInit, FlushedCrc
    <3>2. len = 0 /\ left = 5 /\ damaged = FALSE
      BY DEF CrcInit
    <3>3. len \in 0 .. MaxLen /\ left \in 0 .. 5
      BY <3>2, LengthAssumption
    <3> QED BY <3>1, <3>2, <3>3 DEF CrcTypeOK
  <2>2. left = 5 /\ ~damaged /\ burst = {} /\ rxCrc = txCrc
    BY DEF CrcInit
  <2>3. left \notin 0 .. 4
    BY <2>2
  <2> QED BY <2>1, <2>2, <2>3 DEF CrcInv
<1> SUFFICES ASSUME TableGenerated PROVE CrcSpec => []CrcInv
  OBVIOUS
<1>2. CrcInv /\ [CrcNext]_crcVars => CrcInv'
  BY CrcInvPreserved
<1> QED BY <1>1, <1>2, PTL DEF CrcSpec

LEMMA NothingLeft == ASSUME CrcInv, left = 0 PROVE txCrc = {}
<1>1. txCrc = ShiftLeft(sum, 32) /\ sum \subseteq Width
  BY DEF CrcInv, CrcTypeOK
<1> QED BY <1>1 DEF ShiftLeft, Width

\* The receiver's remainder of every intact frame is 0.
THEOREM IntactAccepted == TableGenerated => (CrcSpec => []IntactFrameAccepted)
<1>1. CrcInv => IntactFrameAccepted
  BY NothingLeft DEF CrcInv, IntactFrameAccepted
<1> SUFFICES ASSUME TableGenerated PROVE CrcSpec => []IntactFrameAccepted
  OBVIOUS
<1>2. CrcSpec => []CrcInv
  BY CrcInvariant
<1> QED BY <1>1, <1>2, PTL

\* The receiver's remainder of a frame with damage to four neighbouring bytes or less, and
\* so to three neighbouring characters, is never 0.
THEOREM DamagedRejected == TableGenerated => (CrcSpec => []DamagedFrameRejected)
<1>1. CrcInv => DamagedFrameRejected
  <2> SUFFICES ASSUME CrcInv, left = 0, damaged, burst = {} PROVE rxCrc # {}
    BY DEF DamagedFrameRejected
  <2>1. txCrc = {} /\ Xor(Xor(txCrc, rxCrc), burst) # {}
    BY NothingLeft DEF CrcInv
  <2> QED BY <2>1 DEF Xor
<1> SUFFICES ASSUME TableGenerated PROVE CrcSpec => []DamagedFrameRejected
  OBVIOUS
<1>2. CrcSpec => []CrcInv
  BY CrcInvariant
<1> QED BY <1>1, <1>2, PTL
=============================================================================
