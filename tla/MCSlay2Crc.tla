----------------------------- MODULE MCSlay2Crc -----------------------------
(* Every damage to one character, at every place a character can have in its first   *)
(* byte, and some to three characters in a row.                                      *)
EXTENDS Slay2Crc
MCByte == {{}, {2, 3, 5}, 0 .. 7}
\* Bits of one character that starts at bit o of a byte: bytes go out least bit first.
OfOneChar(o) == {24 + b : b \in {x \in o .. 7 : x < o + 7}} \cup {16 + b : b \in 0 .. o - 2}
MCBurst ==
  (UNION {SUBSET OfOneChar(o) : o \in 0 .. 7} \ {{}})
  \cup {{31 - i, 31 - j} : i \in 0 .. 7, j \in 8 .. 20} \cup {24 .. 31, 8 .. 31, Width}
=============================================================================
