------------------------------- MODULE Bytes -------------------------------
(***************************************************************************)
(* A byte, a character or a word is the set of its bits that are 1, bit 0  *)
(* the least.                                                              *)
(***************************************************************************)
EXTENDS Integers

CONSTANT Byte    \* the bytes applications send

Octet == SUBSET (0 .. 7)

ASSUME ByteAssumption == Byte \subseteq Octet

\* Shifts whose result is kept in one byte, and the k lowest bits.
Up(c, k) == {i \in 0 .. 7 : i - k \in c}
Down(c, k) == {i \in 0 .. 7 : i + k \in c}
Lowest(c, k) == c \cap 0 .. k - 1
=============================================================================
