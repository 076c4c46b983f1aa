---------------------------- MODULE MCSlay2Codec ----------------------------
(* Buffers with the slack they have at 256 bytes: 11 is 256 modulo 7.  Bytes 90 and  *)
(* 255, and buffers full of one of them.                                             *)
EXTENDS Slay2Codec

MCByte == {{1, 3, 4, 6}, 0 .. 7}

MCInit ==
  /\ kind \in {"data", "ack"}
  /\ \E junk \in Byte :
       /\ tx = [count |-> 1, step |-> 0, buffer |-> [i \in 0 .. Geometry.tx - 1 |-> junk]]
       /\ rx = [count |-> 1, step |-> 0, buffer |-> [i \in 0 .. Geometry.rx - 1 |-> junk]]
  /\ Init

\* A character depends on two neighbouring bytes and on the step: frames repeat two
\* bytes (bound).
MCNext ==
  /\ Next
  /\ Len(input') > Len(input) /\ Len(input) >= 2 => input'[Len(input) + 1] = input[Len(input) - 1]

MCSpec == MCInit /\ [][MCNext]_vars
=============================================================================
