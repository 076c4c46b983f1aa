-------------------------- MODULE MCSlay2Buffers --------------------------
(***************************************************************************)
(* The two byte buffers of slay2_buffer.h: the ring at size 3 with two     *)
(* byte values, and a linear buffer of 4 bytes that is given blocks of up  *)
(* to three, one of them with a zero byte inside.  They share nothing, so  *)
(* one of them is used in a behaviour and the other one stays as it is.    *)
(***************************************************************************)
EXTENDS Slay2Fifo, Slay2LinearFifo

VARIABLE used     \* the buffer in use

MCValue == {0, 1, 2}
MCBlock == {<<>>, <<1>>, <<2>>, <<0, 2>>, <<2, 1, 1>>}

MCInit ==
  /\ Init /\ LinearInit
  /\ used \in {"ring", "linear"}
  /\ used = "ring" => linBuffer = [i \in Place |-> 0]
  /\ used = "linear" => buffer = [i \in Index |-> 0]

MCNext ==
  \/ used = "ring" /\ Next /\ UNCHANGED <<linVars, used>>
  \/ used = "linear" /\ LinearNext /\ UNCHANGED <<vars, used>>

MCSpec == MCInit /\ [][MCNext]_<<vars, linVars, used>>
=============================================================================
