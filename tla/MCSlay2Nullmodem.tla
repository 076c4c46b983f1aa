-------------------------- MODULE MCSlay2Nullmodem --------------------------
(* The demo with the driver's own sizes. *)
EXTENDS Slay2Nullmodem
=============================================================================
