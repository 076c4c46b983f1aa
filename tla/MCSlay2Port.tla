---------------------------- MODULE MCSlay2Port ----------------------------
(* The port of one driver among other files of the process. *)
EXTENDS Slay2Port
=============================================================================
