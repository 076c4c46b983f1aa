-------------------------- MODULE MCSlay2Channels --------------------------
(* Two threads of an application and the thread of task() on one channel. *)
EXTENDS Slay2Channels
=============================================================================
