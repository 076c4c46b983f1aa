------------------------- MODULE MCSlay2TxScheduler -------------------------
(***************************************************************************)
(* The scheduler at its real depth, with few sequence numbers and a fast   *)
(* clock.  Frames that grow old and ACKs that share buffers are two state  *)
(* spaces of their own: the traffic of a behaviour is chosen at its start. *)
(***************************************************************************)
EXTENDS Slay2TxScheduler

VARIABLE traffic \* "timed": no frame of the peer, and sends without the more flag;
                 \* "acked": the clock stands still

MCInit ==
  /\ Init /\ traffic \in {"timed", "acked"}
  /\ traffic = "acked" => clock = 0

MCNext ==
  /\ Next
  /\ traffic = "timed" => ackFifoCount' = 0 /\ \A ch \in Channel : ~txMore'[ch]
  /\ traffic = "acked" => clock' = clock
  /\ UNCHANGED traffic

MCSpec == MCInit /\ [][MCNext]_<<vars, traffic>>
=============================================================================
