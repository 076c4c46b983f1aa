---------------------------- MODULE MCSlay2Link ----------------------------
(* The link at the scheduler's real depth, with the fewest sequence numbers. *)
EXTENDS Slay2Link

\* An application sends everything in one call; traffic goes one way with faults, or
\* both ways with short texts and without (bound).
MCStreamNext ==
  /\ QuietNext
  /\ \A e \in Station : written'[e] # written[e] => \A ch \in Channel : written[e][ch] = 0
  /\ (\E ch \in Channel : written'["B"][ch] > 0) =>
       errors' = 0 /\ \A e \in Station, ch \in Channel : written'[e][ch] <= 3

MCStreamSpec == Init /\ [][MCStreamNext]_vars
=============================================================================
