------------------------- MODULE MCSlay2LinkFaults -------------------------
(* False SYNCs at the scheduler's real depth. *)
EXTENDS Slay2LinkFaults

\* An application sends everything in one call, and again what a full fifo did not take,
\* B after A.  A behaviour has a text of several frames, or texts both ways, or faults of
\* one kind (bound).
SeveralFrames == \E e \in Station, ch \in Channel : written[e][ch] > FRAME_PAYLOAD
BothWays == \A e \in Station : \E ch \in Channel : written[e][ch] > 0
Faults == errors > 0 \/ falseSyncs > 0

MCLiveNext ==
  /\ NoisyNext
  /\ \A e \in Station : written'[e] # written[e] =>
       \A ch \in Channel : written[e][ch] \in {0, TxRoom}
  /\ (\E ch \in Channel : written'["B"][ch] > 0) => BothWays'
  /\ ~(SeveralFrames /\ BothWays)' /\ ~(SeveralFrames /\ Faults)' /\ ~(BothWays /\ Faults)'
  /\ errors' = 0 \/ falseSyncs' = 0

\* Frames of one byte are worth sending whatever the more flag says: it stays off.
MCRestartNext ==
  /\ RestartNext
  /\ \A e \in Station, ch \in Channel : ~txMore'[e][ch]

MCRestartSpec == FaultInit /\ [][MCRestartNext]_allVars /\ Fairness

MCLiveSpec == FaultInit /\ [][MCLiveNext]_allVars /\ Fairness
=============================================================================
