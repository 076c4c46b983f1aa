-------------------------- MODULE Slay2LinkFaults --------------------------
(***************************************************************************)
(* The link under the faults its handshake is there for: a station that    *)
(* restarts, and a damaged character that looks like a SYNC.               *)
(***************************************************************************)
EXTENDS Slay2Link

CONSTANTS
  MaxRestarts,     \* restarts of stations in all (bound)
  MaxFalseSyncs,   \* characters damaged into a SYNC in all (bound)
  OnlySettled      \* TRUE: false SYNCs only after other characters have come in both ways

ASSUME FaultAssumption == MaxRestarts \in Nat /\ MaxFalseSyncs \in Nat /\ OnlySettled \in BOOLEAN

VARIABLES
  restarts, falseSyncs,   \* faults so far
  life                    \* life[e]: frames handed over at e before its last start

faults == <<restarts, falseSyncs, life>>
allVars == <<vars, faults>>

FaultInit == Init /\ restarts = 0 /\ falseSyncs = 0 /\ life = [e \in Station |-> 0]

-----------------------------------------------------------------------------

\* The constructors of the driver, its scheduler and its decoders: nothing of the
\* life before is left, the port starts with empty buffers, and the application opens
\* its channels again.
Restart(e) ==
  /\ restarts < MaxRestarts /\ restarts' = restarts + 1
  /\ task' = [task EXCEPT ![e] = "idle"]
  /\ syncSent' = [syncSent EXCEPT ![e] = FALSE] /\ ClearSyncCount(e)
  /\ txCount' = [txCount EXCEPT ![e] = [ch \in Channel |-> 0]]
  /\ txMore' = [txMore EXCEPT ![e] = [ch \in Channel |-> FALSE]]
  /\ ResetProtocol(e)
  /\ ackShift' = [ackShift EXCEPT ![e] = 0]
  /\ life' = [life EXCEPT ![e] = Len(handed[e])]
  /\ \E i \in {0, Len(line[e])}, j \in {1, Len(Incoming(e)) + 1} :
       line' = [line EXCEPT ![e] = SubSeq(@, 1, i), ![Other(e)] = SubSeq(@, j, Len(@))]
  /\ UNCHANGED <<written, errors, history, falseSyncs>>

\* One character of a symbol is damaged into a SYNC: an end, or the first, the last or
\* one in between of a frame, whose other characters arrive.
Piece(x) == IF x.kind \in {"data", "ack"} THEN Part(x) ELSE x
Interrupted(x) ==
  IF x.kind \in {"endOfData", "endOfAck"} THEN {<<Sync>>}
  ELSE {<<Sync, Piece(x)>>, <<Piece(x), Sync>>, <<Piece(x), Sync, Piece(x)>>}

Settled == HandshakeOver /\ \A e \in Station : syncCount[e] = 0

FalseSync(e, i) ==
  /\ falseSyncs < MaxFalseSyncs /\ falseSyncs' = falseSyncs + 1
  /\ line[e][i].kind # "sync" /\ (OnlySettled /\ falseSyncs = 0 => Settled)
  /\ \E s \in Interrupted(line[e][i]) :
       line' = [line EXCEPT ![e] = SubSeq(@, 1, i - 1) \o s \o SubSeq(@, i + 1, Len(@))]
  /\ UNCHANGED <<task, syncSent, syncCount, channelVars, schedulerVars, rxVars, errors,
                 history, restarts, life>>

RestartNext ==
  \/ Next /\ UNCHANGED faults
  \/ \E e \in Station : Restart(e)

\* Restarts at any time, and applications that do not wait.
RestartSpec == FaultInit /\ [][RestartNext]_allVars

\* Applications hold their first send until the stations have seen each other, and the
\* lines turn characters into SYNCs.
NoisyNext ==
  \/ QuietNext /\ UNCHANGED faults
  \/ \E e \in Station : \E i \in 1 .. Len(line[e]) : FalseSync(e, i)

NoisySpec == FaultInit /\ [][NoisyNext]_allVars

-----------------------------------------------------------------------------
\* Within one life of a station no frame is handed over twice or after a newer one,
\* whoever restarts and whatever else the lines lose.
NeverTwiceInALife ==
  \A e \in Station : \A j \in life[e] + 1 .. Len(handed[e]) : \A i \in life[e] + 1 .. j - 1 :
    handed[e][i].ch = handed[e][j].ch => handed[e][i].from < handed[e][j].from

\* However far the numbers are out of step, nothing is repeated for ever.
WindowDrains == \A e \in Senders : []<>(pending[e] = <<>>)

=============================================================================
