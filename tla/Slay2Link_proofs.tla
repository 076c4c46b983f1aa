-------------------------- MODULE Slay2Link_proofs --------------------------
(***************************************************************************)
(* The link of two stations for every depth of at least 3, every number of *)
(* sequence numbers above the depth, and every bound of the environment:   *)
(* its types, then in-order delivery, first as lemmas about one direction  *)
(* and one operation on it, then for the actions of the two stations.  In  *)
(* the end one life of a station, in the same two halves, when stations    *)
(* restart.                                                                *)
(***************************************************************************)
EXTENDS Slay2LinkFaults, TxQueues_proofs

LEMMA LinkConstants ==
  /\ DEPTH \in Nat /\ DEPTH >= 3 /\ SEQ_MOD \in Nat \ {0} /\ SEQ_MOD > DEPTH
  /\ FRAME_PAYLOAD \in Nat \ {0} /\ TxRoom \in Nat /\ MaxWritten \in Nat
  /\ MaxErrors \in Nat /\ 0 \in SeqNr
BY DepthAssumption, SeqAssumption, PayloadAssumption, RoomAssumption, BoundAssumption DEF SeqNr

LEMMA Stations ==
  /\ \A e \in Station : Other(e) \in Station /\ Other(e) # e /\ Other(Other(e)) = e
  /\ \A e, s \in Station : s = e \/ s = Other(e)
BY DEF Station, Other

LEMMA SymbolKinds ==
  ASSUME NEW x \in Symbol
  PROVE  /\ x.kind = "data" => x \in DataFrames
         /\ x.kind = "ack" => x \in AckFrames
<1>1. x \in DataFrames \/ x \in AckFrames \/ x.kind \in {"sync", "endOfData", "endOfAck",
                                                         "dataNoise", "ackNoise", "noise"}
  BY DEF Symbol, Sync, EndOfData, EndOfAck, Noise
<1>2. (x \in DataFrames => x.kind = "data") /\ (x \in AckFrames => x.kind = "ack")
  BY DEF DataFrames, AckFrames
<1> QED BY <1>1, <1>2

\* The symbols a station writes and a line error leaves.
LEMMA PlainSymbols ==
  /\ Sync \in Symbol /\ EndOfData \in Symbol /\ EndOfAck \in Symbol
  /\ \A x \in Noise \cup {EndOfData, EndOfAck} :
       x \in Symbol /\ x.kind \notin {"data", "ack", "sync"}
  /\ DataFrames \subseteq Symbol /\ AckFrames \subseteq Symbol
  /\ Sync.kind = "sync" /\ EndOfData.kind = "endOfData" /\ EndOfAck.kind = "endOfAck"
BY DEF Symbol, Sync, EndOfData, EndOfAck, Noise

LEMMA HeldFrames ==
  /\ Empty.kind \notin {"data", "ack"} /\ Garbled.kind \notin {"data", "ack"}
  /\ \A x \in DataFrames \cup {Empty, Garbled} : x.kind = "data" => x \in DataFrames
  /\ \A x \in AckFrames \cup {Empty, Garbled} : x.kind = "ack" => x \in AckFrames
  /\ \A x \in DataFrames : x.kind = "data" /\ x.seq \in SeqNr /\ x.no \in Nat \ {0} /\ x.payload \in Payload
  /\ \A x \in AckFrames : x.kind = "ack" /\ x.seq \in SeqNr /\ x.no \in Nat /\ x.got \in Nat
BY DEF Empty, Garbled, DataFrames, AckFrames

-----------------------------------------------------------------------------
\* Sequences: what the lines do to them.

LEMMA TwoAppended ==
  ASSUME NEW S, NEW s \in Seq(S), NEW x \in S, NEW y \in S
  PROVE  /\ s \o <<x, y>> \in Seq(S) /\ Len(s \o <<x, y>>) = Len(s) + 2
         /\ \A i \in 1 .. Len(s) : (s \o <<x, y>>)[i] = s[i]
         /\ (s \o <<x, y>>)[Len(s) + 1] = x /\ (s \o <<x, y>>)[Len(s) + 2] = y
<1>1. <<x, y>> \in Seq(S) /\ Len(<<x, y>>) = 2 /\ <<x, y>>[1] = x /\ <<x, y>>[2] = y
  OBVIOUS
<1> DEFINE t == <<x, y>>
<1>2. t \in Seq(S) /\ Len(t) = 2 /\ t[1] = x /\ t[2] = y
  BY <1>1
<1> HIDE DEF t
<1>3. /\ s \o t \in Seq(S) /\ Len(s \o t) = Len(s) + Len(t)
      /\ \A i \in 1 .. Len(s) + Len(t) : (s \o t)[i] = IF i <= Len(s) THEN s[i] ELSE t[i - Len(s)]
  BY <1>2, ConcatProperties
<1>4. Len(s) \in Nat /\ (Len(s) + 1) - Len(s) = 1 /\ (Len(s) + 2) - Len(s) = 2
  BY LenProperties
<1> QED BY <1>2, <1>3, <1>4 DEF t

LEMMA WithoutShape ==
  ASSUME NEW S, NEW s \in Seq(S), NEW k \in 1 .. Len(s)
  PROVE  /\ Without(s, k) \in Seq(S) /\ Len(Without(s, k)) = Len(s) - 1
         /\ \A i \in 1 .. Len(s) - 1 : Without(s, k)[i] = IF i < k THEN s[i] ELSE s[i + 1]
<1> DEFINE a == SubSeq(s, 1, k - 1)
           b == SubSeq(s, k + 1, Len(s))
<1>0. Len(s) \in Nat /\ k \in Nat /\ k >= 1 /\ k <= Len(s)
  BY LenProperties
<1>1. a \in Seq(S) /\ Len(a) = k - 1 /\ \A i \in 1 .. k - 1 : a[i] = s[i]
  BY <1>0, SubSeqProperties
<1>2. b \in Seq(S) /\ Len(b) = Len(s) - k /\ \A i \in 1 .. Len(s) - k : b[i] = s[i + k]
  BY <1>0, SubSeqProperties
<1> HIDE DEF a, b
<1>3. /\ a \o b \in Seq(S) /\ Len(a \o b) = Len(a) + Len(b)
      /\ \A i \in 1 .. Len(a) + Len(b) : (a \o b)[i] = IF i <= Len(a) THEN a[i] ELSE b[i - Len(a)]
  BY <1>1, <1>2, ConcatProperties
<1>4. Len(a) + Len(b) = Len(s) - 1
  BY <1>0, <1>1, <1>2
<1>5. ASSUME NEW i \in 1 .. Len(s) - 1 PROVE (a \o b)[i] = IF i < k THEN s[i] ELSE s[i + 1]
  <2>1. CASE i < k
    BY <1>0, <1>1, <1>3, <1>4, <2>1
  <2>2. CASE ~(i < k)
    <3>1. i - Len(a) \in 1 .. Len(s) - k /\ (i - Len(a)) + k = i + 1 /\ ~(i <= Len(a))
      BY <1>0, <1>1, <2>2
    <3> QED BY <1>2, <1>3, <1>4, <2>2, <3>1
  <2> QED BY <2>1, <2>2
<1> QED BY <1>3, <1>4, <1>5 DEF a, b, Without
-----------------------------------------------------------------------------
\* Types.

LEMMA SyncsType ==
  ASSUME NEW n \in Nat
  PROVE  Syncs(n) \in Seq(Symbol) /\ Len(Syncs(n)) = n /\ \A i \in 1 .. n : Syncs(n)[i] = Sync
<1>1. Syncs(n) \in [1 .. n -> Symbol]
  BY PlainSymbols DEF Syncs
<1>2. Len(Syncs(n)) = n
  BY DEF Syncs
<1> QED BY <1>1, <1>2, SeqDef DEF Syncs

LEMMA TakeType ==
  ASSUME TypeOK, NEW e \in Station, NEW kinds, Take(e, kinds)
  PROVE  /\ Incoming(e) \in Seq(Symbol) /\ Head(Incoming(e)) \in Symbol
         /\ line' \in [Station -> Seq(Symbol)]
<1>1. Other(e) \in Station /\ line \in [Station -> Seq(Symbol)]
  BY Stations DEF TypeOK
<1>2. Incoming(e) \in Seq(Symbol) /\ Incoming(e) # <<>>
  BY <1>1 DEF Incoming, Take
<1>3. Head(Incoming(e)) \in Symbol /\ Tail(Incoming(e)) \in Seq(Symbol)
  BY <1>2, HeadTailProperties
<1>4. line' = [line EXCEPT ![Other(e)] = Tail(Incoming(e))]
  BY DEF Take, Incoming
<1> QED BY <1>1, <1>2, <1>3, <1>4

LEMMA PortionType ==
  ASSUME NEW frame \in Symbol, NEW end \in Symbol, NEW taken \in Portions(frame, end)
  PROVE  /\ taken \in Seq(Symbol) /\ Len(taken) <= 2
         /\ \A i \in 1 .. Len(taken) :
              taken[i] = <<frame, end>>[i] \/ taken[i].kind \notin {"data", "ack", "sync"}
<1>1. Part(frame) \in Symbol /\ Part(frame).kind \notin {"data", "ack", "sync"}
  BY DEF Part, Symbol, Noise
<1>2. taken \in {<<frame, end>>, <<>>, <<Part(frame)>>, <<frame>>}
  BY DEF Portions
<1> DEFINE part == Part(frame)
<1> HIDE DEF part
<1>3. CASE taken = <<frame, end>>
  BY <1>3
<1>4. CASE taken = <<>>
  BY <1>4
<1>5. CASE taken = <<part>>
  <2>1. part \in Symbol /\ part.kind \notin {"data", "ack", "sync"}
    BY <1>1 DEF part
  <2> QED BY <1>5, <2>1
<1>6. CASE taken = <<frame>>
  BY <1>6
<1> QED BY <1>2, <1>3, <1>4, <1>5, <1>6 DEF part

LEMMA TransmitType ==
  ASSUME TypeOK, NEW e \in Station, NEW frame \in Symbol, NEW end \in Symbol,
         Transmit(e, frame, end)
  PROVE  /\ line' \in [Station -> Seq(Symbol)] /\ task' \in [Station -> {"idle", "rx"}]
         /\ rxAck' \in [Station -> AckFrames \cup {Empty, Garbled}]
         /\ errors' \in 0 .. MaxErrors
<1>1. /\ line \in [Station -> Seq(Symbol)] /\ task \in [Station -> {"idle", "rx"}]
      /\ rxAck \in [Station -> AckFrames \cup {Empty, Garbled}]
  BY DEF TypeOK
<1>e. errors' \in 0 .. MaxErrors
  <2>1. errors \in 0 .. MaxErrors /\ MaxErrors \in Nat
    BY BoundAssumption DEF TypeOK
  <2>2. errors' = errors \/ (errors < MaxErrors /\ errors' = errors + 1)
    BY DEF Transmit
  <2> QED BY <2>1, <2>2
<1>2. PICK taken \in Portions(frame, end) : line' = [line EXCEPT ![e] = line[e] \o taken]
  BY DEF Transmit
<1>3. line[e] \o taken \in Seq(Symbol)
  BY <1>1, PortionType, ConcatProperties
<1> QED BY <1>e, <1>1, <1>2, <1>3 DEF Transmit, TaskEnd

LEMMA ResetType ==
  ASSUME TypeOK, NEW e \in Station, ResetProtocol(e)
  PROVE  /\ pending' \in [Station -> Seq(DataFrames)] /\ acks' \in [Station -> Seq(AckFrames)]
         /\ txSeqNr' \in [Station -> SeqNr] /\ nextExp' \in [Station -> SeqNr]
         /\ rxAck' \in [Station -> AckFrames \cup {Empty, Garbled}]
         /\ rxData' \in [Station -> DataFrames \cup {Empty, Garbled}]
<1>1. /\ pending \in [Station -> Seq(DataFrames)] /\ acks \in [Station -> Seq(AckFrames)]
      /\ txSeqNr \in [Station -> SeqNr] /\ nextExp \in [Station -> SeqNr]
      /\ rxAck \in [Station -> AckFrames \cup {Empty, Garbled}]
      /\ rxData \in [Station -> DataFrames \cup {Empty, Garbled}]
  BY DEF TypeOK
<1>2. <<>> \in Seq(DataFrames) /\ <<>> \in Seq(AckFrames) /\ 0 \in SeqNr
  BY LinkConstants, EmptySeq
<1> QED BY <1>1, <1>2 DEF ResetProtocol

LEMMA SendType ==
  ASSUME TypeOK, NEW e \in Station, NEW ch \in Channel, NEW len \in Nat, NEW more \in BOOLEAN,
         Send(e, ch, len, more)
  PROVE  TypeOK'
<1> DEFINE accepted == Least(len, TxRoom - txCount[e][ch])
<1>1. /\ txCount \in [Station -> [Channel -> 0 .. TxRoom]]
      /\ txMore \in [Station -> [Channel -> BOOLEAN]]
      /\ written \in [Station -> [Channel -> 0 .. MaxWritten]]
      /\ \A s \in Station, c \in Channel : txCount[s][c] <= written[s][c]
  BY DEF TypeOK
<1>2. /\ accepted \in Nat /\ txCount[e][ch] + accepted \in 0 .. TxRoom
      /\ txCount[e][ch] + accepted <= written[e][ch] + accepted
  BY <1>1, LinkConstants DEF Least
<1>3. written[e][ch] + accepted \in 0 .. MaxWritten
  <2>1. written[e][ch] + accepted <= MaxWritten
    BY DEF Send
  <2> HIDE DEF accepted
  <2> QED BY <1>1, <1>2, <2>1, LinkConstants
<1>4. /\ txCount' = [txCount EXCEPT ![e] = [txCount[e] EXCEPT ![ch] = txCount[e][ch] + accepted]]
      /\ written' = [written EXCEPT ![e] = [written[e] EXCEPT ![ch] = written[e][ch] + accepted]]
      /\ txMore' = [txMore EXCEPT ![e] = [txMore[e] EXCEPT ![ch] = more]]
  BY DEF Send
<1> HIDE DEF accepted
<1>5. txCount' \in [Station -> [Channel -> 0 .. TxRoom]]
  BY <1>1, <1>2, <1>4
<1>6. written' \in [Station -> [Channel -> 0 .. MaxWritten]]
  BY <1>1, <1>3, <1>4
<1>7. txMore' \in [Station -> [Channel -> BOOLEAN]]
  BY <1>1, <1>4
<1>8. ASSUME NEW s \in Station, NEW c \in Channel PROVE txCount'[s][c] <= written'[s][c]
  <2>1. CASE s = e /\ c = ch
    BY <1>1, <1>2, <1>4, <2>1
  <2>2. CASE ~(s = e /\ c = ch)
    <3>1. txCount'[s][c] = txCount[s][c] /\ written'[s][c] = written[s][c]
      BY <1>1, <1>4, <2>2
    <3> QED BY <1>1, <3>1
  <2> QED BY <2>1, <2>2
<1> QED BY <1>5, <1>6, <1>7, <1>8 DEF TypeOK, Send, schedulerVars, rxVars, history

LEMMA TaskBeginType ==
  ASSUME TypeOK, NEW e \in Station, TaskBegin(e)
  PROVE  TypeOK'
<1>1. task' \in [Station -> {"idle", "rx"}]
  BY DEF TypeOK, TaskBegin
<1>2. syncSent' \in [Station -> BOOLEAN]
  BY DEF TypeOK, TaskBegin
<1>3. line' \in [Station -> Seq(Symbol)]
  <2>1. line \in [Station -> Seq(Symbol)]
    BY DEF TypeOK
  <2>2. CASE syncSent[e]
    BY <2>1, <2>2 DEF TaskBegin
  <2>3. CASE ~syncSent[e]
    <3>1. PICK n \in SyncWrites : line' = [line EXCEPT ![e] = line[e] \o Syncs(n)]
      BY <2>3 DEF TaskBegin
    <3>2. Syncs(n) \in Seq(Symbol)
      BY WriteAssumption, SyncsType
    <3>3. line[e] \o Syncs(n) \in Seq(Symbol)
      BY <2>1, <3>2, ConcatProperties
    <3> QED BY <2>1, <3>1, <3>3
  <2> QED BY <2>2, <2>3
<1>4. CASE UNCHANGED <<pending, acks, txSeqNr, rxVars>>
  BY <1>1, <1>2, <1>3, <1>4 DEF TypeOK, TaskBegin, channelVars, rxVars, history
<1>5. CASE ResetProtocol(e)
  BY <1>1, <1>2, <1>3, <1>5, ResetType DEF TypeOK, TaskBegin, channelVars, history
<1> QED BY <1>4, <1>5 DEF TaskBegin

LEMMA ReceiveSyncType ==
  ASSUME TypeOK, NEW e \in Station, ReceiveSync(e)
  PROVE  TypeOK'
<1>1. Take(e, {"sync"})
  BY DEF ReceiveSync
<1>2. line' \in [Station -> Seq(Symbol)]
  BY <1>1, TakeType
<1>3. syncCount' \in [Station -> 0 .. 2]
  <2>1. syncCount \in [Station -> 0 .. 2]
    BY DEF TypeOK
  <2>2. CASE ClearSyncCount(e)
    BY <2>1, <2>2 DEF ClearSyncCount
  <2>3. CASE syncCount[e] + 1 < 3 /\ syncCount' = [syncCount EXCEPT ![e] = syncCount[e] + 1]
    <3>1. syncCount[e] + 1 \in 0 .. 2
      BY <2>1, <2>3
    <3> QED BY <2>1, <2>3, <3>1
  <2> QED BY <2>2, <2>3 DEF ReceiveSync
<1>4. CASE UNCHANGED <<pending, acks, txSeqNr, rxVars>>
  BY <1>1, <1>2, <1>3, <1>4 DEF TypeOK, Take, ReceiveSync, channelVars, rxVars
<1>5. CASE ResetProtocol(e)
  BY <1>1, <1>2, <1>3, <1>5, ResetType DEF TypeOK, Take, ReceiveSync, channelVars
<1> QED BY <1>4, <1>5 DEF ReceiveSync

LEMMA ClearType ==
  ASSUME TypeOK, NEW e \in Station, ClearSyncCount(e)
  PROVE  syncCount' \in [Station -> 0 .. 2]
BY DEF TypeOK, ClearSyncCount

LEMMA ReceiveAckType ==
  ASSUME TypeOK, NEW e \in Station, ReceiveAck(e)
  PROVE  TypeOK'
<1> DEFINE x == Head(Incoming(e))
<1>1. Take(e, {"ack", "ackNoise"}) /\ ClearSyncCount(e)
  BY DEF ReceiveAck
<1>2. line' \in [Station -> Seq(Symbol)] /\ syncCount' \in [Station -> 0 .. 2] /\ x \in Symbol
  BY <1>1, TakeType, ClearType
<1>3. rxAck' \in [Station -> AckFrames \cup {Empty, Garbled}]
  <2>1. rxAck' = [rxAck EXCEPT ![e] = IF rxAck[e] = Empty /\ x.kind = "ack" THEN x ELSE Garbled]
    BY DEF ReceiveAck
  <2>2. x.kind = "ack" => x \in AckFrames
    BY <1>2, SymbolKinds
  <2> HIDE DEF x
  <2> QED BY <2>1, <2>2 DEF TypeOK
<1> QED BY <1>1, <1>2, <1>3 DEF TypeOK, Take, ReceiveAck, channelVars

LEMMA ReceiveEndOfAckType ==
  ASSUME TypeOK, NEW e \in Station, ReceiveEndOfAck(e)
  PROVE  TypeOK'
<1>1. Take(e, {"endOfAck"}) /\ ClearSyncCount(e)
  BY DEF ReceiveEndOfAck
<1>2. line' \in [Station -> Seq(Symbol)] /\ syncCount' \in [Station -> 0 .. 2]
  BY <1>1, TakeType, ClearType
<1>3. rxAck' \in [Station -> AckFrames \cup {Empty, Garbled}]
  BY DEF TypeOK, ReceiveEndOfAck
<1>4. pending \in [Station -> Seq(DataFrames)] /\ acked \in [Station -> Seq(Payload)]
  BY DEF TypeOK
<1>5. pending' \in [Station -> Seq(DataFrames)] /\ acked' \in [Station -> Seq(Payload)]
  <2>1. CASE AckMatches(e)
    <3>1. pending[e] \in Seq(DataFrames) /\ pending[e] # <<>>
      BY <1>4, <2>1 DEF AckMatches
    <3>2. Head(pending[e]).payload \in Payload /\ Tail(pending[e]) \in Seq(DataFrames)
      BY <3>1, HeadTailProperties, HeldFrames
    <3>3. Append(acked[e], Head(pending[e]).payload) \in Seq(Payload)
      BY <1>4, <3>2, AppendProperties
    <3>4. /\ pending' = [pending EXCEPT ![e] = Tail(pending[e])]
          /\ acked' = [acked EXCEPT ![e] = Append(acked[e], Head(pending[e]).payload)]
      BY <2>1 DEF ReceiveEndOfAck
    <3> QED BY <1>4, <3>2, <3>3, <3>4
  <2>2. CASE ~AckMatches(e)
    BY <1>4, <2>2 DEF ReceiveEndOfAck
  <2> QED BY <2>1, <2>2
<1> QED BY <1>1, <1>2, <1>3, <1>5 DEF TypeOK, Take, ReceiveEndOfAck, channelVars

LEMMA ReceiveDataType ==
  ASSUME TypeOK, NEW e \in Station, ReceiveData(e)
  PROVE  TypeOK'
<1> DEFINE x == Head(Incoming(e))
<1>1. Take(e, {"data", "dataNoise"}) /\ ClearSyncCount(e)
  BY DEF ReceiveData
<1>2. line' \in [Station -> Seq(Symbol)] /\ syncCount' \in [Station -> 0 .. 2] /\ x \in Symbol
  BY <1>1, TakeType, ClearType
<1>3. rxData' \in [Station -> DataFrames \cup {Empty, Garbled}]
  <2>1. \/ UNCHANGED rxData
        \/ rxData' = [rxData EXCEPT ![e] = IF rxData[e] = Empty /\ x.kind = "data" THEN x ELSE Garbled]
    BY DEF ReceiveData
  <2>2. x.kind = "data" => x \in DataFrames
    BY <1>2, SymbolKinds
  <2>3. rxData \in [Station -> DataFrames \cup {Empty, Garbled}]
    BY DEF TypeOK
  <2> HIDE DEF x
  <2> QED BY <2>1, <2>2, <2>3
<1>4. /\ UNCHANGED <<task, syncSent, txCount, txMore, written, ackShift, errors, log>>
      /\ UNCHANGED <<pending, acks, txSeqNr, rxAck, nextExp, handed, acked>>
  BY <1>1 DEF Take, ReceiveData, channelVars
<1> HIDE DEF x
<1> QED BY <1>2, <1>3, <1>4 DEF TypeOK

LEMMA ReceiveEndOfDataType ==
  ASSUME TypeOK, NEW e \in Station, ReceiveEndOfData(e)
  PROVE  TypeOK'
<1>1. Take(e, {"endOfData"}) /\ ClearSyncCount(e)
  BY DEF ReceiveEndOfData
<1>2. line' \in [Station -> Seq(Symbol)] /\ syncCount' \in [Station -> 0 .. 2]
  BY <1>1, TakeType, ClearType
<1>3. /\ rxData \in [Station -> DataFrames \cup {Empty, Garbled}]
      /\ handed \in [Station -> Seq(Payload)] /\ nextExp \in [Station -> SeqNr]
      /\ acks \in [Station -> Seq(AckFrames)] /\ ackShift \in [Station -> 0 .. DEPTH - 1]
  BY DEF TypeOK
<1>4. handed' \in [Station -> Seq(Payload)] /\ nextExp' \in [Station -> SeqNr]
  <2>1. CASE IsExpected(e)
    <3>1. rxData[e].payload \in Payload
      BY <1>3, <2>1, HeldFrames DEF IsExpected
    <3>2. Append(handed[e], rxData[e].payload) \in Seq(Payload)
      BY <1>3, <3>1, AppendProperties
    <3>3. NextSeq(nextExp[e]) \in SeqNr
      <4>1. nextExp[e] \in Int
        BY <1>3 DEF SeqNr
      <4> QED BY <4>1, NextSeqType
    <3>4. /\ handed' = [handed EXCEPT ![e] = Append(handed[e], rxData[e].payload)]
          /\ nextExp' = [nextExp EXCEPT ![e] = NextSeq(nextExp[e])]
      BY <2>1 DEF ReceiveEndOfData
    <3> QED BY <1>3, <3>2, <3>3, <3>4
  <2>2. CASE ~IsExpected(e)
    BY <1>3, <2>2 DEF ReceiveEndOfData
  <2> QED BY <2>1, <2>2
<1>5. acks' \in [Station -> Seq(AckFrames)]
  <2>1. CASE Answers(e)
    <3> DEFINE ack == AckFrame(rxData[e].seq, rxData[e].no, Len(handed'[e]))
               new == PutAck(acks[e], ackShift[e], ack)
    <3>1. rxData[e].seq \in SeqNr /\ rxData[e].no \in Nat /\ Len(handed'[e]) \in Nat
      BY <1>3, <1>4, <2>1, HeldFrames, LenProperties DEF Answers
    <3>2. ack \in AckFrames
      BY <3>1 DEF AckFrame, AckFrames
    <3>3. acks' = [acks EXCEPT ![e] = new]
      BY <2>1 DEF ReceiveEndOfData
    <3> HIDE DEF ack
    <3>4. acks[e] \in Seq(AckFrames) /\ ackShift[e] \in 0 .. DEPTH - 1
      BY <1>3
    <3>5. new \in Seq(AckFrames)
      <4>1. CASE Len(acks[e]) < DEPTH
        BY <3>2, <3>4, <4>1, PutAckShape
      <4>2. CASE ~(Len(acks[e]) < DEPTH)
        <5>1. Len(acks[e]) >= DEPTH
          BY <3>4, <4>2, LinkConstants, LenProperties
        <5> QED BY <3>4, <5>1 DEF PutAck
      <4> QED BY <4>1, <4>2
    <3> HIDE DEF new
    <3> QED BY <1>3, <3>3, <3>5
  <2>2. CASE ~Answers(e)
    BY <1>3, <2>2 DEF ReceiveEndOfData
  <2> QED BY <2>1, <2>2
<1>6. rxData' \in [Station -> DataFrames \cup {Empty, Garbled}]
  BY <1>3 DEF ReceiveEndOfData
<1> QED BY <1>1, <1>2, <1>4, <1>5, <1>6 DEF TypeOK, Take, ReceiveEndOfData, channelVars

LEMMA ReceiveNoiseType ==
  ASSUME TypeOK, NEW e \in Station, ReceiveNoise(e)
  PROVE  TypeOK'
<1>1. Take(e, {"noise"}) /\ ClearSyncCount(e)
  BY DEF ReceiveNoise
<1>2. line' \in [Station -> Seq(Symbol)] /\ syncCount' \in [Station -> 0 .. 2]
  BY <1>1, TakeType, ClearType
<1> QED BY <1>1, <1>2 DEF TypeOK, Take, ReceiveNoise, channelVars, rxVars
LEMMA TransmitAckType ==
  ASSUME TypeOK, NEW e \in Station, TransmitAck(e)
  PROVE  TypeOK'
<1>1. /\ acks \in [Station -> Seq(AckFrames)] /\ ackShift \in [Station -> 0 .. DEPTH - 1]
      /\ acks[e] # <<>>
  BY DEF TypeOK, TransmitAck
<1>2. Head(acks[e]) \in AckFrames /\ Tail(acks[e]) \in Seq(AckFrames)
  BY <1>1, HeadTailProperties
<1>3. Transmit(e, Head(acks[e]), EndOfAck)
  BY DEF TransmitAck
<1>4. /\ line' \in [Station -> Seq(Symbol)] /\ task' \in [Station -> {"idle", "rx"}]
      /\ rxAck' \in [Station -> AckFrames \cup {Empty, Garbled}]
      /\ errors' \in 0 .. MaxErrors
  BY <1>2, <1>3, PlainSymbols, TransmitType
<1>5. acks' \in [Station -> Seq(AckFrames)]
  BY <1>1, <1>2 DEF TransmitAck
<1>6. ackShift' \in [Station -> 0 .. DEPTH - 1]
  <2>1. ShiftAfterPop(ackShift[e]) \in 0 .. DEPTH - 1
    BY <1>1, LinkConstants DEF ShiftAfterPop, Least
  <2> QED BY <1>1, <2>1 DEF TransmitAck
<1> QED BY <1>3, <1>4, <1>5, <1>6 DEF TypeOK, TransmitAck, Transmit, TaskEnd

LEMMA RetransmitType ==
  ASSUME TypeOK, NEW e \in Station, Retransmit(e)
  PROVE  TypeOK'
<1>1. pending[e] \in Seq(DataFrames) /\ pending[e] # <<>>
  BY DEF TypeOK, Retransmit
<1>2. Head(pending[e]) \in DataFrames
  BY <1>1, HeadTailProperties
<1>3. Transmit(e, Head(pending[e]), EndOfData)
  BY DEF Retransmit
<1>4. /\ line' \in [Station -> Seq(Symbol)] /\ task' \in [Station -> {"idle", "rx"}]
      /\ rxAck' \in [Station -> AckFrames \cup {Empty, Garbled}]
      /\ errors' \in 0 .. MaxErrors
  BY <1>2, <1>3, PlainSymbols, TransmitType
<1> QED BY <1>3, <1>4 DEF TypeOK, Retransmit, Transmit, TaskEnd, schedulerVars

\* The frame Compose makes of a channel that is ready.
ComposedLen(e, ch) == Least(txCount[e][ch], FRAME_PAYLOAD)
Composed(e, ch) ==
  [ch |-> ch, from |-> written[e][ch] - txCount[e][ch], len |-> ComposedLen(e, ch)]
ComposedFrame(e, ch) == DataFrame(txSeqNr[e], Len(log[e]) + 1, Composed(e, ch))

LEMMA ComposeStep ==
  ASSUME TypeOK, NEW e \in Station, NEW ch \in Channel, Compose(e, ch)
  PROVE  /\ Transmit(e, ComposedFrame(e, ch), EndOfData) /\ acks[e] = <<>> /\ HasSlot(e)
         /\ pending' = [pending EXCEPT ![e] = Append(@, ComposedFrame(e, ch))]
         /\ log' = [log EXCEPT ![e] = Append(@, Composed(e, ch))]
         /\ txSeqNr' = [txSeqNr EXCEPT ![e] = NextSeq(@)]
         /\ ComposedLen(e, ch) \in 1 .. FRAME_PAYLOAD
         /\ txCount[e][ch] - ComposedLen(e, ch) \in 0 .. txCount[e][ch]
         /\ Composed(e, ch) \in Payload /\ ComposedFrame(e, ch) \in DataFrames
<1>1. /\ Transmit(e, ComposedFrame(e, ch), EndOfData) /\ acks[e] = <<>> /\ HasSlot(e)
      /\ pending' = [pending EXCEPT ![e] = Append(@, ComposedFrame(e, ch))]
      /\ log' = [log EXCEPT ![e] = Append(@, Composed(e, ch))]
      /\ txSeqNr' = [txSeqNr EXCEPT ![e] = NextSeq(@)]
  BY DEF Compose, ComposedFrame, Composed, ComposedLen
<1>2. /\ txCount[e][ch] \in 0 .. TxRoom /\ written[e][ch] \in 0 .. MaxWritten
      /\ txCount[e][ch] <= written[e][ch] /\ txSeqNr[e] \in SeqNr /\ log[e] \in Seq(Payload)
  BY DEF TypeOK
<1>3. Ready(txCount[e][ch], txMore[e][ch])
  BY DEF Compose, IsFirstReady, IsReady
<1>4. /\ ComposedLen(e, ch) \in 1 .. FRAME_PAYLOAD
      /\ txCount[e][ch] - ComposedLen(e, ch) \in 0 .. txCount[e][ch]
  BY <1>2, <1>3, LinkConstants DEF Ready, ComposedLen, Least
<1>5. written[e][ch] - txCount[e][ch] \in 0 .. MaxWritten
  BY <1>2, LinkConstants
<1>6. Composed(e, ch) \in Payload
  BY <1>4, <1>5 DEF Composed, Payload
<1>7. Len(log[e]) + 1 \in Nat \ {0}
  BY <1>2, LenProperties
<1>8. ComposedFrame(e, ch) \in DataFrames
  BY <1>2, <1>6, <1>7 DEF ComposedFrame, DataFrame, DataFrames
<1> QED BY <1>1, <1>4, <1>6, <1>8

LEMMA ComposeType ==
  ASSUME TypeOK, NEW e \in Station, NEW ch \in Channel, Compose(e, ch)
  PROVE  TypeOK'
<1> DEFINE payload == Composed(e, ch)
           frame == ComposedFrame(e, ch)
           left == txCount[e][ch] - ComposedLen(e, ch)
<1>1. /\ Transmit(e, frame, EndOfData)
      /\ pending' = [pending EXCEPT ![e] = Append(pending[e], frame)]
      /\ log' = [log EXCEPT ![e] = Append(log[e], payload)]
      /\ txSeqNr' = [txSeqNr EXCEPT ![e] = NextSeq(txSeqNr[e])]
      /\ left \in 0 .. txCount[e][ch] /\ payload \in Payload /\ frame \in DataFrames
  BY ComposeStep
<1>2. txCount' = [txCount EXCEPT ![e] = [txCount[e] EXCEPT ![ch] = left]]
  BY DEF Compose, ComposedLen
<1>3. UNCHANGED <<acks, ackShift, txMore>>
  BY DEF Compose
<1> HIDE DEF payload, frame, left
<1>4. /\ line' \in [Station -> Seq(Symbol)] /\ task' \in [Station -> {"idle", "rx"}]
      /\ rxAck' \in [Station -> AckFrames \cup {Empty, Garbled}]
      /\ errors' \in 0 .. MaxErrors
  BY <1>1, PlainSymbols, TransmitType
<1>5. pending' \in [Station -> Seq(DataFrames)]
  BY <1>1, AppendProperties DEF TypeOK
<1>6. log' \in [Station -> Seq(Payload)]
  BY <1>1, AppendProperties DEF TypeOK
<1>7. txSeqNr' \in [Station -> SeqNr]
  <2>1. txSeqNr \in [Station -> SeqNr] /\ txSeqNr[e] \in Int
    BY DEF TypeOK, SeqNr
  <2>2. NextSeq(txSeqNr[e]) \in SeqNr
    BY <2>1, NextSeqType
  <2> QED BY <1>1, <2>1, <2>2
<1>8. /\ txCount \in [Station -> [Channel -> 0 .. TxRoom]]
      /\ written \in [Station -> [Channel -> 0 .. MaxWritten]]
      /\ \A s \in Station, c \in Channel : txCount[s][c] <= written[s][c]
  BY DEF TypeOK
<1>9. left \in 0 .. TxRoom /\ left <= txCount[e][ch]
  BY <1>1, <1>8, LinkConstants
<1>10. txCount' \in [Station -> [Channel -> 0 .. TxRoom]]
  BY <1>2, <1>8, <1>9
<1>11. written' = written
  BY <1>1 DEF Transmit, TaskEnd
<1>12. ASSUME NEW s \in Station, NEW c \in Channel PROVE txCount'[s][c] <= written'[s][c]
  <2>1. CASE s = e /\ c = ch
    <3>1. txCount'[s][c] = left /\ written'[s][c] = written[e][ch]
      BY <1>2, <1>8, <1>11, <2>1
    <3>2. txCount[e][ch] <= written[e][ch] /\ txCount[e][ch] \in Int /\ written[e][ch] \in Int
      BY <1>8
    <3> QED BY <1>9, <3>1, <3>2
  <2>2. CASE ~(s = e /\ c = ch)
    BY <1>2, <1>8, <1>11, <2>2
  <2> QED BY <2>1, <2>2
<1> QED
  BY <1>1, <1>3, <1>4, <1>5, <1>6, <1>7, <1>10, <1>11, <1>12 DEF TypeOK, Transmit, TaskEnd

LEMMA LineErrorType ==
  ASSUME TypeOK, NEW e \in Station, NEW i \in 1 .. Len(line[e]), LineError(e, i)
  PROVE  TypeOK'
<1>1. line \in [Station -> Seq(Symbol)] /\ errors \in 0 .. MaxErrors
  BY DEF TypeOK
<1>2. errors' \in 0 .. MaxErrors
  BY <1>1, LinkConstants DEF LineError
<1>3. line' \in [Station -> Seq(Symbol)]
  <2>1. CASE line' = [line EXCEPT ![e] = Without(line[e], i)]
    <3>1. Without(line[e], i) \in Seq(Symbol)
      BY <1>1, WithoutShape
    <3> QED BY <1>1, <2>1, <3>1
  <2>2. ASSUME NEW x \in Noise \cup {EndOfData, EndOfAck},
               line' = [line EXCEPT ![e] = Replace(line[e], i, x)]
        PROVE  line' \in [Station -> Seq(Symbol)]
    <3>1. x \in Symbol
      BY PlainSymbols
    <3>2. Replace(line[e], i, x) \in Seq(Symbol)
      BY <1>1, <3>1, ExceptSeq DEF Replace
    <3> QED BY <1>1, <2>2, <3>2
  <2> QED BY <2>1, <2>2 DEF LineError
<1> QED BY <1>2, <1>3 DEF TypeOK, LineError, channelVars, schedulerVars, rxVars, history

LEMMA ReopenType ==
  ASSUME TypeOK, NEW e \in Station, Reopen(e)
  PROVE  TypeOK'
<1> DEFINE o == Other(e)
<1>1. line \in [Station -> Seq(Symbol)] /\ errors \in 0 .. MaxErrors /\ o \in Station /\ o # e
  BY Stations DEF TypeOK
<1>2. errors' \in 0 .. MaxErrors
  BY <1>1, LinkConstants DEF Reopen
<1>3. PICK i \in 0 .. Len(line[e]), j \in 1 .. Len(line[o]) + 1 :
        line' = [line EXCEPT ![e] = SubSeq(line[e], 1, i),
                             ![o] = SubSeq(line[o], j, Len(line[o]))]
  BY <1>1 DEF Reopen, Incoming
<1> HIDE DEF o
<1>4. Len(line[e]) \in Nat /\ Len(line[o]) \in Nat
  BY <1>1, LenProperties
<1>5. SubSeq(line[e], 1, i) \in Seq(Symbol)
  BY <1>1, <1>4, SubSeqProperties
<1>6. SubSeq(line[o], j, Len(line[o])) \in Seq(Symbol)
  BY <1>1, <1>4, SubSeqProperties
<1>7. line' \in [Station -> Seq(Symbol)]
  BY <1>1, <1>3, <1>5, <1>6
<1> QED BY <1>2, <1>7 DEF TypeOK, Reopen, channelVars, schedulerVars, rxVars, history

LEMMA StepType ==
  ASSUME TypeOK, NEW e \in Station, TaskStep(e)
  PROVE  TypeOK'
<1>1. CASE TaskBegin(e)
  BY <1>1, TaskBeginType
<1>2. CASE Receive(e)
  BY <1>2, ReceiveSyncType, ReceiveAckType, ReceiveEndOfAckType, ReceiveDataType,
     ReceiveEndOfDataType, ReceiveNoiseType DEF Receive
<1>3. CASE GateClosed(e)
  BY <1>3 DEF TypeOK, GateClosed, TaskEnd, schedulerVars
<1>4. CASE NothingToSend(e)
  BY <1>4 DEF TypeOK, NothingToSend, TaskEnd, schedulerVars
<1>5. CASE NewTransmission(e)
  BY <1>5, TransmitAckType, RetransmitType, ComposeType DEF NewTransmission
<1> QED BY <1>1, <1>2, <1>3, <1>4, <1>5 DEF TaskStep, DoTransmission

LEMMA LinkTypeInit == Init => TypeOK
<1> SUFFICES ASSUME Init PROVE TypeOK
  OBVIOUS
<1>1. /\ <<>> \in Seq(DataFrames) /\ <<>> \in Seq(AckFrames) /\ <<>> \in Seq(Symbol)
      /\ <<>> \in Seq(Payload)
  BY EmptySeq
<1>2. /\ 0 \in 0 .. 2 /\ 0 \in 0 .. TxRoom /\ 0 \in 0 .. MaxWritten /\ 0 \in 0 .. DEPTH - 1
      /\ 0 \in SeqNr /\ 0 \in 0 .. MaxErrors /\ 0 <= 0
  BY LinkConstants
<1> QED BY <1>1, <1>2 DEF Init, TypeOK

LEMMA LinkTypeStep == TypeOK /\ [Next]_vars => TypeOK'
<1> SUFFICES ASSUME TypeOK, [Next]_vars PROVE TypeOK'
  OBVIOUS
<1>1. CASE UNCHANGED vars
  BY <1>1 DEF TypeOK, vars, channelVars, schedulerVars, rxVars, history
<1>2. ASSUME NEW e \in Station, AnySend(e) PROVE TypeOK'
  BY <1>2, SendType, SendAssumption DEF AnySend
<1>3. ASSUME NEW e \in Station, TaskStep(e) PROVE TypeOK'
  BY <1>3, StepType
<1>4. ASSUME NEW e \in Station, NEW i \in 1 .. Len(line[e]), LineError(e, i) PROVE TypeOK'
  BY <1>4, LineErrorType
<1>5. ASSUME NEW e \in Station, Reopen(e) PROVE TypeOK'
  BY <1>5, ReopenType
<1> QED BY <1>1, <1>2, <1>3, <1>4, <1>5 DEF Next

\* TypeOK of Slay2Link: every variable of the two stations and the lines keeps its
\* type, whenever the stations start and whatever the lines damage.  The parts that
\* could break are that a frame never carries more than FRAME_PAYLOAD nor fewer than
\* one byte, and that a channel never holds more bytes than it has accepted.
THEOREM LinkTypeOK == Spec => []TypeOK
<1> QED BY LinkTypeInit, LinkTypeStep, PTL DEF Spec

-----------------------------------------------------------------------------
\* What leaves a line, and what is lost on it, leaves the rest in order: every symbol
\* of a kind in K in new was in old, and f says where.
Thins(K, new, old) ==
  \E f \in [1 .. Len(new) -> Nat] :
    /\ \A p \in 1 .. Len(new) :
         new[p].kind \in K => f[p] \in 1 .. Len(old) /\ new[p] = old[f[p]]
    /\ \A p \in 1 .. Len(new) : \A q \in 1 .. p - 1 : f[q] \in 1 .. f[p] - 1

LEMMA ThinsSelf ==
  ASSUME NEW K, NEW S, NEW s \in Seq(S)
  PROVE  Thins(K, s, s)
<1> DEFINE f == [p \in 1 .. Len(s) |-> p]
<1>1. Len(s) \in Nat
  BY LenProperties
<1>2. f \in [1 .. Len(s) -> Nat] /\ \A p \in 1 .. Len(s) : f[p] = p
  OBVIOUS
<1> HIDE DEF f
<1>3. \A p \in 1 .. Len(s) : \A q \in 1 .. p - 1 : f[q] \in 1 .. f[p] - 1
  BY <1>1, <1>2
<1> QED BY <1>1, <1>2, <1>3 DEF Thins

LEMMA TailThins ==
  ASSUME NEW K, NEW S, NEW s \in Seq(S), s # <<>>
  PROVE  Thins(K, Tail(s), s)
<1> DEFINE f == [p \in 1 .. Len(s) - 1 |-> p + 1]
<1>1. /\ Len(s) \in Nat /\ Len(s) >= 1 /\ Len(Tail(s)) = Len(s) - 1
      /\ \A p \in 1 .. Len(s) - 1 : Tail(s)[p] = s[p + 1]
  BY LenProperties, HeadTailProperties, EmptySeq
<1>2. f \in [1 .. Len(s) - 1 -> Nat] /\ \A p \in 1 .. Len(s) - 1 : f[p] = p + 1
  BY <1>1
<1> HIDE DEF f
<1>3. \A p \in 1 .. Len(s) - 1 : f[p] \in 1 .. Len(s) /\ Tail(s)[p] = s[f[p]]
  BY <1>1, <1>2
<1>4. \A p \in 1 .. Len(s) - 1 : \A q \in 1 .. p - 1 : f[q] \in 1 .. f[p] - 1
  BY <1>1, <1>2
<1> QED BY <1>1, <1>2, <1>3, <1>4 DEF Thins

LEMMA WithoutThins ==
  ASSUME NEW K, NEW S, NEW s \in Seq(S), NEW i \in 1 .. Len(s)
  PROVE  Thins(K, Without(s, i), s)
<1> DEFINE f == [p \in 1 .. Len(s) - 1 |-> IF p < i THEN p ELSE p + 1]
<1>1. /\ Len(s) \in Nat /\ Len(Without(s, i)) = Len(s) - 1 /\ i \in Nat
      /\ \A p \in 1 .. Len(s) - 1 : Without(s, i)[p] = IF p < i THEN s[p] ELSE s[p + 1]
  BY LenProperties, WithoutShape
<1>2. f \in [1 .. Len(s) - 1 -> Nat] /\ \A p \in 1 .. Len(s) - 1 : f[p] = IF p < i THEN p ELSE p + 1
  BY <1>1
<1> HIDE DEF f
<1>3. ASSUME NEW p \in 1 .. Len(s) - 1
      PROVE  f[p] \in 1 .. Len(s) /\ Without(s, i)[p] = s[f[p]]
  <2>1. CASE p < i
    BY <1>1, <1>2, <2>1
  <2>2. CASE ~(p < i)
    <3>1. f[p] = p + 1
      BY <1>2, <2>2
    <3>2. Without(s, i)[p] = s[p + 1]
      BY <1>1, <2>2
    <3>3. p + 1 \in 1 .. Len(s)
      BY <1>1
    <3> QED BY <3>1, <3>2, <3>3
  <2> QED BY <2>1, <2>2
<1>4. ASSUME NEW p \in 1 .. Len(s) - 1, NEW q \in 1 .. p - 1
      PROVE  f[q] \in 1 .. f[p] - 1
  <2>1. q \in 1 .. Len(s) - 1
    BY <1>1
  <2>2. f[p] = (IF p < i THEN p ELSE p + 1) /\ f[q] = (IF q < i THEN q ELSE q + 1)
    BY <1>2, <2>1
  <2> QED BY <1>1, <2>2
<1> QED BY <1>1, <1>2, <1>3, <1>4 DEF Thins

LEMMA ReplaceThins ==
  ASSUME NEW K, NEW S, NEW s \in Seq(S), NEW i \in 1 .. Len(s), NEW x \in S, x.kind \notin K
  PROVE  Thins(K, Replace(s, i, x), s)
<1> DEFINE f == [p \in 1 .. Len(s) |-> p]
           t == Replace(s, i, x)
<1>1. /\ Len(s) \in Nat /\ Len(t) = Len(s) /\ t[i] = x
      /\ \A p \in 1 .. Len(s) : p # i => t[p] = s[p]
  BY LenProperties, ExceptSeq DEF Replace
<1>2. f \in [1 .. Len(s) -> Nat] /\ \A p \in 1 .. Len(s) : f[p] = p
  OBVIOUS
<1> HIDE DEF f, t
<1>3. \A p \in 1 .. Len(s) : t[p].kind \in K => f[p] \in 1 .. Len(s) /\ t[p] = s[f[p]]
  BY <1>1, <1>2
<1>4. \A p \in 1 .. Len(s) : \A q \in 1 .. p - 1 : f[q] \in 1 .. f[p] - 1
  BY <1>1, <1>2
<1>5. Thins(K, t, s)
  BY <1>1, <1>2, <1>3, <1>4 DEF Thins
<1> QED BY <1>5 DEF t

\* Appending symbols of other kinds changes nothing for those of the kinds in K.
LEMMA AppendedThins ==
  ASSUME NEW K, NEW S, NEW s \in Seq(S), NEW t \in Seq(S), \A i \in 1 .. Len(t) : t[i].kind \notin K
  PROVE  Thins(K, s \o t, s)
<1> DEFINE f == [p \in 1 .. Len(s) + Len(t) |-> p]
           u == s \o t
<1>1. /\ Len(s) \in Nat /\ Len(t) \in Nat /\ Len(u) = Len(s) + Len(t)
      /\ \A p \in 1 .. Len(s) + Len(t) : u[p] = IF p <= Len(s) THEN s[p] ELSE t[p - Len(s)]
  BY LenProperties, ConcatProperties
<1>2. f \in [1 .. Len(s) + Len(t) -> Nat] /\ \A p \in 1 .. Len(s) + Len(t) : f[p] = p
  OBVIOUS
<1> HIDE DEF f, u
<1>3. ASSUME NEW p \in 1 .. Len(s) + Len(t), u[p].kind \in K
      PROVE  f[p] \in 1 .. Len(s) /\ u[p] = s[f[p]]
  <2>1. CASE p <= Len(s)
    BY <1>1, <1>2, <2>1
  <2>2. CASE ~(p <= Len(s))
    <3>1. p - Len(s) \in 1 .. Len(t)
      BY <1>1, <2>2
    <3> QED BY <1>1, <1>3, <2>2, <3>1
  <2> QED BY <2>1, <2>2
<1>4. \A p \in 1 .. Len(s) + Len(t) : \A q \in 1 .. p - 1 : f[q] \in 1 .. f[p] - 1
  BY <1>1, <1>2
<1>5. Thins(K, u, s)
  BY <1>1, <1>2, <1>3, <1>4 DEF Thins
<1> QED BY <1>5 DEF u

LEMMA TwoAppendedThins ==
  ASSUME NEW K, NEW S, NEW s \in Seq(S), NEW x \in S, NEW y \in S, x.kind \notin K, y.kind \notin K
  PROVE  Thins(K, s \o <<x, y>>, s)
<1> DEFINE t == <<x, y>>
<1>1. t \in Seq(S) /\ \A i \in 1 .. Len(t) : t[i].kind \notin K
  OBVIOUS
<1> HIDE DEF t
<1>2. Thins(K, s \o t, s)
  BY <1>1, AppendedThins
<1> QED BY <1>2 DEF t

\* What a port takes of a frame leaves less than all of it.
LEMMA PortionThins ==
  ASSUME NEW K \in SUBSET {"data", "ack", "sync"}, NEW s \in Seq(Symbol), NEW x \in Symbol, NEW y \in Symbol,
         NEW t \in Portions(x, y)
  PROVE  Thins(K, s \o t, s \o <<x, y>>)
<1> DEFINE u == <<x, y>>
           f == [p \in 1 .. Len(s) + Len(t) |-> p]
           new == s \o t
           old == s \o u
<1>1. /\ t \in Seq(Symbol) /\ Len(t) <= 2 /\ u \in Seq(Symbol) /\ Len(u) = 2
      /\ \A i \in 1 .. Len(t) : t[i] = u[i] \/ t[i].kind \notin K
  <2>1. u \in Seq(Symbol) /\ Len(u) = 2
    OBVIOUS
  <2>2. /\ t \in Seq(Symbol) /\ Len(t) <= 2
        /\ \A i \in 1 .. Len(t) : t[i] = u[i] \/ t[i].kind \notin {"data", "ack", "sync"}
    BY PortionType
  <2> HIDE DEF u
  <2> QED BY <2>1, <2>2
<1> HIDE DEF u
<1>2. /\ Len(s) \in Nat /\ Len(t) \in Nat /\ Len(new) = Len(s) + Len(t) /\ Len(old) = Len(s) + 2
      /\ \A p \in 1 .. Len(s) + Len(t) : new[p] = IF p <= Len(s) THEN s[p] ELSE t[p - Len(s)]
      /\ \A p \in 1 .. Len(s) + 2 : old[p] = IF p <= Len(s) THEN s[p] ELSE u[p - Len(s)]
  <2>1. Len(s) \in Nat /\ Len(t) \in Nat
    BY <1>1, LenProperties
  <2>2. /\ Len(new) = Len(s) + Len(t)
        /\ \A p \in 1 .. Len(s) + Len(t) : new[p] = IF p <= Len(s) THEN s[p] ELSE t[p - Len(s)]
    BY <1>1, ConcatProperties
  <2>3. /\ Len(old) = Len(s) + Len(u)
        /\ \A p \in 1 .. Len(s) + Len(u) : old[p] = IF p <= Len(s) THEN s[p] ELSE u[p - Len(s)]
    BY <1>1, ConcatProperties
  <2> QED BY <1>1, <2>1, <2>2, <2>3
<1>3. f \in [1 .. Len(s) + Len(t) -> Nat] /\ \A p \in 1 .. Len(s) + Len(t) : f[p] = p
  OBVIOUS
<1> HIDE DEF f, new, old
<1>4. ASSUME NEW p \in 1 .. Len(s) + Len(t), new[p].kind \in K
      PROVE  f[p] \in 1 .. Len(old) /\ new[p] = old[f[p]]
  <2>1. p \in 1 .. Len(s) + 2 /\ f[p] = p
    BY <1>1, <1>2, <1>3
  <2>2. CASE p <= Len(s)
    BY <1>2, <2>1, <2>2
  <2>3. CASE ~(p <= Len(s))
    <3>1. p - Len(s) \in 1 .. Len(t) /\ new[p] = t[p - Len(s)] /\ old[p] = u[p - Len(s)]
      BY <1>2, <2>1, <2>3
    <3>2. t[p - Len(s)] = u[p - Len(s)]
      BY <1>1, <1>4, <3>1
    <3> QED BY <1>2, <2>1, <3>1, <3>2
  <2> QED BY <2>2, <2>3
<1>5. \A p \in 1 .. Len(new) : \A q \in 1 .. p - 1 : f[q] \in 1 .. f[p] - 1
  BY <1>2, <1>3
<1>6. Thins(K, new, old)
  BY <1>2, <1>3, <1>4, <1>5 DEF Thins
<1> QED BY <1>6 DEF new, old, u

\* A stretch of a sequence.
LEMMA StretchThins ==
  ASSUME NEW K, NEW S, NEW s \in Seq(S), NEW i \in Nat \ {0}, NEW j \in 0 .. Len(s)
  PROVE  Thins(K, SubSeq(s, i, j), s)
<1> DEFINE new == SubSeq(s, i, j)
           n == IF i <= j THEN (j - i) + 1 ELSE 0
           f == [p \in 1 .. n |-> p + (i - 1)]
<1>1. Len(s) \in Nat /\ n \in Nat
  BY LenProperties
<1>2. \A p \in i .. j : s[p] \in S
  BY <1>1
<1>3. Len(new) = n /\ \A p \in 1 .. n : new[p] = s[p + (i - 1)]
  <2>1. Len(new) = (IF i <= j THEN (j - i) + 1 ELSE 0) /\ \A p \in 1 .. (j - i) + 1 : new[p] = s[(i + p) - 1]
    BY <1>1, <1>2, SubSeqProperties
  <2>2. \A p \in 1 .. n : p \in 1 .. (j - i) + 1 /\ (i + p) - 1 = p + (i - 1)
    BY <1>1
  <2> HIDE DEF new
  <2> QED BY <2>1, <2>2
<1>4. f \in [1 .. n -> Nat] /\ \A p \in 1 .. n : f[p] = p + (i - 1)
  BY <1>1
<1>5. \A p \in 1 .. n : p + (i - 1) \in 1 .. Len(s)
  BY <1>1
<1> HIDE DEF f, new, n
<1>6. \A p \in 1 .. n : f[p] \in 1 .. Len(s) /\ new[p] = s[f[p]]
  BY <1>3, <1>4, <1>5
<1>7. \A p \in 1 .. n : \A q \in 1 .. p - 1 : f[q] \in 1 .. f[p] - 1
  BY <1>1, <1>4
<1>8. Thins(K, new, s)
  BY <1>3, <1>4, <1>6, <1>7 DEF Thins
<1> QED BY <1>8 DEF new

-----------------------------------------------------------------------------
\* Data frames of one direction.

LEMMA DataThin ==
  ASSUME NEW held, NEW after, after = held \/ after.kind # "data",
         NEW old, NEW new, Thins({"data"}, new, old),
         NEW composed, NEW r, DataInFlight(held, old, composed, r)
  PROVE  DataInFlight(after, new, composed, r)
<1>1. PICK f \in [1 .. Len(new) -> Nat] :
        /\ \A p \in 1 .. Len(new) :
             new[p].kind \in {"data"} => f[p] \in 1 .. Len(old) /\ new[p] = old[f[p]]
        /\ \A p \in 1 .. Len(new) : \A q \in 1 .. p - 1 : f[q] \in 1 .. f[p] - 1
  BY DEF Thins
<1>2. /\ DataFine(held, composed, r)
      /\ \A p \in 1 .. Len(old) :
           /\ DataFine(old[p], composed, r) /\ DataBefore(held, old[p])
           /\ \A q \in 1 .. p - 1 : DataBefore(old[q], old[p])
  BY DEF DataInFlight
<1>3. DataFine(after, composed, r)
  BY <1>2 DEF DataFine
<1>4. ASSUME NEW p \in 1 .. Len(new)
      PROVE  DataFine(new[p], composed, r) /\ DataBefore(after, new[p])
  <2>1. CASE new[p].kind = "data"
    <3>1. DataFine(new[p], composed, r) /\ DataBefore(held, new[p])
      BY <1>1, <1>2, <2>1
    <3> QED BY <3>1 DEF DataBefore
  <2>2. CASE new[p].kind # "data"
    BY <2>2 DEF DataFine, DataBefore
  <2> QED BY <2>1, <2>2
<1>5. ASSUME NEW p \in 1 .. Len(new), NEW q \in 1 .. p - 1, q \in 1 .. Len(new)
      PROVE  DataBefore(new[q], new[p])
  <2>1. CASE new[p].kind = "data" /\ new[q].kind = "data"
    <3>1. f[p] \in 1 .. Len(old) /\ new[p] = old[f[p]] /\ new[q] = old[f[q]] /\ f[q] \in 1 .. f[p] - 1
      BY <1>1, <1>5, <2>1
    <3> QED BY <1>2, <3>1
  <2>2. CASE ~(new[p].kind = "data" /\ new[q].kind = "data")
    BY <2>2 DEF DataBefore
  <2> QED BY <2>1, <2>2
<1> QED BY <1>3, <1>4, <1>5 DEF DataInFlight
\* The decoder takes the next symbol.
LEMMA DataTake ==
  ASSUME NEW held, NEW S, NEW symbols \in Seq(S), symbols # <<>>,
         NEW composed, NEW r, DataInFlight(held, symbols, composed, r)
  PROVE  DataInFlight(Head(symbols), Tail(symbols), composed, r)
<1> DEFINE rest == Tail(symbols)
<1>1. /\ Len(symbols) \in Nat /\ Len(symbols) >= 1 /\ Len(rest) = Len(symbols) - 1
      /\ Head(symbols) = symbols[1]
      /\ \A p \in 1 .. Len(symbols) - 1 : rest[p] = symbols[p + 1]
  BY LenProperties, HeadTailProperties, EmptySeq
<1>2. \A p \in 1 .. Len(symbols) :
        /\ DataFine(symbols[p], composed, r)
        /\ \A q \in 1 .. p - 1 : DataBefore(symbols[q], symbols[p])
  BY DEF DataInFlight
<1> HIDE DEF rest
<1>3. DataFine(Head(symbols), composed, r)
  BY <1>1, <1>2
<1>4. ASSUME NEW p \in 1 .. Len(rest)
      PROVE  DataFine(rest[p], composed, r) /\ DataBefore(Head(symbols), rest[p])
  <2>1. p + 1 \in 1 .. Len(symbols) /\ rest[p] = symbols[p + 1] /\ 1 \in 1 .. (p + 1) - 1
    BY <1>1
  <2> QED BY <1>1, <1>2, <2>1
<1>5. ASSUME NEW p \in 1 .. Len(rest), NEW q \in 1 .. p - 1
      PROVE  DataBefore(rest[q], rest[p])
  <2>1. p \in 1 .. Len(symbols) - 1 /\ q \in 1 .. Len(symbols) - 1
    BY <1>1
  <2>2. rest[p] = symbols[p + 1] /\ rest[q] = symbols[q + 1]
    BY <1>1, <2>1
  <2>3. p + 1 \in 1 .. Len(symbols) /\ q + 1 \in 1 .. (p + 1) - 1
    BY <1>1, <2>1
  <2> QED BY <1>2, <2>2, <2>3
<1>6. DataInFlight(Head(symbols), rest, composed, r)
  BY <1>3, <1>4, <1>5 DEF DataInFlight
<1> QED BY <1>6 DEF rest

\* A frame is put on the line that no frame on its way is far ahead of.
LEMMA DataSend ==
  ASSUME NEW held, NEW S, NEW symbols \in Seq(S), NEW x \in S, NEW y \in S, y.kind # "data",
         NEW composed, Len(composed) \in Nat, NEW r, DataInFlight(held, symbols, composed, r),
         DataFine(x, composed, r), x.no \in Nat, Len(composed) < x.no + DEPTH
  PROVE  DataInFlight(held, symbols \o <<x, y>>, composed, r)
<1> DEFINE new == symbols \o <<x, y>>
<1>1. /\ Len(symbols) \in Nat /\ Len(new) = Len(symbols) + 2
      /\ \A p \in 1 .. Len(symbols) : new[p] = symbols[p]
      /\ new[Len(symbols) + 1] = x /\ new[Len(symbols) + 2] = y
  BY LenProperties, TwoAppended
<1>2. /\ DataFine(held, composed, r)
      /\ \A p \in 1 .. Len(symbols) :
           /\ DataFine(symbols[p], composed, r) /\ DataBefore(held, symbols[p])
           /\ \A q \in 1 .. p - 1 : DataBefore(symbols[q], symbols[p])
  BY DEF DataInFlight
<1> HIDE DEF new
<1>3. ASSUME NEW z, DataFine(z, composed, r) PROVE DataBefore(z, x)
  <2> SUFFICES ASSUME z.kind = "data" PROVE z.no < x.no + DEPTH
    BY DEF DataBefore
  <2>1. z.no \in 1 .. Len(composed)
    BY <1>3 DEF DataFine
  <2> QED BY <2>1, LinkConstants
<1>4. \A z : DataFine(y, composed, r) /\ DataBefore(z, y)
  BY DEF DataFine, DataBefore
<1>5. ASSUME NEW p \in 1 .. Len(new)
      PROVE  /\ DataFine(new[p], composed, r) /\ DataBefore(held, new[p])
             /\ \A q \in 1 .. p - 1 : DataBefore(new[q], new[p])
  <2>1. CASE p \in 1 .. Len(symbols)
    <3>1. new[p] = symbols[p] /\ \A q \in 1 .. p - 1 : q \in 1 .. Len(symbols) /\ new[q] = symbols[q]
      BY <1>1, <2>1
    <3> QED BY <1>2, <2>1, <3>1
  <2>2. CASE p = Len(symbols) + 1
    <3>1. new[p] = x /\ \A q \in 1 .. p - 1 : q \in 1 .. Len(symbols) /\ new[q] = symbols[q]
      BY <1>1, <2>2
    <3>2. \A q \in 1 .. p - 1 : DataBefore(new[q], x)
      BY <1>2, <1>3, <3>1
    <3> QED BY <1>2, <1>3, <3>1, <3>2
  <2>3. CASE p = Len(symbols) + 2
    BY <1>1, <1>4, <2>3
  <2> QED BY <1>1, <2>1, <2>2, <2>3
<1>6. DataInFlight(held, new, composed, r)
  BY <1>2, <1>5 DEF DataInFlight
<1> QED BY <1>6 DEF new

\* More frames are composed.
LEMMA DataCompose ==
  ASSUME NEW held, NEW symbols, NEW S, NEW composed \in Seq(S), NEW x \in S, NEW r,
         DataInFlight(held, symbols, composed, r)
  PROVE  DataInFlight(held, symbols, Append(composed, x), r)
<1> DEFINE new == Append(composed, x)
<1>1. /\ Len(composed) \in Nat /\ Len(new) = Len(composed) + 1
      /\ \A i \in 1 .. Len(composed) : new[i] = composed[i]
  BY LenProperties, AppendProperties
<1> HIDE DEF new
<1>2. ASSUME NEW z, DataFine(z, composed, r) PROVE DataFine(z, new, r)
  BY <1>1, <1>2 DEF DataFine
<1>3. DataInFlight(held, symbols, new, r)
  BY <1>2 DEF DataInFlight
<1> QED BY <1>3 DEF new

\* The frame in the decoder is the expected one and is handed over: the ones behind
\* it are less than DEPTH before it.
LEMMA DataDeliver ==
  ASSUME NEW held, NEW after, after.kind # "data", NEW symbols, NEW composed, NEW r \in Nat,
         DataInFlight(held, symbols, composed, r), Len(composed) \in Nat,
         held.kind = "data", held.no = r + 1
  PROVE  DataInFlight(after, symbols, composed, r + 1)
<1>1. \A p \in 1 .. Len(symbols) :
        /\ DataFine(symbols[p], composed, r) /\ DataBefore(held, symbols[p])
        /\ \A q \in 1 .. p - 1 : DataBefore(symbols[q], symbols[p])
  BY DEF DataInFlight
<1>2. ASSUME NEW x, DataFine(x, composed, r), DataBefore(held, x) PROVE DataFine(x, composed, r + 1)
  BY <1>2 DEF DataFine, DataBefore
<1>3. \A x : DataFine(after, composed, r + 1) /\ DataBefore(after, x)
  BY DEF DataFine, DataBefore
<1> QED BY <1>1, <1>2, <1>3 DEF DataInFlight

-----------------------------------------------------------------------------
\* ACKs of one direction.

LEMMA AckThin ==
  ASSUME NEW held, NEW after, after = held \/ after.kind # "ack",
         NEW old, NEW new, Thins({"ack"}, new, old),
         NEW queue, NEW h, NEW r, AckInFlight(held, old, queue, h, r)
  PROVE  AckInFlight(after, new, queue, h, r)
<1>1. PICK f \in [1 .. Len(new) -> Nat] :
        /\ \A p \in 1 .. Len(new) :
             new[p].kind \in {"ack"} => f[p] \in 1 .. Len(old) /\ new[p] = old[f[p]]
        /\ \A p \in 1 .. Len(new) : \A q \in 1 .. p - 1 : f[q] \in 1 .. f[p] - 1
  BY DEF Thins
<1>2. /\ AckFine(held, h, r)
      /\ \A p \in 1 .. Len(old) :
           /\ AckFine(old[p], h, r) /\ AckBefore(held, old[p])
           /\ \A q \in 1 .. p - 1 : AckBefore(old[q], old[p])
      /\ \A p \in 1 .. Len(queue) :
           /\ AckFine(queue[p], h, r) /\ AckBefore(held, queue[p])
           /\ \A q \in 1 .. Len(old) : AckBefore(old[q], queue[p])
           /\ \A q \in 1 .. p - 1 : AckBefore(queue[q], queue[p])
  BY DEF AckInFlight
<1>3. AckFine(after, h, r)
  BY <1>2 DEF AckFine
<1>4. ASSUME NEW p \in 1 .. Len(new)
      PROVE  AckFine(new[p], h, r) /\ AckBefore(after, new[p])
  <2>1. CASE new[p].kind = "ack"
    <3>1. AckFine(new[p], h, r) /\ AckBefore(held, new[p])
      BY <1>1, <1>2, <2>1
    <3> QED BY <3>1 DEF AckBefore
  <2>2. CASE new[p].kind # "ack"
    BY <2>2 DEF AckFine, AckBefore
  <2> QED BY <2>1, <2>2
<1>5. ASSUME NEW p \in 1 .. Len(new), NEW q \in 1 .. p - 1, q \in 1 .. Len(new)
      PROVE  AckBefore(new[q], new[p])
  <2>1. CASE new[p].kind = "ack" /\ new[q].kind = "ack"
    <3>1. f[p] \in 1 .. Len(old) /\ new[p] = old[f[p]] /\ new[q] = old[f[q]] /\ f[q] \in 1 .. f[p] - 1
      BY <1>1, <1>5, <2>1
    <3> QED BY <1>2, <3>1
  <2>2. CASE ~(new[p].kind = "ack" /\ new[q].kind = "ack")
    BY <2>2 DEF AckBefore
  <2> QED BY <2>1, <2>2
<1>6. ASSUME NEW p \in 1 .. Len(queue)
      PROVE  /\ AckFine(queue[p], h, r) /\ AckBefore(after, queue[p])
             /\ \A q \in 1 .. p - 1 : AckBefore(queue[q], queue[p])
  BY <1>2 DEF AckBefore
<1>7. ASSUME NEW p \in 1 .. Len(queue), NEW q \in 1 .. Len(new)
      PROVE  AckBefore(new[q], queue[p])
  <2>1. CASE new[q].kind = "ack"
    <3>1. f[q] \in 1 .. Len(old) /\ new[q] = old[f[q]]
      BY <1>1, <2>1
    <3> QED BY <1>2, <3>1
  <2>2. CASE new[q].kind # "ack"
    BY <2>2 DEF AckBefore
  <2> QED BY <2>1, <2>2
<1> QED BY <1>3, <1>4, <1>5, <1>6, <1>7 DEF AckInFlight

LEMMA AckTake ==
  ASSUME NEW held, NEW S, NEW symbols \in Seq(S), symbols # <<>>,
         NEW queue, NEW h, NEW r, AckInFlight(held, symbols, queue, h, r)
  PROVE  AckInFlight(Head(symbols), Tail(symbols), queue, h, r)
<1> DEFINE rest == Tail(symbols)
<1>1. /\ Len(symbols) \in Nat /\ Len(symbols) >= 1 /\ Len(rest) = Len(symbols) - 1
      /\ Head(symbols) = symbols[1] /\ 1 \in 1 .. Len(symbols)
      /\ \A p \in 1 .. Len(symbols) - 1 : rest[p] = symbols[p + 1]
  BY LenProperties, HeadTailProperties, EmptySeq
<1>2. /\ \A p \in 1 .. Len(symbols) :
           /\ AckFine(symbols[p], h, r)
           /\ \A q \in 1 .. p - 1 : AckBefore(symbols[q], symbols[p])
      /\ \A p \in 1 .. Len(queue) :
           /\ AckFine(queue[p], h, r)
           /\ \A q \in 1 .. Len(symbols) : AckBefore(symbols[q], queue[p])
           /\ \A q \in 1 .. p - 1 : AckBefore(queue[q], queue[p])
  BY DEF AckInFlight
<1> HIDE DEF rest
<1>3. AckFine(Head(symbols), h, r)
  BY <1>1, <1>2
<1>4. ASSUME NEW p \in 1 .. Len(rest)
      PROVE  AckFine(rest[p], h, r) /\ AckBefore(Head(symbols), rest[p])
  <2>1. p + 1 \in 1 .. Len(symbols) /\ rest[p] = symbols[p + 1] /\ 1 \in 1 .. (p + 1) - 1
    BY <1>1
  <2> QED BY <1>1, <1>2, <2>1
<1>5. ASSUME NEW p \in 1 .. Len(rest), NEW q \in 1 .. p - 1
      PROVE  AckBefore(rest[q], rest[p])
  <2>1. p \in 1 .. Len(symbols) - 1 /\ q \in 1 .. Len(symbols) - 1
    BY <1>1
  <2>2. rest[p] = symbols[p + 1] /\ rest[q] = symbols[q + 1]
    BY <1>1, <2>1
  <2>3. p + 1 \in 1 .. Len(symbols) /\ q + 1 \in 1 .. (p + 1) - 1
    BY <1>1, <2>1
  <2> QED BY <1>2, <2>2, <2>3
<1>6. ASSUME NEW p \in 1 .. Len(queue)
      PROVE  AckBefore(Head(symbols), queue[p]) /\ \A q \in 1 .. Len(rest) : AckBefore(rest[q], queue[p])
  <2>1. \A q \in 1 .. Len(rest) : q + 1 \in 1 .. Len(symbols) /\ rest[q] = symbols[q + 1]
    BY <1>1
  <2> QED BY <1>1, <1>2, <2>1
<1>7. AckInFlight(Head(symbols), rest, queue, h, r)
  BY <1>2, <1>3, <1>4, <1>5, <1>6 DEF AckInFlight
<1> QED BY <1>7 DEF rest

\* The first ACK of the queue goes on the line.
LEMMA AckSend ==
  ASSUME NEW held, NEW S, NEW symbols \in Seq(S), NEW y \in S, y.kind # "ack",
         NEW T, NEW queue \in Seq(T), queue # <<>>, Head(queue) \in S,
         NEW h, NEW r, AckInFlight(held, symbols, queue, h, r)
  PROVE  AckInFlight(held, symbols \o <<Head(queue), y>>, Tail(queue), h, r)
<1> DEFINE x == Head(queue)
           new == symbols \o <<x, y>>
           rest == Tail(queue)
<1>1. /\ Len(symbols) \in Nat /\ Len(new) = Len(symbols) + 2
      /\ \A p \in 1 .. Len(symbols) : new[p] = symbols[p]
      /\ new[Len(symbols) + 1] = x /\ new[Len(symbols) + 2] = y
  BY LenProperties, TwoAppended
<1>2. /\ Len(queue) \in Nat /\ Len(rest) = Len(queue) - 1 /\ x = queue[1] /\ 1 \in 1 .. Len(queue)
      /\ \A p \in 1 .. Len(queue) - 1 : rest[p] = queue[p + 1]
  BY LenProperties, HeadTailProperties, EmptySeq
<1>3. /\ AckFine(held, h, r)
      /\ \A p \in 1 .. Len(symbols) :
           /\ AckFine(symbols[p], h, r) /\ AckBefore(held, symbols[p])
           /\ \A q \in 1 .. p - 1 : AckBefore(symbols[q], symbols[p])
      /\ \A p \in 1 .. Len(queue) :
           /\ AckFine(queue[p], h, r) /\ AckBefore(held, queue[p])
           /\ \A q \in 1 .. Len(symbols) : AckBefore(symbols[q], queue[p])
           /\ \A q \in 1 .. p - 1 : AckBefore(queue[q], queue[p])
  BY DEF AckInFlight
<1> HIDE DEF x, new, rest
<1>4. \A z : AckFine(y, h, r) /\ AckBefore(z, y) /\ AckBefore(y, z)
  BY DEF AckFine, AckBefore
<1>5. /\ AckFine(x, h, r) /\ AckBefore(held, x)
      /\ \A q \in 1 .. Len(symbols) : AckBefore(symbols[q], x)
  BY <1>2, <1>3
<1>6. ASSUME NEW p \in 1 .. Len(new)
      PROVE  /\ AckFine(new[p], h, r) /\ AckBefore(held, new[p])
             /\ \A q \in 1 .. p - 1 : AckBefore(new[q], new[p])
  <2>1. CASE p \in 1 .. Len(symbols)
    BY <1>1, <1>3, <2>1
  <2>2. CASE p = Len(symbols) + 1
    <3>1. new[p] = x /\ \A q \in 1 .. p - 1 : q \in 1 .. Len(symbols) /\ new[q] = symbols[q]
      BY <1>1, <2>2
    <3> QED BY <1>5, <3>1
  <2>3. CASE p = Len(symbols) + 2
    BY <1>1, <1>4, <2>3
  <2>4. p \in 1 .. Len(symbols) \/ p = Len(symbols) + 1 \/ p = Len(symbols) + 2
    BY <1>1
  <2> QED BY <2>1, <2>2, <2>3, <2>4
<1>7. ASSUME NEW p \in 1 .. Len(rest)
      PROVE  /\ AckFine(rest[p], h, r) /\ AckBefore(held, rest[p])
             /\ \A q \in 1 .. Len(new) : AckBefore(new[q], rest[p])
             /\ \A q \in 1 .. p - 1 : AckBefore(rest[q], rest[p])
  <2>1. p + 1 \in 1 .. Len(queue) /\ rest[p] = queue[p + 1] /\ 1 \in 1 .. (p + 1) - 1
    BY <1>2
  <2>2. ASSUME NEW q \in 1 .. Len(new) PROVE AckBefore(new[q], rest[p])
    <3>1. CASE q \in 1 .. Len(symbols)
      BY <1>1, <1>3, <2>1, <3>1
    <3>2. CASE q = Len(symbols) + 1
      <4>1. AckBefore(queue[1], queue[p + 1])
        BY <1>3, <2>1
      <4> QED BY <1>1, <1>2, <2>1, <3>2, <4>1
    <3>3. CASE q = Len(symbols) + 2
      BY <1>1, <1>4, <3>3
    <3> QED BY <1>1, <3>1, <3>2, <3>3
  <2>3. ASSUME NEW q \in 1 .. p - 1 PROVE AckBefore(rest[q], rest[p])
    <3>1. q + 1 \in 1 .. (p + 1) - 1 /\ rest[q] = queue[q + 1]
      BY <1>2
    <3> QED BY <1>3, <2>1, <3>1
  <2> QED BY <1>3, <2>1, <2>2, <2>3
<1>8. AckInFlight(held, new, rest, h, r)
  BY <1>3, <1>6, <1>7 DEF AckInFlight
<1> QED BY <1>8 DEF x, new, rest

\* More frames are handed over.
LEMMA AckDeliver ==
  ASSUME NEW held, NEW symbols, NEW queue, NEW h \in Nat, NEW r \in Nat,
         AckInFlight(held, symbols, queue, h, r)
  PROVE  AckInFlight(held, symbols, queue, h, r + 1)
<1>1. ASSUME NEW x, AckFine(x, h, r) PROVE AckFine(x, h, r + 1)
  BY <1>1 DEF AckFine
<1> QED BY <1>1 DEF AckInFlight

\* An ACK is written, and overwrites some of the last ones or is dropped.
LEMMA AckPut ==
  ASSUME NEW held, NEW symbols, NEW queue \in Seq(AckFrames), NEW shift \in 0 .. DEPTH - 1,
         NEW h \in Nat, NEW r \in Nat, AckInFlight(held, symbols, queue, h, r),
         NEW ack \in AckFrames, AckFine(ack, h, r), ack.got = r
  PROVE  AckInFlight(held, symbols, PutAck(queue, shift, ack), h, r)
<1> DEFINE new == PutAck(queue, shift, ack)
<1>1. Len(queue) \in Nat
  BY LenProperties
<1>2. CASE Len(queue) >= DEPTH
  BY <1>2 DEF PutAck
<1>3. CASE Len(queue) < DEPTH
  <2>1. /\ Len(new) = Len(queue) + 1 /\ new[Len(queue) + 1] = ack
        /\ \A i \in 1 .. Len(queue) :
             new[i] = queue[i] \/ \A j \in i .. Len(queue) : new[j] = ack
    BY <1>3, PutAckShape
  <2> HIDE DEF new
  <2>2. /\ AckFine(held, h, r)
        /\ \A p \in 1 .. Len(symbols) :
             /\ AckFine(symbols[p], h, r) /\ AckBefore(held, symbols[p])
             /\ \A q \in 1 .. p - 1 : AckBefore(symbols[q], symbols[p])
        /\ \A p \in 1 .. Len(queue) :
             /\ AckFine(queue[p], h, r) /\ AckBefore(held, queue[p])
             /\ \A q \in 1 .. Len(symbols) : AckBefore(symbols[q], queue[p])
             /\ \A q \in 1 .. p - 1 : AckBefore(queue[q], queue[p])
    BY DEF AckInFlight
  <2>3. ASSUME NEW x, AckFine(x, h, r) PROVE AckBefore(x, ack)
    BY <2>3 DEF AckFine, AckBefore
  <2>4. ASSUME NEW p \in 1 .. Len(new)
        PROVE  \/ new[p] = ack
               \/ /\ p \in 1 .. Len(queue) /\ new[p] = queue[p]
                  /\ \A q \in 1 .. p - 1 : new[q] = queue[q] \/ new[p] = ack
    <3>1. CASE p = Len(queue) + 1
      BY <2>1, <3>1
    <3>2. CASE p \in 1 .. Len(queue)
      <4>1. ASSUME NEW q \in 1 .. p - 1 PROVE new[q] = queue[q] \/ new[p] = ack
        <5>1. q \in 1 .. Len(queue) /\ p \in q .. Len(queue)
          BY <1>1, <3>2
        <5> QED BY <2>1, <5>1
      <4>2. p \in p .. Len(queue)
        BY <1>1, <3>2
      <4>3. new[p] = queue[p] \/ new[p] = ack
        BY <2>1, <3>2, <4>2
      <4> QED BY <3>2, <4>1, <4>3
    <3> QED BY <1>1, <2>1, <3>1, <3>2
  <2>5. ASSUME NEW p \in 1 .. Len(new) PROVE AckFine(new[p], h, r)
    BY <2>2, <2>4
  <2>6. ASSUME NEW p \in 1 .. Len(new)
        PROVE  AckBefore(held, new[p]) /\ \A q \in 1 .. Len(symbols) : AckBefore(symbols[q], new[p])
    BY <2>2, <2>3, <2>4
  <2>7. ASSUME NEW p \in 1 .. Len(new), NEW q \in 1 .. p - 1 PROVE AckBefore(new[q], new[p])
    <3>1. q \in 1 .. Len(new)
      BY <1>1, <2>1
    <3>2. CASE new[p] = ack
      BY <2>3, <2>5, <3>1, <3>2
    <3>3. CASE new[p] # ack
      <4>1. p \in 1 .. Len(queue) /\ new[p] = queue[p] /\ new[q] = queue[q]
        BY <2>4, <3>3
      <4> QED BY <2>2, <4>1
    <3> QED BY <3>2, <3>3
  <2>8. AckInFlight(held, symbols, new, h, r)
    BY <2>2, <2>5, <2>6, <2>7 DEF AckInFlight
  <2> QED BY <2>8 DEF new
<1> QED BY <1>1, <1>2, <1>3, LinkConstants

\* The ACK in the decoder is accepted: the ones behind it know at least as much.
LEMMA AckAccept ==
  ASSUME NEW held, NEW after, after.kind # "ack", NEW symbols, NEW queue, NEW h \in Nat, NEW r \in Nat,
         AckInFlight(held, symbols, queue, h, r), held.kind = "ack", held.got > h
  PROVE  AckInFlight(after, symbols, queue, h + 1, r)
<1>1. /\ AckFine(held, h, r)
      /\ \A p \in 1 .. Len(symbols) :
           /\ AckFine(symbols[p], h, r) /\ AckBefore(held, symbols[p])
           /\ \A q \in 1 .. p - 1 : AckBefore(symbols[q], symbols[p])
      /\ \A p \in 1 .. Len(queue) :
           /\ AckFine(queue[p], h, r) /\ AckBefore(held, queue[p])
           /\ \A q \in 1 .. Len(symbols) : AckBefore(symbols[q], queue[p])
           /\ \A q \in 1 .. p - 1 : AckBefore(queue[q], queue[p])
  BY DEF AckInFlight
<1>2. ASSUME NEW x, AckFine(x, h, r), AckBefore(held, x) PROVE AckFine(x, h + 1, r)
  <2>1. CASE x.kind = "ack"
    <3>1. held.got \in Int /\ x.got \in Int /\ held.got <= x.got
      BY <1>1, <1>2, <2>1 DEF AckFine, AckBefore
    <3>2. x.got \in h + 1 .. r
      BY <1>2, <2>1, <3>1 DEF AckFine
    <3>3. x.no \in 1 .. (h + 1) + DEPTH
      BY <1>2, <2>1, LinkConstants DEF AckFine
    <3> QED BY <1>2, <3>2, <3>3 DEF AckFine
  <2>2. CASE x.kind # "ack"
    BY <2>2 DEF AckFine
  <2> QED BY <2>1, <2>2
<1>3. \A x : AckFine(after, h + 1, r) /\ AckBefore(after, x)
  BY DEF AckFine, AckBefore
<1> QED BY <1>1, <1>2, <1>3 DEF AckInFlight
-----------------------------------------------------------------------------
\* The numbers of one direction.

\* A data frame with the expected number is the next one, not one of an earlier or a
\* later turn.
LEMMA ExpectedIsNext ==
  ASSUME NEW composed \in Seq(Payload), NEW delivered \in Seq(Payload), NEW confirmed \in Seq(Payload),
         NEW window \in Seq(DataFrames), NEW seq, NEW expected,
         Counts(composed, delivered, confirmed, window, seq, expected),
         NEW x, x.kind = "data", DataFine(x, composed, Len(delivered))
  PROVE  /\ (x.seq = expected) <=> (x.no = Len(delivered) + 1)
         /\ x.no = Len(delivered) + 1 => Len(delivered) < Len(composed)
<1> DEFINE r == Len(delivered)
           n == Len(composed)
           h == Len(confirmed)
           w == Len(window)
<1>1. r \in Nat /\ n \in Nat /\ h \in Nat /\ w \in Nat
  BY LenProperties
<1>2. h <= r /\ r <= n /\ n = h + w /\ w <= DEPTH /\ x.no \in 1 .. n /\ r < x.no + DEPTH
  BY DEF Counts, DataFine
<1>m. x.seq = (x.no - 1) % SEQ_MOD /\ expected = r % SEQ_MOD
  BY DEF Counts, DataFine
<1> HIDE DEF r, n, h, w
<1>3. /\ x.no - 1 \in Int /\ r \in Int
      /\ (x.no - 1) - r < SEQ_MOD /\ r - (x.no - 1) < SEQ_MOD /\ SEQ_MOD \in Nat \ {0}
  <2> DEFINE no == x.no
  <2>1. no \in Int /\ no <= h + w /\ r < no + DEPTH /\ h <= r /\ w <= DEPTH
    BY <1>1, <1>2
  <2> HIDE DEF no
  <2>2. no <= r + DEPTH
    BY <1>1, <2>1, LinkConstants
  <2>3. no - 1 \in Int /\ (no - 1) - r < SEQ_MOD /\ r - (no - 1) < SEQ_MOD
    BY <1>1, <2>1, <2>2, LinkConstants
  <2> QED BY <1>1, <2>3, LinkConstants DEF no
<1>4. ASSUME x.seq = expected PROVE x.no = r + 1
  <2>1. (x.no - 1) % SEQ_MOD = r % SEQ_MOD
    BY <1>m, <1>4
  <2>2. x.no - 1 = r
    BY <1>3, <2>1, RemainderNamesOne
  <2> QED BY <1>1, <1>2, <2>2
<1>5. ASSUME x.no = r + 1 PROVE x.seq = expected
  <2>1. x.no - 1 = r
    BY <1>1, <1>5
  <2> QED BY <1>m, <2>1
<1>6. x.no = r + 1 => r < n
  BY <1>1, <1>2
<1> QED BY <1>4, <1>5, <1>6 DEF r, n

\* Two frames that are no further apart than a window: their numbers are less than a turn apart.
LEMMA LessThanATurn ==
  ASSUME NEW no \in Int, NEW got \in Int, NEW h \in Int, NEW d \in Nat, NEW m \in Nat, m > d,
         no <= h + d, h <= got, got < no + d
  PROVE  no - 1 \in Int /\ (no - 1) - h < m /\ h - (no - 1) < m
OBVIOUS

\* An ACK with the number of the oldest pending frame answers this frame, and was
\* written after it had been handed over.
LEMMA AcceptedIsOldest ==
  ASSUME NEW composed \in Seq(Payload), NEW delivered \in Seq(Payload), NEW confirmed \in Seq(Payload),
         NEW window \in Seq(DataFrames), NEW seq, NEW expected,
         Counts(composed, delivered, confirmed, window, seq, expected), window # <<>>,
         NEW x, x.kind = "ack", AckFine(x, Len(confirmed), Len(delivered)), Head(window).seq = x.seq
  PROVE  x.got > Len(confirmed) /\ Len(confirmed) < Len(delivered)
<1> DEFINE r == Len(delivered)
           h == Len(confirmed)
<1>1. r \in Nat /\ h \in Nat /\ Len(window) \in Nat /\ 1 \in 1 .. Len(window) /\ Head(window) = window[1]
  BY LenProperties, EmptySeq, HeadTailProperties
<1>2. window[1] = DataFrame((h + 1 - 1) % SEQ_MOD, h + 1, composed[h + 1])
  BY <1>1 DEF Counts
<1>3. window[1].seq = (h + 1 - 1) % SEQ_MOD
  BY <1>2 DEF DataFrame
<1>4. x.no \in 1 .. h + DEPTH /\ x.got \in h .. r /\ x.got < x.no + DEPTH /\ x.got # x.no - 1
  BY DEF AckFine
<1>m. x.seq = (x.no - 1) % SEQ_MOD
  BY DEF AckFine
<1> HIDE DEF r, h
<1>5. h + 1 - 1 = h
  BY <1>1
<1>a. (x.no - 1) % SEQ_MOD = h % SEQ_MOD
  BY <1>1, <1>3, <1>5, <1>m
<1>6. /\ x.no - 1 \in Int /\ h \in Int
      /\ (x.no - 1) - h < SEQ_MOD /\ h - (x.no - 1) < SEQ_MOD /\ SEQ_MOD \in Nat \ {0}
  <2> DEFINE no == x.no
             got == x.got
  <2>1. no \in Int /\ got \in Int /\ no <= h + DEPTH /\ h <= got /\ got < no + DEPTH
    BY <1>1, <1>4, LinkConstants
  <2> HIDE DEF no, got
  <2>m. DEPTH \in Nat /\ SEQ_MOD \in Nat /\ SEQ_MOD > DEPTH /\ h \in Int
    BY <1>1, LinkConstants
  <2>2. no - 1 \in Int /\ (no - 1) - h < SEQ_MOD /\ h - (no - 1) < SEQ_MOD
    BY <2>1, <2>m, LessThanATurn
  <2> QED BY <1>1, <2>2, LinkConstants DEF no
<1>7. x.no - 1 = h
  BY <1>a, <1>6, RemainderNamesOne
<1>8. x.got > h /\ h < r
  BY <1>1, <1>4, <1>7
<1> QED BY <1>8 DEF r, h

LEMMA CountsDeliver ==
  ASSUME NEW composed \in Seq(Payload), NEW delivered \in Seq(Payload), NEW confirmed \in Seq(Payload),
         NEW window \in Seq(DataFrames), NEW seq, NEW expected,
         Counts(composed, delivered, confirmed, window, seq, expected),
         Len(delivered) < Len(composed)
  PROVE  Counts(composed, Append(delivered, composed[Len(delivered) + 1]), confirmed, window,
                seq, NextSeq(expected))
<1> DEFINE r == Len(delivered)
           new == Append(delivered, composed[r + 1])
<1>1. r \in Nat /\ Len(composed) \in Nat /\ Len(confirmed) \in Nat
  BY LenProperties
<1>2. composed[r + 1] \in Payload
  <2>1. r + 1 \in 1 .. Len(composed)
    BY <1>1
  <2> QED BY <2>1, ElementOfSeq
<1>3. Len(new) = r + 1 /\ new[r + 1] = composed[r + 1] /\ \A i \in 1 .. r : new[i] = delivered[i]
  BY <1>2, AppendProperties
<1>4. NextSeq(expected) = (r + 1) % SEQ_MOD
  <2>1. expected = r % SEQ_MOD
    BY DEF Counts
  <2>2. (r + 1) % SEQ_MOD = ((r % SEQ_MOD) + 1) % SEQ_MOD
    <3>1. r \in Int
      BY <1>1
    <3> HIDE DEF r
    <3> QED BY <3>1, LinkConstants, RemainderOfNext
  <2> QED BY <2>1, <2>2 DEF NextSeq
<1>5. \A i \in 1 .. r + 1 : new[i] = composed[i]
  <2>1. \A i \in 1 .. r : delivered[i] = composed[i]
    BY DEF Counts
  <2>2. \A i \in 1 .. r + 1 : i \in 1 .. r \/ i = r + 1
    BY <1>1
  <2> HIDE DEF r, new
  <2> QED BY <1>3, <2>1, <2>2
<1> HIDE DEF new
<1>6. Counts(composed, new, confirmed, window, seq, NextSeq(expected))
  BY <1>1, <1>3, <1>4, <1>5 DEF Counts
<1> QED BY <1>6 DEF new

LEMMA CountsAccept ==
  ASSUME NEW composed \in Seq(Payload), NEW delivered \in Seq(Payload), NEW confirmed \in Seq(Payload),
         NEW window \in Seq(DataFrames), NEW seq, NEW expected,
         Counts(composed, delivered, confirmed, window, seq, expected),
         window # <<>>, Len(confirmed) < Len(delivered)
  PROVE  Counts(composed, delivered, Append(confirmed, Head(window).payload), Tail(window),
                seq, expected)
<1> DEFINE h == Len(confirmed)
           new == Append(confirmed, Head(window).payload)
           rest == Tail(window)
<1>1. h \in Nat /\ Len(window) \in Nat /\ Len(delivered) \in Nat /\ Len(composed) \in Nat
  BY LenProperties
<1>2. /\ Head(window) = window[1] /\ 1 \in 1 .. Len(window) /\ Len(rest) = Len(window) - 1
      /\ \A i \in 1 .. Len(window) - 1 : rest[i] = window[i + 1]
  BY <1>1, HeadTailProperties, EmptySeq
<1>3. /\ h <= Len(delivered) /\ Len(delivered) <= Len(composed)
      /\ Len(composed) = h + Len(window) /\ Len(window) <= DEPTH
      /\ seq = Len(composed) % SEQ_MOD /\ expected = Len(delivered) % SEQ_MOD
      /\ \A i \in 1 .. Len(delivered) : delivered[i] = composed[i]
      /\ \A i \in 1 .. h : confirmed[i] = composed[i]
      /\ \A i \in 1 .. Len(window) :
           window[i] = DataFrame((h + i - 1) % SEQ_MOD, h + i, composed[h + i])
  BY DEF Counts
<1>4. Head(window).payload = composed[h + 1] /\ Head(window).payload \in Payload
  <2>1. Head(window) = DataFrame((h + 1 - 1) % SEQ_MOD, h + 1, composed[h + 1])
    BY <1>2, <1>3
  <2>2. Head(window) \in DataFrames
    BY HeadTailProperties
  <2> QED BY <2>1, <2>2, HeldFrames DEF DataFrame
<1>5. Len(new) = h + 1 /\ new[h + 1] = composed[h + 1] /\ \A i \in 1 .. h : new[i] = confirmed[i]
  BY <1>4, AppendProperties
<1> HIDE DEF h, new, rest
<1>6. \A i \in 1 .. h + 1 : new[i] = composed[i]
  <2>1. \A i \in 1 .. h + 1 : i \in 1 .. h \/ i = h + 1
    BY <1>1
  <2> QED BY <1>3, <1>5, <2>1
<1>7. ASSUME NEW i \in 1 .. Len(rest)
      PROVE  rest[i] = DataFrame(((h + 1) + i - 1) % SEQ_MOD, (h + 1) + i, composed[(h + 1) + i])
  <2>1. rest[i] = window[i + 1] /\ i + 1 \in 1 .. Len(window)
    BY <1>1, <1>2
  <2>2. window[i + 1] = DataFrame((h + (i + 1) - 1) % SEQ_MOD, h + (i + 1), composed[h + (i + 1)])
    BY <1>3, <2>1
  <2>3. h + (i + 1) - 1 = (h + 1) + i - 1 /\ h + (i + 1) = (h + 1) + i
    BY <1>1
  <2> QED BY <2>1, <2>2, <2>3
<1>8. h + 1 <= Len(delivered) /\ Len(composed) = (h + 1) + Len(rest) /\ Len(rest) <= DEPTH
  BY <1>1, <1>2, <1>3, LinkConstants DEF h
<1>9. Counts(composed, delivered, new, rest, seq, expected)
  BY <1>3, <1>5, <1>6, <1>7, <1>8 DEF Counts
<1> QED BY <1>9 DEF new, rest

LEMMA CountsCompose ==
  ASSUME NEW composed \in Seq(Payload), NEW delivered \in Seq(Payload), NEW confirmed \in Seq(Payload),
         NEW window \in Seq(DataFrames), NEW seq, NEW expected,
         Counts(composed, delivered, confirmed, window, seq, expected), Len(window) < DEPTH,
         NEW payload \in Payload,
         NEW frame \in DataFrames, frame = DataFrame(seq, Len(composed) + 1, payload)
  PROVE  Counts(Append(composed, payload), delivered, confirmed, Append(window, frame),
                NextSeq(seq), expected)
<1> DEFINE h == Len(confirmed)
           r == Len(delivered)
           n == Len(composed)
           w == Len(window)
           all == Append(composed, payload)
           new == Append(window, frame)
<1>1. h \in Nat /\ w \in Nat /\ r \in Nat /\ n \in Nat
  BY LenProperties
<1>2. /\ h <= r /\ r <= n /\ n = h + w /\ w < DEPTH
      /\ seq = n % SEQ_MOD /\ expected = r % SEQ_MOD
      /\ \A i \in 1 .. r : delivered[i] = composed[i]
      /\ \A i \in 1 .. h : confirmed[i] = composed[i]
      /\ \A i \in 1 .. w : window[i] = DataFrame((h + i - 1) % SEQ_MOD, h + i, composed[h + i])
  BY DEF Counts
<1>h. n = h + w
  BY <1>2
<1>3. Len(all) = n + 1 /\ all[n + 1] = payload /\ \A i \in 1 .. n : all[i] = composed[i]
  BY AppendProperties
<1>4. Len(new) = w + 1 /\ new[w + 1] = frame /\ \A i \in 1 .. w : new[i] = window[i]
  BY AppendProperties
<1>a. frame = DataFrame(seq, n + 1, payload)
  OBVIOUS
<1> HIDE DEF h, r, n, w, all, new
<1>5. NextSeq(seq) = (n + 1) % SEQ_MOD
  <2>1. n \in Int
    BY <1>1
  <2>2. (n + 1) % SEQ_MOD = ((n % SEQ_MOD) + 1) % SEQ_MOD
    BY <2>1, LinkConstants, RemainderOfNext
  <2> QED BY <1>2, <2>2 DEF NextSeq
<1>6. (\A i \in 1 .. r : delivered[i] = all[i]) /\ \A i \in 1 .. h : confirmed[i] = all[i]
  <2>1. (\A i \in 1 .. r : i \in 1 .. n) /\ \A i \in 1 .. h : i \in 1 .. n
    BY <1>1, <1>2
  <2> QED BY <1>2, <1>3, <2>1
<1>7. ASSUME NEW i \in 1 .. w + 1
      PROVE  new[i] = DataFrame((h + i - 1) % SEQ_MOD, h + i, all[h + i])
  <2>1. CASE i \in 1 .. w
    <3>1. h + i \in 1 .. n
      BY <1>1, <1>2, <2>1
    <3> QED BY <1>2, <1>3, <1>4, <2>1, <3>1
  <2>2. CASE i = w + 1
    <3>1. h + i = n + 1 /\ h + i - 1 = n
      BY <1>1, <1>h, <2>2
    <3>2. new[i] = DataFrame(seq, n + 1, payload)
      BY <1>4, <1>a, <2>2
    <3>3. all[n + 1] = payload /\ seq = n % SEQ_MOD
      BY <1>2, <1>3
    <3> QED BY <3>1, <3>2, <3>3
  <2>3. i \in 1 .. w \/ i = w + 1
    BY <1>1
  <2> QED BY <2>1, <2>2, <2>3
<1>8. h <= r /\ r <= n + 1 /\ n + 1 = h + (w + 1) /\ w + 1 <= DEPTH
  BY <1>1, <1>2, LinkConstants
<1>9. Counts(all, delivered, confirmed, new, NextSeq(seq), expected)
  BY <1>2, <1>3, <1>4, <1>5, <1>6, <1>7, <1>8 DEF Counts, h, r
<1> QED BY <1>9 DEF all, new

\* The oldest pending frame may be repeated, and a new one sent.
LEMMA OldestIsFine ==
  ASSUME NEW composed \in Seq(Payload), NEW delivered \in Seq(Payload), NEW confirmed \in Seq(Payload),
         NEW window \in Seq(DataFrames), NEW seq, NEW expected,
         Counts(composed, delivered, confirmed, window, seq, expected), window # <<>>
  PROVE  /\ DataFine(Head(window), composed, Len(delivered)) /\ Head(window).no \in Nat
         /\ Len(composed) < Head(window).no + DEPTH
<1> DEFINE h == Len(confirmed)
           r == Len(delivered)
           n == Len(composed)
           w == Len(window)
<1>1. /\ h \in Nat /\ w \in Nat /\ r \in Nat /\ n \in Nat /\ w >= 1
      /\ Head(window) = window[1] /\ 1 \in 1 .. w
  BY LenProperties, HeadTailProperties, EmptySeq
<1>2. h <= r /\ r <= n /\ n = h + w /\ w <= DEPTH
  BY DEF Counts
<1>3. window[1] = DataFrame((h + 1 - 1) % SEQ_MOD, h + 1, composed[h + 1])
  BY <1>1 DEF Counts
<1>4. window[1].no = h + 1 /\ window[1].payload = composed[h + 1]
  BY <1>3 DEF DataFrame
<1>m. window[1].seq = (h + 1 - 1) % SEQ_MOD
  BY <1>3 DEF DataFrame
<1> HIDE DEF h, r, n, w
<1>5. h + 1 \in 1 .. n /\ r < (h + 1) + DEPTH /\ n < (h + 1) + DEPTH /\ h + 1 \in Nat
  BY <1>1, <1>2, LinkConstants
<1>6. DataFine(window[1], composed, r)
  <2>1. window[1].no \in 1 .. Len(composed) /\ r < window[1].no + DEPTH
    BY <1>4, <1>5 DEF n
  <2>2. window[1].no - 1 = h + 1 - 1
    BY <1>1, <1>4
  <2>3. window[1].seq = (window[1].no - 1) % SEQ_MOD
    BY <1>m, <2>2
  <2>4. window[1].payload = composed[window[1].no]
    BY <1>4
  <2> QED BY <2>1, <2>3, <2>4 DEF DataFine
<1> QED BY <1>1, <1>4, <1>5, <1>6 DEF r, n

LEMMA ComposedIsFine ==
  ASSUME NEW composed \in Seq(Payload), NEW delivered \in Seq(Payload), NEW confirmed \in Seq(Payload),
         NEW window \in Seq(DataFrames), NEW seq, NEW expected,
         Counts(composed, delivered, confirmed, window, seq, expected), NEW payload \in Payload,
         NEW frame, frame = DataFrame(seq, Len(composed) + 1, payload)
  PROVE  /\ DataFine(frame, Append(composed, payload), Len(delivered)) /\ frame.no \in Nat
         /\ Len(Append(composed, payload)) < frame.no + DEPTH
<1> DEFINE r == Len(delivered)
           n == Len(composed)
           all == Append(composed, payload)
<1>1. r \in Nat /\ n \in Nat /\ r <= n /\ seq = n % SEQ_MOD
  BY LenProperties DEF Counts
<1>2. Len(all) = n + 1 /\ all[n + 1] = payload
  BY AppendProperties
<1>3. frame.no = n + 1 /\ frame.seq = seq /\ frame.payload = payload
  BY DEF DataFrame
<1> HIDE DEF r, n, all
<1>4. n + 1 \in 1 .. n + 1 /\ (n + 1) - 1 = n /\ r < (n + 1) + DEPTH /\ n + 1 < (n + 1) + DEPTH
  BY <1>1, LinkConstants
<1>5. DataFine(frame, all, r)
  BY <1>1, <1>2, <1>3, <1>4 DEF DataFine
<1>6. frame.no \in Nat /\ Len(all) < frame.no + DEPTH
  BY <1>1, <1>2, <1>3, <1>4
<1> QED BY <1>5, <1>6 DEF r, all

\* What an intact data frame is answered with.
LEMMA AnswerIsFine ==
  ASSUME NEW composed \in Seq(Payload), NEW delivered \in Seq(Payload), NEW confirmed \in Seq(Payload),
         NEW window \in Seq(DataFrames), NEW seq, NEW expected,
         Counts(composed, delivered, confirmed, window, seq, expected),
         NEW x, x.kind = "data", DataFine(x, composed, Len(delivered)),
         NEW got, got = IF x.seq = expected THEN Len(delivered) + 1 ELSE Len(delivered),
         NEW ack, ack = AckFrame(x.seq, x.no, got)
  PROVE  AckFine(ack, Len(confirmed), got) /\ ack.got = got
<1> DEFINE h == Len(confirmed)
           r == Len(delivered)
           n == Len(composed)
           w == Len(window)
<1>1. h \in Nat /\ w \in Nat /\ r \in Nat /\ n \in Nat
  BY LenProperties
<1>2. h <= r /\ n = h + w /\ w <= DEPTH
  BY DEF Counts
<1>3. x.no \in 1 .. n /\ r < x.no + DEPTH
  BY DEF DataFine
<1>m. x.seq = (x.no - 1) % SEQ_MOD
  BY DEF DataFine
<1>4. ack.seq = x.seq /\ ack.no = x.no /\ ack.got = got
  BY DEF AckFrame
<1>5. (x.seq = expected) <=> (x.no = r + 1)
  BY ExpectedIsNext
<1>7. got = IF x.seq = expected THEN r + 1 ELSE r
  OBVIOUS
<1> HIDE DEF h, r, n, w
<1>8. got \in h .. got /\ got < x.no + DEPTH /\ got # x.no - 1
  <2> DEFINE no == x.no
  <2>1. no \in Int /\ r < no + DEPTH /\ got = IF no = r + 1 THEN r + 1 ELSE r
    BY <1>1, <1>3, <1>5, <1>7
  <2> HIDE DEF no
  <2>2. got \in h .. got /\ got < no + DEPTH /\ got # no - 1
    BY <1>1, <1>2, <2>1, LinkConstants
  <2> QED BY <2>2 DEF no
<1>9. x.no \in 1 .. h + DEPTH
  BY <1>1, <1>2, <1>3, LinkConstants
<1>10. AckFine(ack, h, got)
  BY <1>m, <1>4, <1>8, <1>9 DEF AckFine
<1> QED BY <1>4, <1>10 DEF h

\* Before the first frame a reset changes nothing.
LEMMA NothingCounted ==
  ASSUME NEW delivered \in Seq(Payload), NEW confirmed \in Seq(Payload),
         NEW window \in Seq(DataFrames), NEW seq, NEW expected,
         Counts(<<>>, delivered, confirmed, window, seq, expected)
  PROVE  window = <<>> /\ seq = 0 /\ expected = 0
<1>1. Len(delivered) \in Nat /\ Len(confirmed) \in Nat /\ Len(window) \in Nat
  BY LenProperties
<1>2. /\ Len(confirmed) <= Len(delivered) /\ Len(delivered) <= 0
      /\ 0 = Len(confirmed) + Len(window)
      /\ seq = 0 % SEQ_MOD /\ expected = Len(delivered) % SEQ_MOD
  BY DEF Counts
<1>3. Len(window) = 0 /\ Len(delivered) = 0
  BY <1>1, <1>2
<1>4. 0 % SEQ_MOD = 0
  <2>1. 0 = SEQ_MOD * 0 + 0 /\ 0 \in 0 .. SEQ_MOD - 1
    BY LinkConstants
  <2> QED BY <2>1, LinkConstants, Remainder
<1> QED BY <1>2, <1>3, <1>4, EmptySeq
-----------------------------------------------------------------------------
\* What the actions do to the two lines.

LinesThin(K) == \A s \in Station : Thins(K, line'[s], line[s])

LEMMA LinesSame ==
  ASSUME TypeOK, UNCHANGED line, NEW K
  PROVE  LinesThin(K)
<1>1. \A s \in Station : line[s] \in Seq(Symbol)
  BY DEF TypeOK
<1>2. \A s \in Station : Thins(K, line[s], line[s])
  BY <1>1, ThinsSelf
<1> QED BY <1>2 DEF LinesThin

\* One line changes.
LEMMA OneLineThin ==
  ASSUME TypeOK, NEW e \in Station, NEW new, line' = [line EXCEPT ![e] = new],
         NEW K, Thins(K, new, line[e])
  PROVE  LinesThin(K)
<1>1. line \in [Station -> Seq(Symbol)]
  BY DEF TypeOK
<1>2. ASSUME NEW s \in Station PROVE Thins(K, line'[s], line[s])
  <2>1. CASE s = e
    BY <1>1, <2>1
  <2>2. CASE s # e
    <3>1. line'[s] = line[s] /\ line[s] \in Seq(Symbol)
      BY <1>1, <2>2
    <3>2. Thins(K, line[s], line[s])
      BY <3>1, ThinsSelf
    <3> QED BY <3>1, <3>2
  <2> QED BY <2>1, <2>2
<1> QED BY <1>2 DEF LinesThin

LEMMA TakeThin ==
  ASSUME TypeOK, NEW e \in Station, NEW kinds, Take(e, kinds), NEW K
  PROVE  LinesThin(K)
<1> DEFINE o == Other(e)
<1>1. o \in Station /\ line[o] \in Seq(Symbol) /\ line[o] # <<>>
  BY Stations DEF TypeOK, Take, Incoming
<1>2. line' = [line EXCEPT ![o] = Tail(line[o])]
  BY DEF Take
<1> HIDE DEF o
<1>3. Thins(K, Tail(line[o]), line[o])
  BY <1>1, TailThins
<1> QED BY <1>1, <1>2, <1>3, OneLineThin

LEMMA LineErrorThin ==
  ASSUME TypeOK, NEW e \in Station, NEW i \in 1 .. Len(line[e]), LineError(e, i),
         NEW K \in SUBSET {"data", "ack", "sync"}
  PROVE  LinesThin(K)
<1>1. line[e] \in Seq(Symbol)
  BY DEF TypeOK
<1>2. CASE line' = [line EXCEPT ![e] = Without(line[e], i)]
  <2>1. Thins(K, Without(line[e], i), line[e])
    BY <1>1, WithoutThins
  <2> QED BY <1>2, <2>1, OneLineThin
<1>3. ASSUME NEW x \in Noise \cup {EndOfData, EndOfAck},
             line' = [line EXCEPT ![e] = Replace(line[e], i, x)]
      PROVE  LinesThin(K)
  <2>1. x \in Symbol /\ x.kind \notin K
    BY PlainSymbols
  <2>2. Thins(K, Replace(line[e], i, x), line[e])
    BY <1>1, <2>1, ReplaceThins
  <2> QED BY <1>3, <2>2, OneLineThin
<1> QED BY <1>2, <1>3 DEF LineError

LEMMA ReopenThin ==
  ASSUME TypeOK, NEW e \in Station, Reopen(e), NEW K
  PROVE  LinesThin(K)
<1> DEFINE o == Other(e)
<1>1. line \in [Station -> Seq(Symbol)] /\ o \in Station /\ o # e /\ Station = {e, o}
  BY Stations DEF TypeOK
<1>2. PICK i \in 0 .. Len(line[e]), j \in 1 .. Len(line[o]) + 1 :
        line' = [line EXCEPT ![e] = SubSeq(line[e], 1, i),
                             ![o] = SubSeq(line[o], j, Len(line[o]))]
  BY <1>1 DEF Reopen, Incoming
<1> HIDE DEF o
<1>3. Len(line[e]) \in Nat /\ Len(line[o]) \in Nat
  BY <1>1, LenProperties
<1>4. Thins(K, SubSeq(line[e], 1, i), line[e])
  BY <1>1, <1>3, StretchThins
<1>5. Thins(K, SubSeq(line[o], j, Len(line[o])), line[o])
  BY <1>1, <1>3, StretchThins
<1>6. line'[e] = SubSeq(line[e], 1, i) /\ line'[o] = SubSeq(line[o], j, Len(line[o]))
  BY <1>1, <1>2
<1> QED BY <1>1, <1>4, <1>5, <1>6 DEF LinesThin

LEMMA TransmitThin ==
  ASSUME TypeOK, NEW e \in Station, NEW x \in Symbol, NEW end \in Symbol, Transmit(e, x, end),
         NEW K \in SUBSET {"data", "ack", "sync"}, x.kind \notin K, end.kind \notin K
  PROVE  LinesThin(K)
<1>1. line[e] \in Seq(Symbol)
  BY DEF TypeOK
<1>2. PICK t \in Portions(x, end) : line' = [line EXCEPT ![e] = line[e] \o t]
  BY DEF Transmit
<1>3. t \in Seq(Symbol) /\ \A i \in 1 .. Len(t) : t[i].kind \notin K
  <2>1. /\ t \in Seq(Symbol) /\ Len(t) <= 2
        /\ \A i \in 1 .. Len(t) : t[i] = <<x, end>>[i] \/ t[i].kind \notin K
    BY PortionType
  <2>2. \A i \in 1 .. 2 : <<x, end>>[i].kind \notin K
    OBVIOUS
  <2>3. \A i \in 1 .. Len(t) : i \in 1 .. 2
    BY <2>1, LenProperties
  <2> QED BY <2>1, <2>2, <2>3
<1>4. Thins(K, line[e] \o t, line[e])
  BY <1>1, <1>3, AppendedThins
<1> QED BY <1>2, <1>4, OneLineThin

LEMMA TaskBeginThin ==
  ASSUME TypeOK, NEW e \in Station, TaskBegin(e), NEW K, "sync" \notin K \/ syncSent[e]
  PROVE  LinesThin(K)
<1>1. line[e] \in Seq(Symbol)
  BY DEF TypeOK
<1>2. CASE syncSent[e]
  <2>1. UNCHANGED line
    BY <1>2 DEF TaskBegin
  <2> QED BY <2>1, LinesSame
<1>3. CASE ~syncSent[e]
  <2>1. PICK n \in SyncWrites : line' = [line EXCEPT ![e] = line[e] \o Syncs(n)]
    BY <1>3 DEF TaskBegin
  <2>2. /\ Syncs(n) \in Seq(Symbol) /\ Len(Syncs(n)) = n
        /\ \A i \in 1 .. n : Syncs(n)[i] = Sync
    BY WriteAssumption, SyncsType
  <2>3. \A i \in 1 .. Len(Syncs(n)) : Syncs(n)[i].kind \notin K
    BY <1>3, <2>2, PlainSymbols
  <2>4. Thins(K, line[e] \o Syncs(n), line[e])
    BY <1>1, <2>2, <2>3, AppendedThins
  <2> QED BY <2>1, <2>4, OneLineThin
<1> QED BY <1>2, <1>3

-----------------------------------------------------------------------------
\* The actions, for both directions.

Directions == \A s \in Station : Direction(s)

\* Station s, its line and the decoders fed by it.
LEMMA DirectionTypes ==
  ASSUME TypeOK, NEW s \in Station
  PROVE  /\ log[s] \in Seq(Payload) /\ handed[s] \in Seq(Payload) /\ acked[s] \in Seq(Payload)
         /\ pending[s] \in Seq(DataFrames) /\ acks[s] \in Seq(AckFrames) /\ line[s] \in Seq(Symbol)
         /\ Len(log[s]) \in Nat /\ Len(handed[s]) \in Nat /\ Len(acked[s]) \in Nat
         /\ ackShift[s] \in 0 .. DEPTH - 1
<1>1. /\ log[s] \in Seq(Payload) /\ handed[s] \in Seq(Payload) /\ acked[s] \in Seq(Payload)
      /\ pending[s] \in Seq(DataFrames) /\ acks[s] \in Seq(AckFrames) /\ line[s] \in Seq(Symbol)
      /\ ackShift[s] \in 0 .. DEPTH - 1
  BY DEF TypeOK
<1> QED BY <1>1, LenProperties

\* Steps that take symbols off the lines or add SYNCs, and empty decoders.
LEMMA OnlyLosses ==
  ASSUME TypeOK, Directions,
         UNCHANGED <<pending, acks, txSeqNr, nextExp, log, handed, acked>>,
         LinesThin({"data"}), LinesThin({"ack"}),
         \A s \in Station : rxAck'[s] = rxAck[s] \/ rxAck'[s].kind # "ack",
         \A s \in Station : rxData'[s] = rxData[s] \/ rxData'[s].kind # "data"
  PROVE  Directions'
<1> SUFFICES ASSUME NEW s \in Station PROVE Direction(s)'
  BY DEF Directions
<1> DEFINE o == Other(s)
<1>1. o \in Station
  BY Stations
<1>2. /\ Counts(log[s], handed[o], acked[s], pending[s], txSeqNr[s], nextExp[o])
      /\ DataInFlight(rxData[o], line[s], log[s], Len(handed[o]))
      /\ AckInFlight(rxAck[s], line[o], acks[o], Len(acked[s]), Len(handed[o]))
  BY DEF Directions, Direction
<1>3. /\ Thins({"data"}, line'[s], line[s]) /\ Thins({"ack"}, line'[o], line[o])
      /\ rxAck'[s] = rxAck[s] \/ rxAck'[s].kind # "ack"
      /\ rxData'[o] = rxData[o] \/ rxData'[o].kind # "data"
  BY <1>1 DEF LinesThin
<1> HIDE DEF o
<1>4. DataInFlight(rxData'[o], line'[s], log[s], Len(handed[o]))
  BY <1>2, <1>3, DataThin
<1>5. AckInFlight(rxAck'[s], line'[o], acks[o], Len(acked[s]), Len(handed[o]))
  BY <1>2, <1>3, AckThin
<1> QED BY <1>2, <1>4, <1>5 DEF Direction, o

\* A reset before anything was sent only empties the decoders.
LEMMA ResetForgetsNothing ==
  ASSUME TypeOK, Directions, \A s \in Station : Untouched(s), NEW e \in Station, ResetProtocol(e)
  PROVE  /\ UNCHANGED <<pending, acks, txSeqNr, nextExp>>
         /\ rxAck' = [rxAck EXCEPT ![e] = Empty] /\ rxData' = [rxData EXCEPT ![e] = Empty]
<1> DEFINE o == Other(e)
<1>1. o \in Station /\ Other(o) = e
  BY Stations
<1>2. log[e] = <<>> /\ log[o] = <<>> /\ acks[e] = <<>>
  BY <1>1 DEF Untouched
<1>3. /\ Counts(<<>>, handed[o], acked[e], pending[e], txSeqNr[e], nextExp[o])
      /\ Counts(<<>>, handed[e], acked[o], pending[o], txSeqNr[o], nextExp[e])
  BY <1>1, <1>2 DEF Directions, Direction
<1> HIDE DEF o
<1>4. pending[e] = <<>> /\ txSeqNr[e] = 0
  BY <1>1, <1>3, DirectionTypes, NothingCounted
<1>5. nextExp[e] = 0
  BY <1>1, <1>3, DirectionTypes, NothingCounted
<1> QED BY <1>2, <1>4, <1>5 DEF TypeOK, ResetProtocol

\* The end of the handshake: what a station may forget is nothing.
Quiet == HandshakeOver \/ \A s \in Station : Untouched(s)

LEMMA TaskBeginDirections ==
  ASSUME TypeOK, Directions, Quiet, NEW e \in Station, TaskBegin(e)
  PROVE  Directions'
<1>1. LinesThin({"data"}) /\ LinesThin({"ack"})
  BY TaskBeginThin
<1>2. UNCHANGED <<log, handed, acked>>
  BY DEF TaskBegin, history
<1>3. CASE UNCHANGED <<pending, acks, txSeqNr, rxVars>>
  BY <1>1, <1>2, <1>3, OnlyLosses DEF rxVars
<1>4. CASE ~syncSent[e] /\ ResetProtocol(e)
  <2>1. \A s \in Station : Untouched(s)
    BY <1>4 DEF Quiet, HandshakeOver
  <2>2. /\ UNCHANGED <<pending, acks, txSeqNr, nextExp>>
        /\ rxAck' = [rxAck EXCEPT ![e] = Empty] /\ rxData' = [rxData EXCEPT ![e] = Empty]
    BY <1>4, <2>1, ResetForgetsNothing
  <2>3. /\ \A s \in Station : rxAck'[s] = rxAck[s] \/ rxAck'[s].kind # "ack"
        /\ \A s \in Station : rxData'[s] = rxData[s] \/ rxData'[s].kind # "data"
    BY <2>2, HeldFrames DEF TypeOK
  <2> QED BY <1>1, <1>2, <2>2, <2>3, OnlyLosses
<1> QED BY <1>3, <1>4 DEF TaskBegin

LEMMA ReceiveSyncDirections ==
  ASSUME TypeOK, Directions, Quiet, NEW e \in Station, ReceiveSync(e)
  PROVE  Directions'
<1>1. Take(e, {"sync"}) /\ UNCHANGED <<handed, acked>>
  BY DEF ReceiveSync
<1>2. LinesThin({"data"}) /\ LinesThin({"ack"}) /\ UNCHANGED log
  BY <1>1, TakeThin DEF Take
<1>3. CASE UNCHANGED <<pending, acks, txSeqNr, rxVars>>
  BY <1>1, <1>2, <1>3, OnlyLosses DEF rxVars
<1>4. CASE ResetProtocol(e)
  <2>1. ~HandshakeOver
    <3> DEFINE o == Other(e)
    <3>1. o \in Station /\ line[o] \in Seq(Symbol) /\ line[o] # <<>> /\ Head(line[o]).kind = "sync"
      BY <1>1, Stations DEF TypeOK, Take, Incoming
    <3> HIDE DEF o
    <3>2. 1 \in 1 .. Len(line[o]) /\ line[o][1].kind = "sync"
      BY <3>1, LenProperties, HeadTailProperties, EmptySeq
    <3> QED BY <3>1, <3>2 DEF HandshakeOver
  <2>2. /\ UNCHANGED <<pending, acks, txSeqNr, nextExp>>
        /\ rxAck' = [rxAck EXCEPT ![e] = Empty] /\ rxData' = [rxData EXCEPT ![e] = Empty]
    BY <1>4, <2>1, ResetForgetsNothing DEF Quiet
  <2>3. /\ \A s \in Station : rxAck'[s] = rxAck[s] \/ rxAck'[s].kind # "ack"
        /\ \A s \in Station : rxData'[s] = rxData[s] \/ rxData'[s].kind # "data"
    BY <2>2, HeldFrames DEF TypeOK
  <2> QED BY <1>1, <1>2, <2>2, <2>3, OnlyLosses
<1> QED BY <1>3, <1>4 DEF ReceiveSync
\* Station e has taken the first symbol of the other station's line.
LEMMA Taken ==
  ASSUME TypeOK, Directions, NEW e \in Station, NEW kinds, Take(e, kinds), NEW o, o = Other(e)
  PROVE  /\ o \in Station /\ e = Other(o) /\ o # e /\ \A s \in Station : s = e \/ s = o
         /\ line[o] \in Seq(Symbol) /\ line[o] # <<>> /\ Incoming(e) = line[o]
         /\ Head(line[o]).kind \in kinds
         /\ line'[o] = Tail(line[o]) /\ line'[e] = line[e] /\ log' = log
         /\ Counts(log[e], handed[o], acked[e], pending[e], txSeqNr[e], nextExp[o])
         /\ DataInFlight(rxData[o], line[e], log[e], Len(handed[o]))
         /\ AckInFlight(rxAck[e], line[o], acks[o], Len(acked[e]), Len(handed[o]))
         /\ Counts(log[o], handed[e], acked[o], pending[o], txSeqNr[o], nextExp[e])
         /\ DataInFlight(rxData[e], line[o], log[o], Len(handed[e]))
         /\ AckInFlight(rxAck[o], line[e], acks[e], Len(acked[o]), Len(handed[e]))
<1>1. o \in Station /\ e = Other(o) /\ o # e /\ \A s \in Station : s = e \/ s = o
  BY Stations
<1>2. line \in [Station -> Seq(Symbol)] /\ Incoming(e) = line[o]
  BY DEF TypeOK, Incoming
<1>3. /\ line[o] # <<>> /\ Head(line[o]).kind \in kinds
      /\ line' = [line EXCEPT ![o] = Tail(line[o])] /\ log' = log
  BY <1>2 DEF Take
<1>4. line[o] \in Seq(Symbol) /\ line'[o] = Tail(line[o]) /\ line'[e] = line[e]
  BY <1>1, <1>2, <1>3
<1>5. Direction(e) /\ Direction(o)
  BY <1>1 DEF Directions
<1> QED BY <1>1, <1>2, <1>3, <1>4, <1>5 DEF Direction

\* What has to be shown for the two directions after a step.
LEMMA BothDirections ==
  ASSUME NEW e \in Station, NEW o, o = Other(e),
         Counts(log'[e], handed'[o], acked'[e], pending'[e], txSeqNr'[e], nextExp'[o]),
         DataInFlight(rxData'[o], line'[e], log'[e], Len(handed'[o])),
         AckInFlight(rxAck'[e], line'[o], acks'[o], Len(acked'[e]), Len(handed'[o])),
         Counts(log'[o], handed'[e], acked'[o], pending'[o], txSeqNr'[o], nextExp'[e]),
         DataInFlight(rxData'[e], line'[o], log'[o], Len(handed'[e])),
         AckInFlight(rxAck'[o], line'[e], acks'[e], Len(acked'[o]), Len(handed'[e]))
  PROVE  Directions'
<1>1. e = Other(o) /\ \A s \in Station : s = e \/ s = o
  BY Stations
<1>2. Direction(e)' /\ Direction(o)'
  BY <1>1 DEF Direction
<1> QED BY <1>1, <1>2 DEF Directions

LEMMA ReceiveAckDirections ==
  ASSUME TypeOK, Directions, NEW e \in Station, ReceiveAck(e)
  PROVE  Directions'
<1> DEFINE o == Other(e)
<1>1. /\ Take(e, {"ack", "ackNoise"})
      /\ UNCHANGED <<pending, acks, txSeqNr, rxData, nextExp, handed, acked>>
  BY DEF ReceiveAck
<1>2. /\ o \in Station /\ e = Other(o) /\ o # e
      /\ line[o] \in Seq(Symbol) /\ line[o] # <<>> /\ Incoming(e) = line[o]
      /\ line'[o] = Tail(line[o]) /\ line'[e] = line[e] /\ log' = log
      /\ Counts(log[e], handed[o], acked[e], pending[e], txSeqNr[e], nextExp[o])
      /\ DataInFlight(rxData[o], line[e], log[e], Len(handed[o]))
      /\ AckInFlight(rxAck[e], line[o], acks[o], Len(acked[e]), Len(handed[o]))
      /\ Counts(log[o], handed[e], acked[o], pending[o], txSeqNr[o], nextExp[e])
      /\ DataInFlight(rxData[e], line[o], log[o], Len(handed[e]))
      /\ AckInFlight(rxAck[o], line[e], acks[e], Len(acked[o]), Len(handed[e]))
  BY <1>1, Taken
<1>3. rxAck \in [Station -> AckFrames \cup {Empty, Garbled}]
  BY DEF TypeOK
<1>o. o = Other(e)
  OBVIOUS
<1> HIDE DEF o
<1>4. rxAck' = [rxAck EXCEPT ![e] =
        IF rxAck[e] = Empty /\ Head(line[o]).kind = "ack" THEN Head(line[o]) ELSE Garbled]
  BY <1>2 DEF ReceiveAck
<1>5. CASE rxAck'[e] = Head(line[o])
  <2>1. AckInFlight(Head(line[o]), Tail(line[o]), acks[o], Len(acked[e]), Len(handed[o]))
    BY <1>2, AckTake
  <2>2. Thins({"data"}, Tail(line[o]), line[o])
    BY <1>2, TailThins
  <2>3. DataInFlight(rxData[e], Tail(line[o]), log[o], Len(handed[e]))
    BY <1>2, <2>2, DataThin
  <2>4. rxAck'[o] = rxAck[o]
    BY <1>2, <1>3, <1>4
  <2> QED BY <1>1, <1>2, <1>o, <1>5, <2>1, <2>3, <2>4, BothDirections
<1>6. CASE rxAck'[e] = Garbled
  <2>1. LinesThin({"data"}) /\ LinesThin({"ack"})
    BY <1>1, TakeThin
  <2>2. ASSUME NEW s \in Station PROVE rxAck'[s] = rxAck[s] \/ rxAck'[s].kind # "ack"
    <3>1. s # e => rxAck'[s] = rxAck[s]
      BY <1>3, <1>4
    <3> QED BY <1>6, <3>1, HeldFrames
  <2> QED BY <1>1, <1>2, <2>1, <2>2, OnlyLosses
<1> QED BY <1>3, <1>4, <1>5, <1>6

LEMMA ReceiveDataDirections ==
  ASSUME TypeOK, Directions, NEW e \in Station, ReceiveData(e)
  PROVE  Directions'
<1> DEFINE o == Other(e)
<1>1. /\ Take(e, {"data", "dataNoise"})
      /\ UNCHANGED <<pending, acks, txSeqNr, rxAck, nextExp, handed, acked>>
  BY DEF ReceiveData
<1>2. /\ o \in Station /\ e = Other(o) /\ o # e
      /\ line[o] \in Seq(Symbol) /\ line[o] # <<>> /\ Incoming(e) = line[o]
      /\ line'[o] = Tail(line[o]) /\ line'[e] = line[e] /\ log' = log
      /\ Counts(log[e], handed[o], acked[e], pending[e], txSeqNr[e], nextExp[o])
      /\ DataInFlight(rxData[o], line[e], log[e], Len(handed[o]))
      /\ AckInFlight(rxAck[e], line[o], acks[o], Len(acked[e]), Len(handed[o]))
      /\ Counts(log[o], handed[e], acked[o], pending[o], txSeqNr[o], nextExp[e])
      /\ DataInFlight(rxData[e], line[o], log[o], Len(handed[e]))
      /\ AckInFlight(rxAck[o], line[e], acks[e], Len(acked[o]), Len(handed[e]))
  BY <1>1, Taken
<1>3. rxData \in [Station -> DataFrames \cup {Empty, Garbled}]
  BY DEF TypeOK
<1>o. o = Other(e)
  OBVIOUS
<1> HIDE DEF o
<1>4. \/ rxData' = rxData
      \/ rxData' = [rxData EXCEPT ![e] =
           IF rxData[e] = Empty /\ Head(line[o]).kind = "data" THEN Head(line[o]) ELSE Garbled]
  BY <1>2 DEF ReceiveData
<1>5. CASE rxData'[e] = Head(line[o]) /\ rxData'[o] = rxData[o]
  <2>1. DataInFlight(Head(line[o]), Tail(line[o]), log[o], Len(handed[e]))
    BY <1>2, DataTake
  <2>2. Thins({"ack"}, Tail(line[o]), line[o])
    BY <1>2, TailThins
  <2>3. AckInFlight(rxAck[e], Tail(line[o]), acks[o], Len(acked[e]), Len(handed[o]))
    BY <1>2, <2>2, AckThin
  <2> QED BY <1>1, <1>2, <1>o, <1>5, <2>1, <2>3, BothDirections
<1>6. CASE \A s \in Station : rxData'[s] = rxData[s] \/ rxData'[s].kind # "data"
  <2>1. LinesThin({"data"}) /\ LinesThin({"ack"})
    BY <1>1, TakeThin
  <2> QED BY <1>1, <1>2, <1>6, <2>1, OnlyLosses
<1>7. \/ rxData'[e] = Head(line[o]) /\ rxData'[o] = rxData[o]
      \/ \A s \in Station : rxData'[s] = rxData[s] \/ rxData'[s].kind # "data"
  BY <1>2, <1>3, <1>4, HeldFrames
<1> QED BY <1>5, <1>6, <1>7

LEMMA ReceiveEndOfAckDirections ==
  ASSUME TypeOK, Directions, NEW e \in Station, ReceiveEndOfAck(e)
  PROVE  Directions'
<1> DEFINE o == Other(e)
<1>1. /\ Take(e, {"endOfAck"}) /\ UNCHANGED <<acks, txSeqNr, rxData, nextExp, handed>>
      /\ rxAck' = [rxAck EXCEPT ![e] = Empty]
  BY DEF ReceiveEndOfAck
<1>2. /\ o \in Station /\ e = Other(o) /\ o # e
      /\ line[o] \in Seq(Symbol) /\ line[o] # <<>>
      /\ line'[o] = Tail(line[o]) /\ line'[e] = line[e] /\ log' = log
      /\ Counts(log[e], handed[o], acked[e], pending[e], txSeqNr[e], nextExp[o])
      /\ DataInFlight(rxData[o], line[e], log[e], Len(handed[o]))
      /\ AckInFlight(rxAck[e], line[o], acks[o], Len(acked[e]), Len(handed[o]))
      /\ Counts(log[o], handed[e], acked[o], pending[o], txSeqNr[o], nextExp[e])
      /\ DataInFlight(rxData[e], line[o], log[o], Len(handed[e]))
      /\ AckInFlight(rxAck[o], line[e], acks[e], Len(acked[o]), Len(handed[e]))
  BY <1>1, Taken
<1>o. o = Other(e)
  OBVIOUS
<1> HIDE DEF o
<1>3. rxAck'[e] = Empty /\ rxAck'[o] = rxAck[o]
  BY <1>1, <1>2 DEF TypeOK
<1>4. CASE AckMatches(e)
  <2>1. /\ pending' = [pending EXCEPT ![e] = Tail(pending[e])]
        /\ acked' = [acked EXCEPT ![e] = Append(acked[e], Head(pending[e]).payload)]
        /\ rxAck[e].kind = "ack" /\ pending[e] # <<>> /\ Head(pending[e]).seq = rxAck[e].seq
    BY <1>4 DEF ReceiveEndOfAck, AckMatches
  <2>2. /\ pending'[e] = Tail(pending[e]) /\ pending'[o] = pending[o]
        /\ acked'[e] = Append(acked[e], Head(pending[e]).payload) /\ acked'[o] = acked[o]
    BY <1>2, <2>1 DEF TypeOK
  <2>3. /\ log[e] \in Seq(Payload) /\ handed[o] \in Seq(Payload) /\ acked[e] \in Seq(Payload)
        /\ pending[e] \in Seq(DataFrames) /\ Len(acked[e]) \in Nat /\ Len(handed[o]) \in Nat
    BY <1>2, DirectionTypes
  <2>4. AckFine(rxAck[e], Len(acked[e]), Len(handed[o]))
    BY <1>2 DEF AckInFlight
  <2>5. rxAck[e].got > Len(acked[e]) /\ Len(acked[e]) < Len(handed[o])
    BY <1>2, <2>1, <2>3, <2>4, AcceptedIsOldest
  <2>6. Counts(log[e], handed[o], acked'[e], pending'[e], txSeqNr[e], nextExp[o])
    BY <1>2, <2>1, <2>2, <2>3, <2>5, CountsAccept
  <2>7. AckInFlight(Empty, line[o], acks[o], Len(acked[e]) + 1, Len(handed[o]))
    BY <1>2, <2>1, <2>3, <2>5, AckAccept, HeldFrames
  <2>8. Len(acked'[e]) = Len(acked[e]) + 1
    <3>1. Head(pending[e]).payload \in Payload
      BY <2>1, <2>3, HeadTailProperties, HeldFrames
    <3> QED BY <2>2, <2>3, <3>1, AppendProperties
  <2>9. Thins({"ack"}, Tail(line[o]), line[o]) /\ Thins({"data"}, Tail(line[o]), line[o])
    BY <1>2, TailThins
  <2>10. AckInFlight(Empty, Tail(line[o]), acks[o], Len(acked[e]) + 1, Len(handed[o]))
    BY <2>7, <2>9, AckThin
  <2>11. DataInFlight(rxData[e], Tail(line[o]), log[o], Len(handed[e]))
    BY <1>2, <2>9, DataThin
  <2> QED BY <1>1, <1>2, <1>3, <1>o, <2>2, <2>6, <2>8, <2>10, <2>11, BothDirections
<1>5. CASE ~AckMatches(e)
  <2>1. UNCHANGED <<pending, acked>>
    BY <1>5 DEF ReceiveEndOfAck
  <2>2. LinesThin({"data"}) /\ LinesThin({"ack"})
    BY <1>1, TakeThin
  <2>3. \A s \in Station : rxAck'[s] = rxAck[s] \/ rxAck'[s].kind # "ack"
    BY <1>1, HeldFrames DEF TypeOK
  <2> QED BY <1>1, <1>2, <2>1, <2>2, <2>3, OnlyLosses
<1> QED BY <1>4, <1>5

LEMMA ReceiveEndOfDataDirections ==
  ASSUME TypeOK, Directions, NEW e \in Station, ReceiveEndOfData(e)
  PROVE  Directions'
<1> DEFINE o == Other(e)
           x == rxData[e]
           r == Len(handed[e])
           got == IF x.seq = nextExp[e] THEN r + 1 ELSE r
           ack == AckFrame(x.seq, x.no, got)
<1>1. /\ Take(e, {"endOfData"}) /\ UNCHANGED <<pending, txSeqNr, rxAck, acked>>
      /\ rxData' = [rxData EXCEPT ![e] = Empty]
  BY DEF ReceiveEndOfData
<1>2. /\ o \in Station /\ e = Other(o) /\ o # e
      /\ line[o] \in Seq(Symbol) /\ line[o] # <<>>
      /\ line'[o] = Tail(line[o]) /\ line'[e] = line[e] /\ log' = log
      /\ Counts(log[e], handed[o], acked[e], pending[e], txSeqNr[e], nextExp[o])
      /\ DataInFlight(rxData[o], line[e], log[e], Len(handed[o]))
      /\ AckInFlight(rxAck[e], line[o], acks[o], Len(acked[e]), Len(handed[o]))
      /\ Counts(log[o], handed[e], acked[o], pending[o], txSeqNr[o], nextExp[e])
      /\ DataInFlight(x, line[o], log[o], Len(handed[e]))
      /\ AckInFlight(rxAck[o], line[e], acks[e], Len(acked[o]), Len(handed[e]))
  BY <1>1, Taken
<1>3. /\ log[o] \in Seq(Payload) /\ handed[e] \in Seq(Payload) /\ acked[o] \in Seq(Payload)
      /\ pending[o] \in Seq(DataFrames) /\ acks[e] \in Seq(AckFrames) /\ Len(log[o]) \in Nat
      /\ Len(handed[e]) \in Nat /\ Len(acked[o]) \in Nat /\ ackShift[e] \in 0 .. DEPTH - 1
  BY <1>2, DirectionTypes
<1>o. o = Other(e) /\ x = rxData[e]
  OBVIOUS
<1>a. x \in DataFrames \cup {Empty, Garbled}
  BY DEF TypeOK
<1>4. rxData'[e] = Empty /\ rxData'[o] = rxData[o]
  BY <1>1, <1>2 DEF TypeOK
<1>5. Thins({"ack"}, Tail(line[o]), line[o]) /\ Thins({"data"}, Tail(line[o]), line[o])
  BY <1>2, TailThins
<1>6. AckInFlight(rxAck[e], Tail(line[o]), acks[o], Len(acked[e]), Len(handed[o]))
  BY <1>2, <1>5, AckThin
<1>7. CASE x.kind = "data"
  <2>1. Answers(e) /\ (IsExpected(e) <=> x.seq = nextExp[e])
    BY <1>7 DEF Answers, IsExpected
  <2>2. DataFine(x, log[o], r)
    BY <1>2 DEF DataInFlight
  <2>c. Counts(log[o], handed[e], acked[o], pending[o], txSeqNr[o], nextExp[e])
    BY <1>2
  <2>d. DataFine(x, log[o], Len(handed[e]))
    BY <2>2
  <2>e. ack = AckFrame(x.seq, x.no, got) /\ got = IF x.seq = nextExp[e] THEN Len(handed[e]) + 1 ELSE Len(handed[e])
    OBVIOUS
  <2> HIDE DEF o, x
  <2>g. /\ (x.seq = nextExp[e]) <=> (x.no = Len(handed[e]) + 1)
        /\ x.no = Len(handed[e]) + 1 => Len(handed[e]) < Len(log[o])
    <3> HIDE DEF ack, got
    <3> QED BY <1>3, <1>7, <2>c, <2>d, ExpectedIsNext
  <2>3. AckFine(ack, Len(acked[o]), got) /\ ack.got = got
    <3> HIDE DEF ack, got
    <3> QED BY <1>3, <1>7, <2>c, <2>d, <2>e, AnswerIsFine
  <2>4. ack \in AckFrames /\ got \in Nat
    <3>1. x \in DataFrames
      BY <1>a, <1>7, HeldFrames
    <3>2. x.seq \in SeqNr /\ x.no \in Nat /\ got \in Nat
      BY <1>3, <3>1, HeldFrames
    <3> QED BY <3>2 DEF AckFrame, AckFrames
  <2>5. CASE x.seq = nextExp[e]
    <3>1. /\ handed' = [handed EXCEPT ![e] = Append(handed[e], x.payload)]
          /\ nextExp' = [nextExp EXCEPT ![e] = NextSeq(nextExp[e])]
      BY <1>o, <2>1, <2>5 DEF ReceiveEndOfData
    <3>2. x.no = r + 1 /\ r < Len(log[o])
      BY <2>5, <2>g
    <3>3. x.payload = log[o][r + 1]
      BY <1>7, <2>2, <3>2 DEF DataFine
    <3>4. log[o][r + 1] \in Payload
      <4>1. r + 1 \in 1 .. Len(log[o])
        BY <1>3, <3>2
      <4> QED BY <1>3, <4>1, ElementOfSeq
    <3>5. /\ handed'[e] = Append(handed[e], log[o][r + 1]) /\ handed'[o] = handed[o]
          /\ nextExp'[e] = NextSeq(nextExp[e]) /\ nextExp'[o] = nextExp[o]
      BY <1>2, <3>1, <3>3 DEF TypeOK
    <3>6. Len(handed'[e]) = r + 1 /\ got = r + 1
      BY <1>3, <2>5, <3>4, <3>5, AppendProperties
    <3>7. Counts(log[o], handed'[e], acked[o], pending[o], txSeqNr[o], nextExp'[e])
      BY <1>2, <1>3, <3>2, <3>5, CountsDeliver
    <3>8. DataInFlight(Empty, line[o], log[o], r + 1)
      BY <1>2, <1>3, <1>7, <3>2, DataDeliver, HeldFrames
    <3>9. DataInFlight(Empty, Tail(line[o]), log[o], r + 1)
      BY <1>5, <3>8, DataThin
    <3>10. AckInFlight(rxAck[o], line[e], acks[e], Len(acked[o]), r + 1)
      BY <1>2, <1>3, AckDeliver
    <3>11. acks' = [acks EXCEPT ![e] = PutAck(acks[e], ackShift[e], ack)]
      BY <1>o, <2>1, <3>6 DEF ReceiveEndOfData
    <3>12. acks'[e] = PutAck(acks[e], ackShift[e], ack) /\ acks'[o] = acks[o]
      BY <1>2, <3>11 DEF TypeOK
    <3> HIDE DEF ack, got
    <3>13. AckInFlight(rxAck[o], line[e], acks'[e], Len(acked[o]), r + 1)
      BY <1>3, <2>3, <2>4, <3>6, <3>10, <3>12, AckPut
    <3> HIDE DEF r
    <3> QED BY <1>1, <1>2, <1>4, <1>6, <1>o, <3>5, <3>6, <3>7, <3>9, <3>12, <3>13, BothDirections
  <2>6. CASE x.seq # nextExp[e]
    <3>1. handed' = handed /\ nextExp' = nextExp
      BY <2>1, <2>6 DEF ReceiveEndOfData
    <3>2. got = r /\ Len(handed'[e]) = r
      BY <2>6, <3>1
    <3>3. acks' = [acks EXCEPT ![e] = PutAck(acks[e], ackShift[e], ack)]
      BY <1>o, <2>1, <3>2 DEF ReceiveEndOfData
    <3>4. acks'[e] = PutAck(acks[e], ackShift[e], ack) /\ acks'[o] = acks[o]
      BY <1>2, <3>3 DEF TypeOK
    <3>5. DataInFlight(Empty, Tail(line[o]), log[o], r)
      BY <1>2, <1>5, DataThin, HeldFrames
    <3> HIDE DEF ack, got
    <3>6. AckInFlight(rxAck[o], line[e], acks'[e], Len(acked[o]), r)
      BY <1>2, <1>3, <2>3, <2>4, <3>2, <3>4, AckPut
    <3> QED BY <1>1, <1>2, <1>4, <1>6, <1>o, <3>1, <3>4, <3>5, <3>6, BothDirections
  <2> QED BY <2>5, <2>6
<1>8. CASE x.kind # "data"
  <2>1. ~Answers(e) /\ ~IsExpected(e)
    BY <1>8 DEF Answers, IsExpected
  <2>2. UNCHANGED <<handed, nextExp, acks>>
    BY <2>1 DEF ReceiveEndOfData, TypeOK
  <2>3. LinesThin({"data"}) /\ LinesThin({"ack"})
    BY <1>1, TakeThin
  <2>4. \A s \in Station : rxData'[s] = rxData[s] \/ rxData'[s].kind # "data"
    BY <1>1, HeldFrames DEF TypeOK
  <2> QED BY <1>1, <1>2, <2>2, <2>3, <2>4, OnlyLosses
<1> QED BY <1>7, <1>8

LEMMA ReceiveNoiseDirections ==
  ASSUME TypeOK, Directions, NEW e \in Station, ReceiveNoise(e)
  PROVE  Directions'
<1>1. Take(e, {"noise"}) /\ UNCHANGED <<pending, acks, txSeqNr, rxVars, handed, acked>>
  BY DEF ReceiveNoise
<1>2. LinesThin({"data"}) /\ LinesThin({"ack"}) /\ UNCHANGED log
  BY <1>1, TakeThin DEF Take
<1> QED BY <1>1, <1>2, OnlyLosses DEF rxVars
\* Station e has put a frame on its line and flushed the decoder of ACKs.
LEMMA Transmitted ==
  ASSUME TypeOK, Directions, NEW e \in Station, NEW x \in Symbol, NEW end \in Symbol, Transmit(e, x, end),
         NEW o, o = Other(e)
  PROVE  /\ o \in Station /\ e = Other(o) /\ o # e
         /\ line[e] \in Seq(Symbol) /\ line[o] \in Seq(Symbol)
         /\ \A K \in {{"data"}, {"ack"}} : Thins(K, line'[e], line[e] \o <<x, end>>)
         /\ line'[o] = line[o]
         /\ rxAck'[e] = Empty /\ rxAck'[o] = rxAck[o]
         /\ UNCHANGED <<rxData, nextExp, handed, acked>>
         /\ Counts(log[e], handed[o], acked[e], pending[e], txSeqNr[e], nextExp[o])
         /\ DataInFlight(rxData[o], line[e], log[e], Len(handed[o]))
         /\ Counts(log[o], handed[e], acked[o], pending[o], txSeqNr[o], nextExp[e])
         /\ DataInFlight(rxData[e], line[o], log[o], Len(handed[e]))
         /\ AckInFlight(rxAck[o], line[e], acks[e], Len(acked[o]), Len(handed[e]))
         /\ AckInFlight(Empty, line[o], acks[o], Len(acked[e]), Len(handed[o]))
<1>1. o \in Station /\ e = Other(o) /\ o # e
  BY Stations
<1>2. /\ line \in [Station -> Seq(Symbol)] /\ rxAck \in [Station -> AckFrames \cup {Empty, Garbled}]
      /\ line[o] \in Seq(Symbol)
  BY <1>1 DEF TypeOK
<1>t. PICK t \in Portions(x, end) : line' = [line EXCEPT ![e] = line[e] \o t]
  BY DEF Transmit
<1>3. rxAck' = [rxAck EXCEPT ![e] = Empty] /\ UNCHANGED <<rxData, nextExp, handed, acked>>
  BY DEF Transmit, TaskEnd
<1>a. \A K \in {{"data"}, {"ack"}} : Thins(K, line[e] \o t, line[e] \o <<x, end>>)
  BY <1>2, PortionThins
<1>b. line'[e] = line[e] \o t /\ line'[o] = line[o]
  BY <1>1, <1>2, <1>t
<1>4. /\ \A K \in {{"data"}, {"ack"}} : Thins(K, line'[e], line[e] \o <<x, end>>)
      /\ line'[o] = line[o] /\ rxAck'[e] = Empty /\ rxAck'[o] = rxAck[o]
  BY <1>1, <1>2, <1>3, <1>a, <1>b
<1>5. Direction(e) /\ Direction(o)
  BY <1>1 DEF Directions
<1>6. AckInFlight(rxAck[e], line[o], acks[o], Len(acked[e]), Len(handed[o]))
  BY <1>1, <1>5 DEF Direction
<1>7. Thins({"ack"}, line[o], line[o])
  BY <1>2, ThinsSelf
<1>8. AckInFlight(Empty, line[o], acks[o], Len(acked[e]), Len(handed[o]))
  BY <1>6, <1>7, AckThin, HeldFrames
<1> QED BY <1>1, <1>2, <1>3, <1>4, <1>5, <1>8 DEF Direction

LEMMA TransmitAckDirections ==
  ASSUME TypeOK, Directions, NEW e \in Station, TransmitAck(e)
  PROVE  Directions'
<1> DEFINE o == Other(e)
           x == Head(acks[e])
<1>1. /\ Transmit(e, x, EndOfAck) /\ acks[e] # <<>>
      /\ acks' = [acks EXCEPT ![e] = Tail(acks[e])]
      /\ UNCHANGED <<pending, txSeqNr, log>>
  BY DEF TransmitAck
<1>3. acks[e] \in Seq(AckFrames) /\ x \in AckFrames
  <2>1. acks[e] \in Seq(AckFrames)
    BY DEF TypeOK
  <2> QED BY <1>1, <2>1, HeadTailProperties
<1>s. x \in Symbol /\ EndOfAck \in Symbol
  BY <1>3, PlainSymbols
<1>2. /\ o \in Station /\ e = Other(o) /\ o # e
      /\ line[e] \in Seq(Symbol) /\ line[o] \in Seq(Symbol)
      /\ \A K \in {{"data"}, {"ack"}} : Thins(K, line'[e], line[e] \o <<x, EndOfAck>>)
      /\ line'[o] = line[o]
      /\ rxAck'[e] = Empty /\ rxAck'[o] = rxAck[o]
      /\ UNCHANGED <<rxData, nextExp, handed, acked>>
      /\ Counts(log[e], handed[o], acked[e], pending[e], txSeqNr[e], nextExp[o])
      /\ DataInFlight(rxData[o], line[e], log[e], Len(handed[o]))
      /\ Counts(log[o], handed[e], acked[o], pending[o], txSeqNr[o], nextExp[e])
      /\ DataInFlight(rxData[e], line[o], log[o], Len(handed[e]))
      /\ AckInFlight(rxAck[o], line[e], acks[e], Len(acked[o]), Len(handed[e]))
      /\ AckInFlight(Empty, line[o], acks[o], Len(acked[e]), Len(handed[o]))
  BY <1>1, <1>s, Transmitted
<1>4. acks'[e] = Tail(acks[e]) /\ acks'[o] = acks[o]
  BY <1>1, <1>2 DEF TypeOK
<1>5. AckInFlight(rxAck[o], line[e] \o <<x, EndOfAck>>, Tail(acks[e]), Len(acked[o]), Len(handed[e]))
  BY <1>1, <1>2, <1>3, PlainSymbols, AckSend
<1>o. o = Other(e)
  OBVIOUS
<1> HIDE DEF o, x
<1>6. Thins({"data"}, line[e] \o <<x, EndOfAck>>, line[e])
  <2>1. x \in Symbol /\ x.kind # "data" /\ EndOfAck \in Symbol /\ EndOfAck.kind # "data"
    BY <1>3, PlainSymbols, HeldFrames
  <2> QED BY <1>2, <2>1, TwoAppendedThins
<1>7. DataInFlight(rxData[o], line[e] \o <<x, EndOfAck>>, log[e], Len(handed[o]))
  BY <1>2, <1>6, DataThin
<1>8. DataInFlight(rxData[o], line'[e], log[e], Len(handed[o]))
  BY <1>2, <1>7, DataThin
<1>9. AckInFlight(rxAck[o], line'[e], Tail(acks[e]), Len(acked[o]), Len(handed[e]))
  BY <1>2, <1>5, AckThin
<1> QED BY <1>1, <1>2, <1>4, <1>8, <1>9, <1>o, BothDirections

LEMMA RetransmitDirections ==
  ASSUME TypeOK, Directions, NEW e \in Station, Retransmit(e)
  PROVE  Directions'
<1> DEFINE o == Other(e)
           x == Head(pending[e])
<1>1. /\ Transmit(e, x, EndOfData) /\ pending[e] # <<>>
      /\ UNCHANGED <<acks, pending, txSeqNr, log>>
  BY DEF Retransmit, schedulerVars
<1>p. pending[e] \in Seq(DataFrames) /\ x \in DataFrames
  <2>1. pending[e] \in Seq(DataFrames)
    BY DEF TypeOK
  <2> QED BY <1>1, <2>1, HeadTailProperties
<1>s. x \in Symbol /\ EndOfData \in Symbol
  BY <1>p, PlainSymbols
<1>2. /\ o \in Station /\ e = Other(o) /\ o # e
      /\ line[e] \in Seq(Symbol) /\ line[o] \in Seq(Symbol)
      /\ \A K \in {{"data"}, {"ack"}} : Thins(K, line'[e], line[e] \o <<x, EndOfData>>)
      /\ line'[o] = line[o]
      /\ rxAck'[e] = Empty /\ rxAck'[o] = rxAck[o]
      /\ UNCHANGED <<rxData, nextExp, handed, acked>>
      /\ Counts(log[e], handed[o], acked[e], pending[e], txSeqNr[e], nextExp[o])
      /\ DataInFlight(rxData[o], line[e], log[e], Len(handed[o]))
      /\ Counts(log[o], handed[e], acked[o], pending[o], txSeqNr[o], nextExp[e])
      /\ DataInFlight(rxData[e], line[o], log[o], Len(handed[e]))
      /\ AckInFlight(rxAck[o], line[e], acks[e], Len(acked[o]), Len(handed[e]))
      /\ AckInFlight(Empty, line[o], acks[o], Len(acked[e]), Len(handed[o]))
  BY <1>1, <1>s, Transmitted
<1>3. /\ log[e] \in Seq(Payload) /\ handed[o] \in Seq(Payload) /\ acked[e] \in Seq(Payload)
      /\ pending[e] \in Seq(DataFrames) /\ Len(log[e]) \in Nat
  BY <1>2, DirectionTypes
<1>5. DataFine(x, log[e], Len(handed[o])) /\ x.no \in Nat /\ Len(log[e]) < x.no + DEPTH
  BY <1>1, <1>2, <1>3, OldestIsFine
<1>o. o = Other(e)
  OBVIOUS
<1> HIDE DEF o, x
<1>6. /\ x \in Symbol /\ x.kind # "ack" /\ EndOfData \in Symbol
      /\ EndOfData.kind # "ack" /\ EndOfData.kind # "data"
  BY <1>p, PlainSymbols, HeldFrames
<1>7. DataInFlight(rxData[o], line[e] \o <<x, EndOfData>>, log[e], Len(handed[o]))
  BY <1>2, <1>3, <1>5, <1>6, DataSend
<1>8. Thins({"ack"}, line[e] \o <<x, EndOfData>>, line[e])
  BY <1>2, <1>6, TwoAppendedThins
<1>9. AckInFlight(rxAck[o], line[e] \o <<x, EndOfData>>, acks[e], Len(acked[o]), Len(handed[e]))
  BY <1>2, <1>8, AckThin
<1>10. DataInFlight(rxData[o], line'[e], log[e], Len(handed[o]))
  BY <1>2, <1>7, DataThin
<1>11. AckInFlight(rxAck[o], line'[e], acks[e], Len(acked[o]), Len(handed[e]))
  BY <1>2, <1>9, AckThin
<1> QED BY <1>1, <1>2, <1>10, <1>11, <1>o, BothDirections

LEMMA ComposeDirections ==
  ASSUME TypeOK, Directions, NEW e \in Station, NEW ch \in Channel, Compose(e, ch)
  PROVE  Directions'
<1> DEFINE o == Other(e)
           x == ComposedFrame(e, ch)
           payload == Composed(e, ch)
           all == Append(log[e], payload)
<1>1. /\ Transmit(e, x, EndOfData) /\ HasSlot(e)
      /\ pending' = [pending EXCEPT ![e] = Append(pending[e], x)]
      /\ log' = [log EXCEPT ![e] = all]
      /\ txSeqNr' = [txSeqNr EXCEPT ![e] = NextSeq(txSeqNr[e])]
      /\ payload \in Payload /\ x \in DataFrames
  BY ComposeStep
<1>s. x \in Symbol /\ EndOfData \in Symbol
  BY <1>1, PlainSymbols
<1>2. /\ o \in Station /\ e = Other(o) /\ o # e
      /\ line[e] \in Seq(Symbol) /\ line[o] \in Seq(Symbol)
      /\ \A K \in {{"data"}, {"ack"}} : Thins(K, line'[e], line[e] \o <<x, EndOfData>>)
      /\ line'[o] = line[o]
      /\ rxAck'[e] = Empty /\ rxAck'[o] = rxAck[o]
      /\ UNCHANGED <<rxData, nextExp, handed, acked>>
      /\ Counts(log[e], handed[o], acked[e], pending[e], txSeqNr[e], nextExp[o])
      /\ DataInFlight(rxData[o], line[e], log[e], Len(handed[o]))
      /\ Counts(log[o], handed[e], acked[o], pending[o], txSeqNr[o], nextExp[e])
      /\ DataInFlight(rxData[e], line[o], log[o], Len(handed[e]))
      /\ AckInFlight(rxAck[o], line[e], acks[e], Len(acked[o]), Len(handed[e]))
      /\ AckInFlight(Empty, line[o], acks[o], Len(acked[e]), Len(handed[o]))
  BY <1>1, <1>s, Transmitted
<1>3. /\ log[e] \in Seq(Payload) /\ handed[o] \in Seq(Payload) /\ acked[e] \in Seq(Payload)
      /\ pending[e] \in Seq(DataFrames) /\ Len(log[e]) \in Nat
  BY <1>2, DirectionTypes
<1>4. acks' = acks /\ Len(pending[e]) < DEPTH
  BY <1>1 DEF Compose, HasSlot
<1>5. x = DataFrame(txSeqNr[e], Len(log[e]) + 1, payload)
  BY DEF ComposedFrame
<1>o. o = Other(e) /\ all = Append(log[e], payload)
  OBVIOUS
<1> HIDE DEF o, x, payload, all
<1>6. /\ pending'[e] = Append(pending[e], x) /\ pending'[o] = pending[o]
      /\ log'[e] = all /\ log'[o] = log[o]
      /\ txSeqNr'[e] = NextSeq(txSeqNr[e]) /\ txSeqNr'[o] = txSeqNr[o]
  BY <1>1, <1>2 DEF TypeOK
<1>7. Counts(all, handed[o], acked[e], pending'[e], txSeqNr'[e], nextExp[o])
  <2>1. Counts(log[e], handed[o], acked[e], pending[e], txSeqNr[e], nextExp[o])
    BY <1>2
  <2>2. payload \in Payload /\ x \in DataFrames
    BY <1>1
  <2>3. Counts(Append(log[e], payload), handed[o], acked[e], Append(pending[e], x),
               NextSeq(txSeqNr[e]), nextExp[o])
    BY <1>3, <1>4, <1>5, <2>1, <2>2, CountsCompose
  <2> QED BY <1>6, <1>o, <2>3
<1>8. DataFine(x, all, Len(handed[o])) /\ x.no \in Nat /\ Len(all) < x.no + DEPTH
  BY <1>1, <1>2, <1>3, <1>5, <1>o, ComposedIsFine
<1>9. DataInFlight(rxData[o], line[e], all, Len(handed[o]))
  BY <1>1, <1>2, <1>3, <1>o, DataCompose
<1>10. /\ x \in Symbol /\ x.kind # "ack" /\ EndOfData \in Symbol
       /\ EndOfData.kind # "ack" /\ EndOfData.kind # "data"
  BY <1>1, PlainSymbols, HeldFrames
<1>11. Len(all) \in Nat
  BY <1>1, <1>3, <1>o, AppendProperties
<1>12. DataInFlight(rxData[o], line[e] \o <<x, EndOfData>>, all, Len(handed[o]))
  BY <1>2, <1>8, <1>9, <1>10, <1>11, DataSend
<1>13. Thins({"ack"}, line[e] \o <<x, EndOfData>>, line[e])
  BY <1>2, <1>10, TwoAppendedThins
<1>14. AckInFlight(rxAck[o], line[e] \o <<x, EndOfData>>, acks[e], Len(acked[o]), Len(handed[e]))
  BY <1>2, <1>13, AckThin
<1>15. DataInFlight(rxData[o], line'[e], all, Len(handed[o]))
  BY <1>2, <1>12, DataThin
<1>16. AckInFlight(rxAck[o], line'[e], acks[e], Len(acked[o]), Len(handed[e]))
  BY <1>2, <1>14, AckThin
<1> QED BY <1>2, <1>4, <1>6, <1>7, <1>15, <1>16, <1>o, BothDirections

-----------------------------------------------------------------------------
\* The handshake ends once, and until then nothing is sent.

LEMMA OverStaysOver ==
  ASSUME TypeOK, HandshakeOver, LinesThin({"sync"}), \A s \in Station : syncSent[s] => syncSent'[s]
  PROVE  HandshakeOver'
<1>1. ASSUME NEW s \in Station, NEW i \in 1 .. Len(line'[s]) PROVE line'[s][i].kind # "sync"
  <2>1. PICK f \in [1 .. Len(line'[s]) -> Nat] :
          \A p \in 1 .. Len(line'[s]) :
            line'[s][p].kind \in {"sync"} => f[p] \in 1 .. Len(line[s]) /\ line'[s][p] = line[s][f[p]]
    BY DEF LinesThin, Thins
  <2>2. \A j \in 1 .. Len(line[s]) : line[s][j].kind # "sync"
    BY DEF HandshakeOver
  <2> QED BY <2>1, <2>2
<1> QED BY <1>1 DEF HandshakeOver

LEMMA UntouchedStays ==
  ASSUME TypeOK, \A s \in Station : Untouched(s), LinesThin({"data"}), LinesThin({"ack"}),
         UNCHANGED <<log, acks, txCount>>,
         \A s \in Station : rxAck'[s].kind # "ack" /\ rxData'[s].kind # "data"
  PROVE  \A s \in Station : Untouched(s)'
<1> SUFFICES ASSUME NEW s \in Station PROVE Untouched(s)'
  OBVIOUS
<1>1. Untouched(s)
  OBVIOUS
<1>2. ASSUME NEW k \in {"data", "ack"}, NEW i \in 1 .. Len(line'[s]) PROVE line'[s][i].kind # k
  <2>1. PICK f \in [1 .. Len(line'[s]) -> Nat] :
          \A p \in 1 .. Len(line'[s]) :
            line'[s][p].kind = k => f[p] \in 1 .. Len(line[s]) /\ line'[s][p] = line[s][f[p]]
    BY DEF LinesThin, Thins
  <2>2. \A j \in 1 .. Len(line[s]) : line[s][j].kind # k
    BY <1>1 DEF Untouched
  <2> QED BY <2>1, <2>2
<1> QED BY <1>1, <1>2 DEF Untouched

LEMMA NothingReady ==
  ASSUME TypeOK, Directions, \A s \in Station : Untouched(s), NEW e \in Station
  PROVE  acks[e] = <<>> /\ pending[e] = <<>> /\ \A ch \in Channel : ~IsReady(e, ch)
<1> DEFINE o == Other(e)
<1>1. acks[e] = <<>> /\ log[e] = <<>> /\ \A ch \in Channel : txCount[e][ch] = 0
  BY DEF Untouched
<1>2. o \in Station /\ Counts(<<>>, handed[o], acked[e], pending[e], txSeqNr[e], nextExp[o])
  BY <1>1, Stations DEF Directions, Direction
<1> HIDE DEF o
<1>3. pending[e] = <<>>
  BY <1>2, DirectionTypes, NothingCounted
<1>4. \A ch \in Channel : ~IsReady(e, ch)
  BY <1>1, LinkConstants DEF IsReady, Ready
<1> QED BY <1>1, <1>3, <1>4

\* A symbol of a line that carries no frames yet.
LEMMA NoFrameTaken ==
  ASSUME TypeOK, Directions, \A s \in Station : Untouched(s), NEW e \in Station, NEW kinds, Take(e, kinds)
  PROVE  Head(Incoming(e)).kind \notin {"data", "ack"}
<1> DEFINE o == Other(e)
<1>1. o \in Station /\ line[o] \in Seq(Symbol) /\ line[o] # <<>> /\ Incoming(e) = line[o]
  BY Stations DEF TypeOK, Take, Incoming
<1> HIDE DEF o
<1>2. 1 \in 1 .. Len(line[o]) /\ Head(line[o]) = line[o][1]
  BY <1>1, LenProperties, HeadTailProperties, EmptySeq
<1> QED BY <1>1, <1>2 DEF Untouched

LEMMA QuietTaskBegin ==
  ASSUME TypeOK, Directions, Quiet, NEW e \in Station, TaskBegin(e)
  PROVE  Quiet'
<1>1. CASE HandshakeOver
  <2>1. syncSent[e] /\ UNCHANGED syncSent
    BY <1>1 DEF HandshakeOver, TaskBegin
  <2>2. LinesThin({"sync"})
    BY <2>1, TaskBeginThin
  <2> QED BY <1>1, <2>1, <2>2, OverStaysOver DEF Quiet
<1>2. CASE \A s \in Station : Untouched(s)
  <2>1. LinesThin({"data"}) /\ LinesThin({"ack"})
    BY TaskBeginThin
  <2>2. \/ UNCHANGED <<acks, rxAck, rxData>>
        \/ /\ UNCHANGED acks
           /\ rxAck' = [rxAck EXCEPT ![e] = Empty] /\ rxData' = [rxData EXCEPT ![e] = Empty]
    BY <1>2, ResetForgetsNothing DEF TaskBegin, rxVars
  <2>3. \A s \in Station : rxAck'[s].kind # "ack" /\ rxData'[s].kind # "data"
    <3>1. \A s \in Station : rxAck[s].kind # "ack" /\ rxData[s].kind # "data"
      BY <1>2 DEF Untouched
    <3>2. Empty.kind # "ack" /\ Empty.kind # "data"
      BY HeldFrames
    <3>3. \A s \in Station : rxAck'[s] \in {rxAck[s], Empty} /\ rxData'[s] \in {rxData[s], Empty}
      BY <2>2 DEF TypeOK
    <3> QED BY <3>1, <3>2, <3>3
  <2>4. UNCHANGED <<log, txCount, acks>>
    BY <2>2 DEF TaskBegin, history, channelVars
  <2> QED BY <1>2, <2>1, <2>3, <2>4, UntouchedStays DEF Quiet
<1> QED BY <1>1, <1>2 DEF Quiet

LEMMA QuietReceive ==
  ASSUME TypeOK, Directions, Quiet, NEW e \in Station, Receive(e)
  PROVE  Quiet'
<1>1. PICK kinds : Take(e, kinds)
  BY DEF Receive, ReceiveSync, ReceiveAck, ReceiveEndOfAck, ReceiveData, ReceiveEndOfData, ReceiveNoise
<1>2. LinesThin({"data"}) /\ LinesThin({"ack"}) /\ LinesThin({"sync"})
  BY <1>1, TakeThin
<1>3. UNCHANGED <<syncSent, log, txCount>>
  BY <1>1 DEF Take, channelVars
<1>4. CASE HandshakeOver
  BY <1>2, <1>3, <1>4, OverStaysOver DEF Quiet
<1>5. CASE \A s \in Station : Untouched(s)
  <2>1. Head(Incoming(e)).kind \notin {"data", "ack"}
    BY <1>1, <1>5, NoFrameTaken
  <2>2. /\ rxAck \in [Station -> AckFrames \cup {Empty, Garbled}]
        /\ rxData \in [Station -> DataFrames \cup {Empty, Garbled}]
        /\ acks \in [Station -> Seq(AckFrames)]
        /\ \A s \in Station : rxAck[s].kind # "ack" /\ rxData[s].kind # "data"
    BY <1>5 DEF TypeOK, Untouched
  <2>3. ASSUME UNCHANGED acks,
               \/ UNCHANGED rxAck
               \/ rxAck' = [rxAck EXCEPT ![e] = Empty] \/ rxAck' = [rxAck EXCEPT ![e] = Garbled],
               \/ UNCHANGED rxData
               \/ rxData' = [rxData EXCEPT ![e] = Empty] \/ rxData' = [rxData EXCEPT ![e] = Garbled]
        PROVE  Quiet'
    <3>1. \A s \in Station : rxAck'[s].kind # "ack" /\ rxData'[s].kind # "data"
      BY <2>2, <2>3, HeldFrames
    <3> QED BY <1>2, <1>3, <1>5, <2>3, <3>1, UntouchedStays DEF Quiet
  <2>4. CASE ReceiveSync(e)
    <3>1. UNCHANGED <<acks, rxAck, rxData>> \/ ResetProtocol(e)
      BY <2>4 DEF ReceiveSync, rxVars
    <3> QED BY <1>5, <2>3, <3>1, ResetForgetsNothing
  <2>5. CASE ReceiveAck(e)
    BY <2>1, <2>3, <2>5 DEF ReceiveAck
  <2>6. CASE ReceiveEndOfAck(e)
    BY <2>3, <2>6 DEF ReceiveEndOfAck
  <2>7. CASE ReceiveData(e)
    BY <2>1, <2>3, <2>7 DEF ReceiveData
  <2>8. CASE ReceiveEndOfData(e)
    <3>1. ~Answers(e)
      BY <2>2 DEF Answers
    <3>2. acks' = [acks EXCEPT ![e] = acks[e]] /\ UNCHANGED rxAck /\ rxData' = [rxData EXCEPT ![e] = Empty]
      BY <2>8, <3>1 DEF ReceiveEndOfData
    <3>3. UNCHANGED acks
      BY <2>2, <3>2
    <3> QED BY <2>3, <3>2, <3>3
  <2>9. CASE ReceiveNoise(e)
    BY <2>3, <2>9 DEF ReceiveNoise, rxVars
  <2> QED BY <2>4, <2>5, <2>6, <2>7, <2>8, <2>9 DEF Receive
<1> QED BY <1>4, <1>5 DEF Quiet
\* A frame is transmitted only when the handshake is over.
LEMMA QuietTransmission ==
  ASSUME TypeOK, Directions, Quiet, NEW e \in Station, DoTransmission(e)
  PROVE  Quiet'
<1>1. UNCHANGED <<syncSent, rxData>>
  BY DEF DoTransmission, NewTransmission, GateClosed, NothingToSend, TransmitAck, Retransmit, Compose,
         Transmit, TaskEnd
<1>2. CASE GateClosed(e) \/ NothingToSend(e)
  <2>1. UNCHANGED <<line, log, acks, txCount, rxAck>>
    BY <1>2 DEF GateClosed, NothingToSend, schedulerVars
  <2>2. LinesThin({"data"}) /\ LinesThin({"ack"}) /\ LinesThin({"sync"})
    BY <2>1, LinesSame
  <2>3. CASE HandshakeOver
    BY <1>1, <2>2, <2>3, OverStaysOver DEF Quiet
  <2>4. CASE \A s \in Station : Untouched(s)
    <3>1. \A s \in Station : rxAck'[s].kind # "ack" /\ rxData'[s].kind # "data"
      BY <1>1, <2>1, <2>4 DEF Untouched
    <3> QED BY <2>1, <2>2, <2>4, <3>1, UntouchedStays DEF Quiet
  <2> QED BY <2>3, <2>4 DEF Quiet
<1>3. CASE NewTransmission(e)
  <2>1. HandshakeOver
    <3>1. ASSUME \A s \in Station : Untouched(s) PROVE FALSE
      <4>1. acks[e] = <<>> /\ pending[e] = <<>> /\ \A ch \in Channel : ~IsReady(e, ch)
        BY <3>1, NothingReady
      <4> QED BY <1>3, <4>1 DEF NewTransmission, TransmitAck, Retransmit, Compose, IsFirstReady
    <3> QED BY <3>1 DEF Quiet
  <2>2. PICK x, end : Transmit(e, x, end) /\ x \in DataFrames \cup AckFrames /\ end \in {EndOfData, EndOfAck}
    <3>1. CASE TransmitAck(e)
      <4>1. acks[e] \in Seq(AckFrames) /\ acks[e] # <<>> /\ Transmit(e, Head(acks[e]), EndOfAck)
        BY <3>1 DEF TypeOK, TransmitAck
      <4>2. Head(acks[e]) \in AckFrames
        BY <4>1, HeadTailProperties
      <4> QED BY <4>1, <4>2
    <3>2. CASE Retransmit(e)
      <4>1. pending[e] \in Seq(DataFrames) /\ pending[e] # <<>> /\ Transmit(e, Head(pending[e]), EndOfData)
        BY <3>2 DEF TypeOK, Retransmit
      <4>2. Head(pending[e]) \in DataFrames
        BY <4>1, HeadTailProperties
      <4> QED BY <4>1, <4>2
    <3>3. ASSUME NEW ch \in Channel, Compose(e, ch)
          PROVE  \E x, end : Transmit(e, x, end) /\ x \in DataFrames \cup AckFrames /\ end \in {EndOfData, EndOfAck}
      BY <3>3, ComposeStep
    <3> QED BY <1>3, <3>1, <3>2, <3>3 DEF NewTransmission
  <2>3. x \in Symbol /\ end \in Symbol /\ x.kind # "sync" /\ end.kind # "sync"
    BY <2>2, PlainSymbols, HeldFrames
  <2>4. LinesThin({"sync"})
    BY <2>2, <2>3, TransmitThin
  <2> QED BY <1>1, <2>1, <2>4, OverStaysOver DEF Quiet
<1> QED BY <1>2, <1>3 DEF DoTransmission

LEMMA QuietElse ==
  ASSUME TypeOK, Quiet, LinesThin({"data"}), LinesThin({"ack"}), LinesThin({"sync"}),
         UNCHANGED <<syncSent, log, acks, rxAck, rxData>>, HandshakeOver \/ UNCHANGED txCount
  PROVE  Quiet'
<1>1. CASE HandshakeOver
  BY <1>1, OverStaysOver DEF Quiet
<1>2. CASE (\A s \in Station : Untouched(s)) /\ UNCHANGED txCount
  <2>1. \A s \in Station : rxAck'[s].kind # "ack" /\ rxData'[s].kind # "data"
    BY <1>2 DEF Untouched
  <2> QED BY <1>2, <2>1, UntouchedStays DEF Quiet
<1> QED BY <1>1, <1>2 DEF Quiet

-----------------------------------------------------------------------------
\* The invariant.

LEMMA LinkInvInit == Init => LinkInv
<1> SUFFICES ASSUME Init PROVE LinkInv
  OBVIOUS
<1>1. \A s \in Station : Untouched(s)
  BY HeldFrames DEF Init, Untouched
<1>2. ASSUME NEW s \in Station PROVE Direction(s)
  <2>1. Other(s) \in Station
    BY Stations
  <2>2. /\ log[s] = <<>> /\ handed[Other(s)] = <<>> /\ acked[s] = <<>> /\ pending[s] = <<>>
        /\ txSeqNr[s] = 0 /\ nextExp[Other(s)] = 0 /\ line[s] = <<>> /\ line[Other(s)] = <<>>
        /\ acks[Other(s)] = <<>> /\ rxAck[s] = Empty /\ rxData[Other(s)] = Empty
    BY <2>1 DEF Init
  <2>3. Counts(<<>>, <<>>, <<>>, <<>>, 0, 0)
    <3>1. 0 % SEQ_MOD = 0
      <4>1. 0 = SEQ_MOD * 0 + 0 /\ 0 \in 0 .. SEQ_MOD - 1
        BY LinkConstants
      <4> QED BY <4>1, LinkConstants, Remainder
    <3> QED BY <3>1, LinkConstants, EmptySeq DEF Counts
  <2>4. DataInFlight(Empty, <<>>, <<>>, 0) /\ AckInFlight(Empty, <<>>, <<>>, 0, 0)
    BY HeldFrames DEF DataInFlight, AckInFlight, DataFine, AckFine
  <2>5. Len(<<>>) = 0
    OBVIOUS
  <2> QED BY <2>2, <2>3, <2>4, <2>5 DEF Direction
<1> QED BY <1>1, <1>2 DEF LinkInv

LEMMA LinkInvStep == TypeOK /\ LinkInv /\ [QuietNext]_vars => LinkInv'
<1> SUFFICES ASSUME TypeOK, LinkInv, [QuietNext]_vars PROVE Directions' /\ Quiet'
  BY DEF LinkInv, Directions, Quiet
<1>0. Directions /\ Quiet
  BY DEF LinkInv, Directions, Quiet
<1>1. CASE UNCHANGED vars
  <2>1. UNCHANGED <<syncSent, txCount, pending, acks, txSeqNr, rxAck, rxData, nextExp, line, log, handed, acked>>
    BY <1>1 DEF vars, channelVars, schedulerVars, rxVars, history
  <2>2. LinesThin({"data"}) /\ LinesThin({"ack"}) /\ LinesThin({"sync"})
    BY <2>1, LinesSame
  <2> QED BY <1>0, <2>1, <2>2, OnlyLosses, QuietElse
<1>2. ASSUME NEW e \in Station, HandshakeOver, AnySend(e) PROVE Directions' /\ Quiet'
  <2>1. UNCHANGED <<syncSent, pending, acks, txSeqNr, rxAck, rxData, nextExp, line, log, handed, acked>>
    BY <1>2 DEF AnySend, Send, schedulerVars, rxVars, history
  <2>2. LinesThin({"data"}) /\ LinesThin({"ack"}) /\ LinesThin({"sync"})
    BY <2>1, LinesSame
  <2> QED BY <1>0, <1>2, <2>1, <2>2, OnlyLosses, QuietElse
<1>3. ASSUME NEW e \in Station, TaskBegin(e) PROVE Directions' /\ Quiet'
  BY <1>0, <1>3, TaskBeginDirections, QuietTaskBegin
<1>4. ASSUME NEW e \in Station, Receive(e) PROVE Directions' /\ Quiet'
  BY <1>0, <1>4, ReceiveSyncDirections, ReceiveAckDirections, ReceiveEndOfAckDirections,
     ReceiveDataDirections, ReceiveEndOfDataDirections, ReceiveNoiseDirections, QuietReceive DEF Receive
<1>5. ASSUME NEW e \in Station, DoTransmission(e) PROVE Directions' /\ Quiet'
  <2>1. CASE GateClosed(e) \/ NothingToSend(e)
    <3>1. UNCHANGED <<pending, acks, txSeqNr, rxAck, rxData, nextExp, line, log, handed, acked>>
      BY <2>1 DEF GateClosed, NothingToSend, TaskEnd, schedulerVars
    <3>2. LinesThin({"data"}) /\ LinesThin({"ack"})
      BY <3>1, LinesSame
    <3>3. Directions'
      BY <1>0, <3>1, <3>2, OnlyLosses
    <3> QED BY <1>0, <1>5, <3>3, QuietTransmission
  <2>2. CASE NewTransmission(e)
    BY <1>0, <1>5, <2>2, TransmitAckDirections, RetransmitDirections, ComposeDirections,
       QuietTransmission DEF NewTransmission
  <2> QED BY <1>5, <2>1, <2>2 DEF DoTransmission
<1>6. ASSUME NEW e \in Station, NEW i \in 1 .. Len(line[e]), LineError(e, i) PROVE Directions' /\ Quiet'
  <2>1. LinesThin({"data"}) /\ LinesThin({"ack"}) /\ LinesThin({"sync"})
    BY <1>6, LineErrorThin
  <2>2. UNCHANGED <<syncSent, txCount, pending, acks, txSeqNr, rxAck, rxData, nextExp, log, handed, acked>>
    BY <1>6 DEF LineError, channelVars, schedulerVars, rxVars, history
  <2> QED BY <1>0, <2>1, <2>2, OnlyLosses, QuietElse
<1>7. ASSUME NEW e \in Station, Reopen(e) PROVE Directions' /\ Quiet'
  <2>1. LinesThin({"data"}) /\ LinesThin({"ack"}) /\ LinesThin({"sync"})
    BY <1>7, ReopenThin
  <2>2. UNCHANGED <<syncSent, txCount, pending, acks, txSeqNr, rxAck, rxData, nextExp, log, handed, acked>>
    BY <1>7 DEF Reopen, channelVars, schedulerVars, rxVars, history
  <2> QED BY <1>0, <2>1, <2>2, OnlyLosses, QuietElse
<1> QED BY <1>1, <1>2, <1>3, <1>4, <1>5, <1>6, <1>7 DEF QuietNext, TaskStep

LEMMA QuietIsNext == [QuietNext]_vars => [Next]_vars
BY DEF QuietNext, Next

\* LinkInv of Slay2Link: window, counters and frames on their way agree in both
\* directions in every state, which is why equal numbers name equal frames.
THEOREM LinkInvariant == QuietSpec => [](TypeOK /\ LinkInv)
<1>1. Init => TypeOK /\ LinkInv
  BY LinkTypeInit, LinkInvInit
<1>2. TypeOK /\ LinkInv /\ [QuietNext]_vars => (TypeOK /\ LinkInv)'
  BY LinkTypeStep, LinkInvStep, QuietIsNext
<1> QED BY <1>1, <1>2, PTL DEF QuietSpec

\* DeliveredInOrder of Slay2Link: what a station's application has received is what
\* the other station has composed so far, in that order, nothing missing and nothing
\* twice, however many turns the sequence numbers have made.
THEOREM FramesDeliveredInOrder == QuietSpec => []DeliveredInOrder
<1>1. TypeOK /\ LinkInv => DeliveredInOrder
  <2> SUFFICES ASSUME TypeOK, LinkInv, NEW e \in Station
               PROVE  IsPrefixOf(handed[Other(e)], log[e])
    BY DEF DeliveredInOrder
  <2>1. Counts(log[e], handed[Other(e)], acked[e], pending[e], txSeqNr[e], nextExp[Other(e)])
    BY DEF LinkInv, Direction
  <2> QED BY <2>1 DEF Counts, IsPrefixOf
<1> QED BY <1>1, LinkInvariant, PTL

\* AckedWasHanded of Slay2Link: a frame that an ACK has taken off the window of the
\* sender has been handed to the application of the receiver.
THEOREM AcknowledgedMeansHanded == QuietSpec => []AckedWasHanded
<1>1. TypeOK /\ LinkInv => AckedWasHanded
  <2> SUFFICES ASSUME TypeOK, LinkInv, NEW e \in Station, NEW i \in 1 .. Len(acked[e])
               PROVE  \E j \in 1 .. Len(handed[Other(e)]) : handed[Other(e)][j] = acked[e][i]
    BY DEF AckedWasHanded
  <2> DEFINE o == Other(e)
  <2>1. o \in Station /\ Counts(log[e], handed[o], acked[e], pending[e], txSeqNr[e], nextExp[o])
    BY Stations DEF LinkInv, Direction
  <2> HIDE DEF o
  <2>2. Len(acked[e]) \in Nat /\ Len(handed[o]) \in Nat
    BY <2>1, DirectionTypes
  <2>3. /\ Len(acked[e]) <= Len(handed[o])
        /\ \A n \in 1 .. Len(handed[o]) : handed[o][n] = log[e][n]
        /\ \A n \in 1 .. Len(acked[e]) : acked[e][n] = log[e][n]
    BY <2>1 DEF Counts
  <2>4. i \in 1 .. Len(handed[o]) /\ handed[o][i] = acked[e][i]
    BY <2>2, <2>3
  <2> QED BY <2>4 DEF o
<1> QED BY <1>1, LinkInvariant, PTL
-----------------------------------------------------------------------------
\* The refinement.

Delivered == [e \in Station |-> handed[Other(e)]]
Confirmed == [e \in Station |-> Len(acked[e])]

LEMMA NothingForTheStream ==
  ASSUME UNCHANGED <<log, handed, acked>>
  PROVE  UNCHANGED Stream!vars
BY DEF Stream!vars

LEMMA ComposeSubmits ==
  ASSUME TypeOK, Directions, NEW e \in Station, NEW ch \in Channel, Compose(e, ch)
  PROVE  Stream!Submit(e, Composed(e, ch))
<1> DEFINE o == Other(e)
           payload == Composed(e, ch)
<1>1. /\ HasSlot(e) /\ log' = [log EXCEPT ![e] = Append(log[e], payload)]
      /\ Transmit(e, ComposedFrame(e, ch), EndOfData)
  BY ComposeStep
<1>2. UNCHANGED <<handed, acked>>
  BY <1>1 DEF Transmit, TaskEnd
<1>3. Len(log[e]) = Len(acked[e]) + Len(pending[e]) /\ Len(pending[e]) < DEPTH
  BY <1>1 DEF Directions, Direction, Counts, HasSlot
<1>4. Len(log[e]) < Confirmed[e] + DEPTH
  <2>1. Len(acked[e]) \in Nat /\ pending[e] \in Seq(DataFrames)
    BY DirectionTypes
  <2>2. Len(pending[e]) \in Nat
    BY <2>1, LenProperties
  <2>3. Confirmed[e] = Len(acked[e])
    BY DEF Confirmed
  <2>4. Len(log[e]) < Len(acked[e]) + DEPTH
    <3> DEFINE n == Len(log[e])
               h == Len(acked[e])
               w == Len(pending[e])
    <3>1. n = h + w /\ w < DEPTH /\ h \in Nat /\ w \in Nat
      BY <1>3, <2>1, <2>2
    <3> HIDE DEF n, h, w
    <3>2. n < h + DEPTH
      BY <3>1, LinkConstants
    <3> QED BY <3>2 DEF n, h
  <2> QED BY <2>3, <2>4
<1>5. Delivered' = Delivered /\ Confirmed' = Confirmed
  BY <1>2 DEF Delivered, Confirmed
<1> HIDE DEF payload
<1>6. Stream!Submit(e, payload)
  BY <1>1, <1>4, <1>5 DEF Stream!Submit, Delivered, Confirmed
<1> QED BY <1>6 DEF payload

LEMMA AnswerDelivers ==
  ASSUME TypeOK, Directions, NEW e \in Station, ReceiveEndOfData(e), IsExpected(e)
  PROVE  Stream!Deliver(Other(e))
<1> DEFINE o == Other(e)
           x == rxData[e]
<1>1. o \in Station /\ Other(o) = e /\ o # e
  BY Stations
<1>2. /\ log[o] \in Seq(Payload) /\ handed[e] \in Seq(Payload) /\ acked[o] \in Seq(Payload)
      /\ pending[o] \in Seq(DataFrames)
  BY <1>1, DirectionTypes
<1>3. /\ Counts(log[o], handed[e], acked[o], pending[o], txSeqNr[o], nextExp[e])
      /\ DataFine(x, log[o], Len(handed[e]))
  BY <1>1 DEF Directions, Direction, DataInFlight
<1>4. x.kind = "data" /\ x.seq = nextExp[e]
  BY DEF IsExpected
<1>5. /\ handed' = [handed EXCEPT ![e] = Append(handed[e], x.payload)]
      /\ UNCHANGED <<log, acked>>
  BY DEF ReceiveEndOfData, Take
<1> HIDE DEF o, x
<1>6. x.no = Len(handed[e]) + 1 /\ Len(handed[e]) < Len(log[o])
  <2>1. /\ (x.seq = nextExp[e]) <=> (x.no = Len(handed[e]) + 1)
        /\ x.no = Len(handed[e]) + 1 => Len(handed[e]) < Len(log[o])
    BY <1>2, <1>3, <1>4, ExpectedIsNext
  <2> QED BY <1>4, <2>1
<1>7. x.payload = log[o][Len(handed[e]) + 1]
  BY <1>3, <1>4, <1>6 DEF DataFine
<1>8. Delivered[o] = handed[e]
  BY <1>1 DEF Delivered
<1>9. Delivered' = [Delivered EXCEPT ![o] = Append(Delivered[o], log[o][Len(Delivered[o]) + 1])]
  <2> DEFINE new == Append(handed[e], log[o][Len(handed[e]) + 1])
  <2>1. handed' = [handed EXCEPT ![e] = new]
    BY <1>5, <1>7
  <2> HIDE DEF new
  <2>2. ASSUME NEW s \in Station PROVE handed'[Other(s)] = IF s = o THEN new ELSE handed[Other(s)]
    <3>1. CASE s = o
      BY <1>1, <2>1, <3>1 DEF TypeOK
    <3>2. CASE s # o
      <4>1. Other(s) \in Station /\ Other(s) # e
        BY <1>1, <3>2, Stations
      <4> QED BY <2>1, <3>2, <4>1 DEF TypeOK
    <3> QED BY <3>1, <3>2
  <2>3. Delivered' = [Delivered EXCEPT ![o] = new]
    BY <1>1, <2>2 DEF Delivered
  <2> QED BY <1>8, <2>3 DEF new
<1>10. Confirmed' = Confirmed /\ log' = log
  BY <1>5 DEF Confirmed
<1>11. Stream!Deliver(o)
  BY <1>6, <1>8, <1>9, <1>10 DEF Stream!Deliver, Delivered, Confirmed
<1> QED BY <1>11 DEF o

LEMMA AckConfirms ==
  ASSUME TypeOK, Directions, NEW e \in Station, ReceiveEndOfAck(e), AckMatches(e)
  PROVE  Stream!Confirm(e)
<1> DEFINE o == Other(e)
<1>1. o \in Station
  BY Stations
<1>2. /\ log[e] \in Seq(Payload) /\ handed[o] \in Seq(Payload) /\ acked[e] \in Seq(Payload)
      /\ pending[e] \in Seq(DataFrames) /\ Len(acked[e]) \in Nat /\ Len(handed[o]) \in Nat
  BY <1>1, DirectionTypes
<1>3. /\ Counts(log[e], handed[o], acked[e], pending[e], txSeqNr[e], nextExp[o])
      /\ AckFine(rxAck[e], Len(acked[e]), Len(handed[o]))
  BY DEF Directions, Direction, AckInFlight
<1>4. rxAck[e].kind = "ack" /\ pending[e] # <<>> /\ Head(pending[e]).seq = rxAck[e].seq
  BY DEF AckMatches
<1>5. /\ acked' = [acked EXCEPT ![e] = Append(acked[e], Head(pending[e]).payload)]
      /\ UNCHANGED <<log, handed>>
  BY DEF ReceiveEndOfAck, Take
<1>o. o = Other(e)
  OBVIOUS
<1> HIDE DEF o
<1>6. Len(acked[e]) < Len(handed[o])
  BY <1>2, <1>3, <1>4, AcceptedIsOldest
<1>7. Len(acked'[e]) = Len(acked[e]) + 1
  <2>1. Head(pending[e]).payload \in Payload
    BY <1>2, <1>4, HeadTailProperties, HeldFrames
  <2>2. acked'[e] = Append(acked[e], Head(pending[e]).payload)
    BY <1>5 DEF TypeOK
  <2> QED BY <1>2, <2>1, <2>2, AppendProperties
<1>8. Confirmed' = [Confirmed EXCEPT ![e] = Confirmed[e] + 1]
  <2>1. ASSUME NEW s \in Station PROVE Len(acked'[s]) = IF s = e THEN Len(acked[e]) + 1 ELSE Len(acked[s])
    <3>1. s # e => acked'[s] = acked[s]
      BY <1>5 DEF TypeOK
    <3> QED BY <1>7, <3>1
  <2> QED BY <2>1 DEF Confirmed
<1>9. Confirmed[e] = Len(acked[e]) /\ Delivered[e] = handed[o]
  BY <1>o DEF Confirmed, Delivered
<1>10. Delivered' = Delivered /\ log' = log
  BY <1>5 DEF Delivered
<1> QED BY <1>6, <1>8, <1>9, <1>10 DEF Stream!Confirm, Delivered, Confirmed

LEMMA StreamStep == TypeOK /\ LinkInv /\ [QuietNext]_vars => [Stream!Next]_(Stream!vars)
<1> SUFFICES ASSUME TypeOK, LinkInv, [QuietNext]_vars
             PROVE  Stream!Next \/ UNCHANGED Stream!vars
  OBVIOUS
<1>0. Directions
  BY DEF LinkInv, Directions
<1>1. CASE UNCHANGED <<log, handed, acked>>
  BY <1>1, NothingForTheStream
<1>2. ASSUME NEW e \in Station, NEW ch \in Channel, Compose(e, ch) PROVE Stream!Next
  <2>1. Composed(e, ch) \in Payload
    BY <1>2, ComposeStep
  <2> QED BY <1>0, <1>2, <2>1, ComposeSubmits DEF Stream!Next
<1>3. ASSUME NEW e \in Station, ReceiveEndOfData(e), IsExpected(e) PROVE Stream!Next
  <2>1. Other(e) \in Station
    BY Stations
  <2> QED BY <1>0, <1>3, <2>1, AnswerDelivers DEF Stream!Next
<1>4. ASSUME NEW e \in Station, ReceiveEndOfAck(e), AckMatches(e) PROVE Stream!Next
  BY <1>0, <1>4, AckConfirms DEF Stream!Next
<1>5. CASE UNCHANGED vars
  BY <1>1, <1>5 DEF vars, history
<1>6. ASSUME NEW e \in Station, AnySend(e) \/ TaskBegin(e) PROVE UNCHANGED <<log, handed, acked>>
  BY <1>6 DEF AnySend, Send, TaskBegin, history
<1>7. ASSUME NEW e \in Station, Receive(e), ~(ReceiveEndOfData(e) /\ IsExpected(e)),
             ~(ReceiveEndOfAck(e) /\ AckMatches(e))
      PROVE  UNCHANGED <<log, handed, acked>>
  BY <1>7 DEF Receive, ReceiveSync, ReceiveAck, ReceiveEndOfAck, ReceiveData, ReceiveEndOfData,
              ReceiveNoise, Take
<1>8. ASSUME NEW e \in Station, GateClosed(e) \/ NothingToSend(e) \/ TransmitAck(e) \/ Retransmit(e)
      PROVE  UNCHANGED <<log, handed, acked>>
  BY <1>8 DEF GateClosed, NothingToSend, TransmitAck, Retransmit, Transmit, TaskEnd
<1>9. ASSUME NEW e \in Station, NEW i \in 1 .. Len(line[e]), LineError(e, i)
      PROVE  UNCHANGED <<log, handed, acked>>
  BY <1>9 DEF LineError, history
<1>10. ASSUME NEW e \in Station, Reopen(e) PROVE UNCHANGED <<log, handed, acked>>
  BY <1>10 DEF Reopen, history
<1> QED BY <1>1, <1>2, <1>3, <1>4, <1>5, <1>6, <1>7, <1>8, <1>9, <1>10
        DEF QuietNext, TaskStep, DoTransmission, NewTransmission

\* ImplementsStream of Slay2Link: each direction of the link is a reliable stream.
THEOREM LinkImplementsStream == QuietSpec => ImplementsStream
<1>1. Init => Stream!Init
  <2> SUFFICES ASSUME Init PROVE Stream!Init
    OBVIOUS
  <2>1. \A s \in Station : handed[Other(s)] = <<>> /\ Len(acked[s]) = 0
    BY Stations DEF Init
  <2>2. log = [e \in Station |-> <<>>]
    BY DEF Init
  <2> QED BY <2>1, <2>2 DEF Stream!Init
<1> QED BY <1>1, StreamStep, LinkInvariant, PTL DEF QuietSpec, ImplementsStream, Stream!Spec

-----------------------------------------------------------------------------
\* One life of a station: stations restart at any time, numbers start again, and
\* frames of before are still on their way.

\* A frame on its way is in log, and if it is not newer than the last one handed over, it
\* is less than DEPTH older and the number the receiver expects counts on from its own.
LifeFine(x, composed, n, expected) ==
  x.kind = "data" =>
    /\ x.no \in 1 .. Len(composed) /\ x.seq \in SeqNr /\ x.payload = composed[x.no]
    /\ x.no <= n => n < x.no + DEPTH /\ expected = (x.seq + (n - x.no) + 1) % SEQ_MOD

\* A frame behind x that is not newer is a repetition of the same window.
Repeats(x, y) ==
  x.kind = "data" /\ y.kind = "data" /\ y.no <= x.no =>
    x.no < y.no + DEPTH /\ x.seq = (y.seq + (x.no - y.no)) % SEQ_MOD

Newer(y, m) == y.kind = "data" => m < y.no
Behind(x, y) == x.kind = "data" => Newer(y, x.no)

\* What is behind a SYNC is newer than all that is in front of it.
Renews(y, q, held, symbols, n) ==
  /\ Newer(y, n) /\ Behind(held, y) /\ \A i \in 1 .. q - 1 : Behind(symbols[i], y)

\* Decoder, line and window, in the order in which their frames will be handed over.
Flight(held, symbols, window, composed, n, expected) ==
  /\ LifeFine(held, composed, n, expected)
  /\ \A p \in 1 .. Len(symbols) :
       /\ LifeFine(symbols[p], composed, n, expected) /\ Repeats(held, symbols[p])
       /\ \A q \in 1 .. p - 1 : /\ Repeats(symbols[q], symbols[p])
                                /\ symbols[q].kind = "sync" => Renews(symbols[p], q, held, symbols, n)
  /\ \A i \in 1 .. Len(window) :
       /\ LifeFine(window[i], composed, n, expected) /\ Repeats(held, window[i])
       /\ \A q \in 1 .. Len(symbols) : /\ Repeats(symbols[q], window[i])
                                       /\ symbols[q].kind = "sync" => Renews(window[i], q, held, symbols, n)

\* The window is the end of log, and its numbers lead up to the next one.
Lately(window, composed, seq) ==
  /\ Len(window) <= DEPTH
  /\ \A i \in 1 .. Len(window) :
       /\ window[i].no = Len(composed) - Len(window) + i
       /\ (window[i].seq + (Len(window) - i) + 1) % SEQ_MOD = seq

\* What an application sends on a channel goes into frames from its beginning to its end.
Portioned(composed, bytes, left) ==
  /\ \A i \in 1 .. Len(composed) : composed[i].from + composed[i].len <= bytes[composed[i].ch] - left[composed[i].ch]
  /\ \A j \in 1 .. Len(composed) : \A i \in 1 .. j - 1 :
       composed[i].ch = composed[j].ch => composed[i].from < composed[j].from

\* What was handed over in this life is among the first n frames, each once.
GivenOnce(delivered, before, composed, n) ==
  /\ before <= Len(delivered)
  /\ \A j \in before + 1 .. Len(delivered) :
       /\ \E k \in 1 .. n : delivered[j] = composed[k]
       /\ \A i \in before + 1 .. j - 1 :
            delivered[i].ch = delivered[j].ch => delivered[i].from < delivered[j].from

Since(e, n) ==
  LET o == Other(e) IN
    /\ n \in 0 .. Len(log[e]) /\ (~syncSent[o] => n = 0)
    /\ Flight(rxData[o], line[e], pending[e], log[e], n, nextExp[o])
    /\ GivenOnce(handed[o], life[o], log[e], n)

\* In each direction some frame, or none, is the last one handed over in this life.
Streams == \A e \in Station : \E n \in Nat : Since(e, n)
Windows == \A e \in Station : /\ Lately(pending[e], log[e], txSeqNr[e])
                              /\ Portioned(log[e], written[e], txCount[e])
Started == \A e \in Station : task[e] = "rx" => syncSent[e]

\* The port takes the five SYNCs at the first try.
SyncsWhole == SyncWrites \subseteq {5}

LifeInv == TypeOK /\ life \in [Station -> Nat] /\ Streams /\ Windows /\ Started

-----------------------------------------------------------------------------
\* One direction: what happens to decoder, line and window.

LEMMA RenewsThin ==
  ASSUME NEW S, NEW new \in Seq(S), NEW old \in Seq(S), NEW f \in [1 .. Len(new) -> Nat],
         \A p \in 1 .. Len(new) :
           new[p].kind \in {"data", "sync"} => f[p] \in 1 .. Len(old) /\ new[p] = old[f[p]],
         \A p \in 1 .. Len(new) : \A q \in 1 .. p - 1 : f[q] \in 1 .. f[p] - 1,
         NEW held, NEW after, after = held \/ after.kind # "data", NEW y, NEW n,
         NEW q \in 1 .. Len(new), Renews(y, f[q], held, old, n)
  PROVE  Renews(y, q, after, new, n)
<1>1. Len(new) \in Nat /\ Len(old) \in Nat
  BY LenProperties
<1>2. Newer(y, n) /\ Behind(held, y) /\ \A i \in 1 .. f[q] - 1 : Behind(old[i], y)
  BY DEF Renews
<1>3. Behind(after, y)
  BY <1>2 DEF Behind
<1>4. ASSUME NEW i \in 1 .. q - 1 PROVE Behind(new[i], y)
  <2>1. i \in 1 .. Len(new) /\ f[i] \in 1 .. f[q] - 1
    BY <1>1
  <2>2. CASE new[i].kind = "data"
    BY <1>2, <2>1, <2>2
  <2>3. CASE new[i].kind # "data"
    BY <2>3 DEF Behind
  <2> QED BY <2>2, <2>3
<1> QED BY <1>2, <1>3, <1>4 DEF Renews

\* Symbols and pending frames are lost, the decoder may be emptied.
LEMMA FlightThin ==
  ASSUME NEW held, NEW after, after = held \/ after.kind # "data",
         NEW S, NEW old \in Seq(S), NEW new \in Seq(S), Thins({"data", "sync"}, new, old),
         NEW T, NEW window \in Seq(T), NEW rest \in Seq(T), Thins({"data"}, rest, window),
         NEW composed, NEW n, NEW expected, Flight(held, old, window, composed, n, expected)
  PROVE  Flight(after, new, rest, composed, n, expected)
<1>1. Len(new) \in Nat /\ Len(old) \in Nat /\ Len(window) \in Nat /\ Len(rest) \in Nat
  BY LenProperties
<1>2. PICK f \in [1 .. Len(new) -> Nat] :
        /\ \A p \in 1 .. Len(new) :
             new[p].kind \in {"data", "sync"} => f[p] \in 1 .. Len(old) /\ new[p] = old[f[p]]
        /\ \A p \in 1 .. Len(new) : \A q \in 1 .. p - 1 : f[q] \in 1 .. f[p] - 1
  BY DEF Thins
<1>3. PICK g \in [1 .. Len(rest) -> Nat] :
        \A p \in 1 .. Len(rest) :
          rest[p].kind \in {"data"} => g[p] \in 1 .. Len(window) /\ rest[p] = window[g[p]]
  BY DEF Thins
<1>4. /\ LifeFine(held, composed, n, expected)
      /\ \A p \in 1 .. Len(old) :
           /\ LifeFine(old[p], composed, n, expected) /\ Repeats(held, old[p])
           /\ \A q \in 1 .. p - 1 : /\ Repeats(old[q], old[p])
                                    /\ old[q].kind = "sync" => Renews(old[p], q, held, old, n)
      /\ \A i \in 1 .. Len(window) :
           /\ LifeFine(window[i], composed, n, expected) /\ Repeats(held, window[i])
           /\ \A q \in 1 .. Len(old) : /\ Repeats(old[q], window[i])
                                       /\ old[q].kind = "sync" => Renews(window[i], q, held, old, n)
  BY DEF Flight
<1>5. LifeFine(after, composed, n, expected)
  BY <1>4 DEF LifeFine
<1>6. \A y : y.kind # "data" => /\ LifeFine(y, composed, n, expected)
                                /\ \A x, q : Repeats(x, y) /\ Renews(y, q, after, new, n)
  BY DEF LifeFine, Repeats, Renews, Newer, Behind
<1>7. ASSUME NEW y, Repeats(held, y) PROVE Repeats(after, y)
  BY <1>7 DEF Repeats
<1>8. ASSUME NEW p \in 1 .. Len(new)
      PROVE  LifeFine(new[p], composed, n, expected) /\ Repeats(after, new[p])
  <2>1. CASE new[p].kind = "data"
    BY <1>2, <1>4, <1>7, <2>1
  <2> QED BY <1>6, <2>1
<1>9. ASSUME NEW p \in 1 .. Len(new), NEW q \in 1 .. p - 1
      PROVE  /\ Repeats(new[q], new[p])
             /\ new[q].kind = "sync" => Renews(new[p], q, after, new, n)
  <2>1. q \in 1 .. Len(new) /\ f[q] \in 1 .. f[p] - 1
    BY <1>1, <1>2
  <2>2. CASE new[p].kind = "data"
    <3>1. f[p] \in 1 .. Len(old) /\ new[p] = old[f[p]]
      BY <1>2, <2>2
    <3>2. CASE new[q].kind = "data"
      <4>1. new[q] = old[f[q]]
        BY <1>2, <2>1, <3>2
      <4> QED BY <1>4, <2>1, <3>1, <3>2, <4>1
    <3>3. CASE new[q].kind = "sync"
      <4>1. new[q] = old[f[q]]
        BY <1>2, <2>1, <3>3
      <4>2. Renews(new[p], f[q], held, old, n)
        BY <1>4, <2>1, <3>1, <3>3, <4>1
      <4>3. Renews(new[p], q, after, new, n)
        BY <1>2, <2>1, <4>2, RenewsThin
      <4> QED BY <3>3, <4>3 DEF Repeats
    <3>4. CASE new[q].kind \notin {"data", "sync"}
      BY <3>4 DEF Repeats
    <3> QED BY <3>2, <3>3, <3>4
  <2> QED BY <1>6, <2>2
<1>10. ASSUME NEW i \in 1 .. Len(rest)
       PROVE  LifeFine(rest[i], composed, n, expected) /\ Repeats(after, rest[i])
  <2>1. CASE rest[i].kind = "data"
    BY <1>3, <1>4, <1>7, <2>1
  <2> QED BY <1>6, <2>1
<1>11. ASSUME NEW i \in 1 .. Len(rest), NEW q \in 1 .. Len(new)
       PROVE  /\ Repeats(new[q], rest[i])
              /\ new[q].kind = "sync" => Renews(rest[i], q, after, new, n)
  <2>1. CASE rest[i].kind = "data"
    <3>1. g[i] \in 1 .. Len(window) /\ rest[i] = window[g[i]]
      BY <1>3, <2>1
    <3>2. CASE new[q].kind = "data"
      BY <1>2, <1>4, <3>1, <3>2
    <3>3. CASE new[q].kind = "sync"
      <4>1. f[q] \in 1 .. Len(old) /\ new[q] = old[f[q]]
        BY <1>2, <3>3
      <4>2. Renews(rest[i], f[q], held, old, n)
        BY <1>4, <3>1, <3>3, <4>1
      <4>3. Renews(rest[i], q, after, new, n)
        BY <1>2, <4>2, RenewsThin
      <4> QED BY <3>3, <4>3 DEF Repeats
    <3>4. CASE new[q].kind \notin {"data", "sync"}
      BY <3>4 DEF Repeats
    <3> QED BY <3>2, <3>3, <3>4
  <2> QED BY <1>6, <2>1
<1> QED BY <1>5, <1>8, <1>9, <1>10, <1>11 DEF Flight

\* The decoder takes the next symbol.
LEMMA FlightTake ==
  ASSUME NEW held, NEW S, NEW symbols \in Seq(S), symbols # <<>>, NEW window,
         NEW composed, NEW n, NEW expected, Flight(held, symbols, window, composed, n, expected)
  PROVE  Flight(Head(symbols), Tail(symbols), window, composed, n, expected)
<1> DEFINE first == Head(symbols)
           rest == Tail(symbols)
<1>1. /\ Len(symbols) \in Nat /\ Len(symbols) >= 1 /\ Len(rest) = Len(symbols) - 1
      /\ first = symbols[1] /\ 1 \in 1 .. Len(symbols)
      /\ \A p \in 1 .. Len(symbols) - 1 : rest[p] = symbols[p + 1]
  BY LenProperties, HeadTailProperties, EmptySeq
<1>2. /\ \A p \in 1 .. Len(symbols) :
           /\ LifeFine(symbols[p], composed, n, expected)
           /\ \A q \in 1 .. p - 1 : /\ Repeats(symbols[q], symbols[p])
                                    /\ symbols[q].kind = "sync" => Renews(symbols[p], q, held, symbols, n)
      /\ \A i \in 1 .. Len(window) :
           /\ LifeFine(window[i], composed, n, expected)
           /\ \A q \in 1 .. Len(symbols) : /\ Repeats(symbols[q], window[i])
                                           /\ symbols[q].kind = "sync" => Renews(window[i], q, held, symbols, n)
  BY DEF Flight
<1> HIDE DEF first, rest
<1>3. ASSUME NEW y, NEW q \in 1 .. Len(rest), Renews(y, q + 1, held, symbols, n)
      PROVE  Renews(y, q, first, rest, n)
  <2>1. Newer(y, n) /\ \A i \in 1 .. (q + 1) - 1 : Behind(symbols[i], y)
    BY <1>3 DEF Renews
  <2>2. 1 \in 1 .. (q + 1) - 1 /\ \A i \in 1 .. q - 1 : i + 1 \in 1 .. (q + 1) - 1 /\ rest[i] = symbols[i + 1]
    BY <1>1
  <2>3. Behind(first, y) /\ \A i \in 1 .. q - 1 : Behind(rest[i], y)
    BY <1>1, <2>1, <2>2
  <2> QED BY <2>1, <2>3 DEF Renews
<1>4. LifeFine(first, composed, n, expected)
  BY <1>1, <1>2
<1>5. ASSUME NEW p \in 1 .. Len(rest)
      PROVE  LifeFine(rest[p], composed, n, expected) /\ Repeats(first, rest[p])
  <2>1. p + 1 \in 1 .. Len(symbols) /\ rest[p] = symbols[p + 1] /\ 1 \in 1 .. (p + 1) - 1
    BY <1>1
  <2> QED BY <1>1, <1>2, <2>1
<1>6. ASSUME NEW p \in 1 .. Len(rest), NEW q \in 1 .. p - 1
      PROVE  /\ Repeats(rest[q], rest[p])
             /\ rest[q].kind = "sync" => Renews(rest[p], q, first, rest, n)
  <2>1. /\ p + 1 \in 1 .. Len(symbols) /\ rest[p] = symbols[p + 1] /\ q + 1 \in 1 .. (p + 1) - 1
        /\ q \in 1 .. Len(rest) /\ rest[q] = symbols[q + 1]
    BY <1>1
  <2> QED BY <1>2, <1>3, <2>1
<1>7. ASSUME NEW i \in 1 .. Len(window)
      PROVE  LifeFine(window[i], composed, n, expected) /\ Repeats(first, window[i])
  BY <1>1, <1>2
<1>8. ASSUME NEW i \in 1 .. Len(window), NEW q \in 1 .. Len(rest)
      PROVE  /\ Repeats(rest[q], window[i])
             /\ rest[q].kind = "sync" => Renews(window[i], q, first, rest, n)
  <2>1. q + 1 \in 1 .. Len(symbols) /\ rest[q] = symbols[q + 1]
    BY <1>1
  <2> QED BY <1>2, <1>3, <2>1
<1>9. Flight(first, rest, window, composed, n, expected)
  BY <1>4, <1>5, <1>6, <1>7, <1>8 DEF Flight
<1> QED BY <1>9 DEF first, rest

\* The numbers start again: no frame that is left is one that was handed over.
LEMMA FlightRenewed ==
  ASSUME NEW held, NEW S, NEW symbols \in Seq(S), NEW window, NEW composed, NEW n \in Nat, NEW expected,
         Flight(held, symbols, window, composed, n, expected), NEW m \in Nat, m <= n, NEW start,
         Newer(held, m), \A p \in 1 .. Len(symbols) : Newer(symbols[p], m),
         \A i \in 1 .. Len(window) : Newer(window[i], m)
  PROVE  Flight(held, symbols, window, composed, m, start)
<1>1. Len(symbols) \in Nat
  BY LenProperties
<1>2. ASSUME NEW x, LifeFine(x, composed, n, expected), Newer(x, m)
      PROVE  LifeFine(x, composed, m, start)
  BY <1>2 DEF LifeFine, Newer
<1>3. ASSUME NEW y, NEW q, LifeFine(y, composed, n, expected), Renews(y, q, held, symbols, n)
      PROVE  Renews(y, q, held, symbols, m)
  <2>1. Newer(y, m)
    BY <1>3 DEF LifeFine, Renews, Newer
  <2> QED BY <1>3, <2>1 DEF Renews
<1>4. /\ LifeFine(held, composed, n, expected)
      /\ \A p \in 1 .. Len(symbols) :
           /\ LifeFine(symbols[p], composed, n, expected) /\ Repeats(held, symbols[p])
           /\ \A q \in 1 .. p - 1 : /\ Repeats(symbols[q], symbols[p])
                                    /\ symbols[q].kind = "sync" => Renews(symbols[p], q, held, symbols, n)
      /\ \A i \in 1 .. Len(window) :
           /\ LifeFine(window[i], composed, n, expected) /\ Repeats(held, window[i])
           /\ \A q \in 1 .. Len(symbols) : /\ Repeats(symbols[q], window[i])
                                           /\ symbols[q].kind = "sync" => Renews(window[i], q, held, symbols, n)
  BY DEF Flight
<1>5. /\ LifeFine(held, composed, m, start)
      /\ \A p \in 1 .. Len(symbols) : LifeFine(symbols[p], composed, m, start)
      /\ \A i \in 1 .. Len(window) : LifeFine(window[i], composed, m, start)
  BY <1>2, <1>4
<1>6. \A p \in 1 .. Len(symbols) : \A q \in 1 .. p - 1 :
        symbols[q].kind = "sync" => Renews(symbols[p], q, held, symbols, m)
  BY <1>3, <1>4
<1>7. \A i \in 1 .. Len(window) : \A q \in 1 .. Len(symbols) :
        symbols[q].kind = "sync" => Renews(window[i], q, held, symbols, m)
  BY <1>3, <1>4
<1> QED BY <1>4, <1>5, <1>6, <1>7 DEF Flight

\* The receiver meets a SYNC and forgets what it holds.
LEMMA FlightSynced ==
  ASSUME NEW held, NEW S, NEW symbols \in Seq(S), symbols # <<>>, Head(symbols).kind = "sync",
         NEW window, NEW composed, NEW n \in Nat, NEW expected,
         Flight(held, symbols, window, composed, n, expected), NEW start,
         NEW after, after.kind # "data", NEW T, window \in Seq(T)
  PROVE  Flight(after, Tail(symbols), window, composed, n, start)
<1> DEFINE first == Head(symbols)
           rest == Tail(symbols)
<1>1. /\ Len(symbols) \in Nat /\ Len(symbols) >= 1 /\ Len(rest) = Len(symbols) - 1 /\ rest \in Seq(S)
      /\ first = symbols[1] /\ 1 \in 1 .. Len(symbols)
      /\ \A p \in 1 .. Len(symbols) - 1 : rest[p] = symbols[p + 1]
  BY LenProperties, HeadTailProperties, EmptySeq
<1>2. Flight(first, rest, window, composed, n, expected)
  BY FlightTake
<1>k. first.kind = "sync"
  OBVIOUS
<1> HIDE DEF first, rest
<1>3. \A p \in 1 .. Len(rest) : Newer(rest[p], n)
  <2> SUFFICES ASSUME NEW p \in 1 .. Len(rest) PROVE Newer(rest[p], n)
    OBVIOUS
  <2>1. p + 1 \in 1 .. Len(symbols) /\ 1 \in 1 .. (p + 1) - 1 /\ rest[p] = symbols[p + 1]
    BY <1>1
  <2>2. Renews(symbols[p + 1], 1, held, symbols, n)
    BY <1>1, <1>k, <2>1 DEF Flight
  <2> QED BY <2>1, <2>2 DEF Renews
<1>4. \A i \in 1 .. Len(window) : Newer(window[i], n)
  <2> SUFFICES ASSUME NEW i \in 1 .. Len(window) PROVE Newer(window[i], n)
    OBVIOUS
  <2>2. Renews(window[i], 1, held, symbols, n)
    BY <1>1, <1>k DEF Flight
  <2> QED BY <2>2 DEF Renews
<1>5. Thins({"data", "sync"}, rest, rest) /\ Thins({"data"}, window, window)
  BY <1>1, ThinsSelf
<1>6. Flight(after, rest, window, composed, n, expected)
  BY <1>1, <1>2, <1>5, FlightThin
<1>7. Newer(after, n)
  BY DEF Newer
<1>8. Flight(after, rest, window, composed, n, start)
  BY <1>1, <1>3, <1>4, <1>6, <1>7, FlightRenewed
<1> QED BY <1>8 DEF rest

\* A receiver that has been given nothing yet may expect any number.
LEMMA FlightFresh ==
  ASSUME NEW held, NEW S, NEW symbols \in Seq(S), NEW window, NEW composed, NEW n \in Nat, NEW expected,
         Flight(held, symbols, window, composed, n, expected), NEW start
  PROVE  Flight(held, symbols, window, composed, 0, start)
<1>1. ASSUME NEW x, LifeFine(x, composed, n, expected) PROVE Newer(x, 0)
  BY <1>1 DEF LifeFine, Newer
<1>2. /\ Newer(held, 0) /\ \A p \in 1 .. Len(symbols) : Newer(symbols[p], 0)
      /\ \A i \in 1 .. Len(window) : Newer(window[i], 0)
  BY <1>1 DEF Flight
<1> QED BY <1>2, FlightRenewed
\* The frame in the decoder has the expected number: it is newer than all that were handed
\* over in this life, and takes the place of the last of them.
LEMMA ExpectedIsNewer ==
  ASSUME NEW x, x.kind = "data", NEW composed, NEW n \in Nat, LifeFine(x, composed, n, x.seq)
  PROVE  n < x.no
<1> DEFINE d == (n - x.no) + 1
           s == x.seq
<1>1. x.no \in Int /\ s \in 0 .. SEQ_MOD - 1 /\ SEQ_MOD \in Nat \ {0} /\ DEPTH \in Nat /\ DEPTH < SEQ_MOD
  BY LinkConstants DEF LifeFine, SeqNr
<1>2. x.no <= n => n < x.no + DEPTH /\ s = (s + (n - x.no) + 1) % SEQ_MOD
  BY DEF LifeFine
<1>3. d \in Int /\ s + (n - x.no) + 1 = s + d
  BY <1>1
<1>4. SUFFICES ASSUME x.no <= n PROVE FALSE
  BY <1>1
<1>5. n < x.no + DEPTH
  BY <1>2, <1>4
<1>6. d >= 1 /\ d < SEQ_MOD
  BY <1>1, <1>4, <1>5
<1>7. s = (s + d) % SEQ_MOD
  BY <1>2, <1>3, <1>4
<1> HIDE DEF d, s
<1>8. s % SEQ_MOD = s
  <2>1. s = SEQ_MOD * 0 + s /\ 0 \in Int
    BY <1>1
  <2> QED BY <1>1, <2>1, Remainder
<1>9. s % SEQ_MOD = (s + d) % SEQ_MOD /\ s \in Int /\ s + d \in Int
  BY <1>1, <1>3, <1>7, <1>8
<1>10. s - (s + d) < SEQ_MOD /\ (s + d) - s < SEQ_MOD
  BY <1>1, <1>3, <1>6
<1>11. s = s + d
  BY <1>1, <1>9, <1>10, RemainderNamesOne
<1> QED BY <1>1, <1>3, <1>6, <1>11

LEMMA NumberCountsOn ==
  ASSUME NEW a \in Int, NEW d \in Int, NEW s, s = (a + d) % SEQ_MOD
  PROVE  NextSeq(s) = (a + d + 1) % SEQ_MOD
<1>1. SEQ_MOD \in Nat \ {0} /\ a + d \in Int
  BY LinkConstants
<1>2. ((a + d) + 1) % SEQ_MOD = (((a + d) % SEQ_MOD) + 1) % SEQ_MOD
  BY <1>1, RemainderOfNext
<1>3. (a + d) + 1 = a + d + 1
  OBVIOUS
<1> QED BY <1>2, <1>3 DEF NextSeq

LEMMA FlightDeliver ==
  ASSUME NEW held, held.kind = "data", NEW S, NEW symbols \in Seq(S), NEW window,
         NEW composed, NEW n \in Nat, Flight(held, symbols, window, composed, n, held.seq),
         NEW after, after.kind # "data"
  PROVE  n < held.no /\ Flight(after, symbols, window, composed, held.no, NextSeq(held.seq))
<1>1. /\ LifeFine(held, composed, n, held.seq)
      /\ \A p \in 1 .. Len(symbols) :
           /\ LifeFine(symbols[p], composed, n, held.seq) /\ Repeats(held, symbols[p])
           /\ \A q \in 1 .. p - 1 : /\ Repeats(symbols[q], symbols[p])
                                    /\ symbols[q].kind = "sync" => Renews(symbols[p], q, held, symbols, n)
      /\ \A i \in 1 .. Len(window) :
           /\ LifeFine(window[i], composed, n, held.seq) /\ Repeats(held, window[i])
           /\ \A q \in 1 .. Len(symbols) : /\ Repeats(symbols[q], window[i])
                                           /\ symbols[q].kind = "sync" => Renews(window[i], q, held, symbols, n)
  BY DEF Flight
<1>2. n < held.no /\ held.no \in Int
  BY <1>1, ExpectedIsNewer DEF LifeFine
<1>3. ASSUME NEW x, LifeFine(x, composed, n, held.seq), Repeats(held, x)
      PROVE  LifeFine(x, composed, held.no, NextSeq(held.seq))
  <2> SUFFICES ASSUME x.kind = "data", x.no <= held.no
               PROVE  held.no < x.no + DEPTH /\ NextSeq(held.seq) = (x.seq + (held.no - x.no) + 1) % SEQ_MOD
    BY <1>3 DEF LifeFine
  <2>1. held.no < x.no + DEPTH /\ held.seq = (x.seq + (held.no - x.no)) % SEQ_MOD
    BY <1>3 DEF Repeats
  <2>2. x.seq \in Int /\ held.no - x.no \in Int
    BY <1>2, <1>3 DEF LifeFine, SeqNr
  <2> QED BY <2>1, <2>2, NumberCountsOn
<1>4. ASSUME NEW y, NEW q, Renews(y, q, held, symbols, n) PROVE Renews(y, q, after, symbols, held.no)
  BY <1>4 DEF Renews, Behind
<1>5. LifeFine(after, composed, held.no, NextSeq(held.seq)) /\ \A y : Repeats(after, y)
  BY DEF LifeFine, Repeats
<1>6. /\ \A p \in 1 .. Len(symbols) : LifeFine(symbols[p], composed, held.no, NextSeq(held.seq))
      /\ \A i \in 1 .. Len(window) : LifeFine(window[i], composed, held.no, NextSeq(held.seq))
  BY <1>1, <1>3
<1>7. \A p \in 1 .. Len(symbols) : \A q \in 1 .. p - 1 :
        symbols[q].kind = "sync" => Renews(symbols[p], q, after, symbols, held.no)
  BY <1>1, <1>4
<1>8. \A i \in 1 .. Len(window) : \A q \in 1 .. Len(symbols) :
        symbols[q].kind = "sync" => Renews(window[i], q, after, symbols, held.no)
  BY <1>1, <1>4
<1>9. Flight(after, symbols, window, composed, held.no, NextSeq(held.seq))
  BY <1>1, <1>5, <1>6, <1>7, <1>8 DEF Flight
<1> QED BY <1>2, <1>9

\* A pending frame is put on the line.
LEMMA FlightSend ==
  ASSUME NEW held, NEW S, NEW symbols \in Seq(S), NEW window, NEW composed, NEW n, NEW expected,
         Flight(held, symbols, window, composed, n, expected),
         NEW i \in 1 .. Len(window), window[i] \in S, \A j \in 1 .. Len(window) : Repeats(window[i], window[j]),
         window[i].kind = "data", NEW y \in S, y.kind \notin {"data", "sync"}
  PROVE  Flight(held, symbols \o <<window[i], y>>, window, composed, n, expected)
<1> DEFINE x == window[i]
           new == symbols \o <<x, y>>
<1>1. /\ Len(symbols) \in Nat /\ Len(new) = Len(symbols) + 2
      /\ \A p \in 1 .. Len(symbols) : new[p] = symbols[p]
      /\ new[Len(symbols) + 1] = x /\ new[Len(symbols) + 2] = y
  BY LenProperties, TwoAppended
<1>2. /\ LifeFine(held, composed, n, expected)
      /\ \A p \in 1 .. Len(symbols) :
           /\ LifeFine(symbols[p], composed, n, expected) /\ Repeats(held, symbols[p])
           /\ \A q \in 1 .. p - 1 : /\ Repeats(symbols[q], symbols[p])
                                    /\ symbols[q].kind = "sync" => Renews(symbols[p], q, held, symbols, n)
      /\ \A j \in 1 .. Len(window) :
           /\ LifeFine(window[j], composed, n, expected) /\ Repeats(held, window[j])
           /\ \A q \in 1 .. Len(symbols) : /\ Repeats(symbols[q], window[j])
                                           /\ symbols[q].kind = "sync" => Renews(window[j], q, held, symbols, n)
  BY DEF Flight
<1>3. /\ x.kind = "data" /\ LifeFine(x, composed, n, expected) /\ Repeats(held, x)
      /\ \A q \in 1 .. Len(symbols) : /\ Repeats(symbols[q], x)
                                      /\ symbols[q].kind = "sync" => Renews(x, q, held, symbols, n)
      /\ \A j \in 1 .. Len(window) : Repeats(x, window[j])
  BY <1>2
<1> HIDE DEF x, new
<1>4. ASSUME NEW z, NEW q \in 1 .. Len(symbols), Renews(z, q, held, symbols, n)
      PROVE  Renews(z, q, held, new, n)
  <2>1. \A k \in 1 .. q - 1 : k \in 1 .. Len(symbols) /\ new[k] = symbols[k]
    BY <1>1
  <2> QED BY <1>4, <2>1 DEF Renews
<1>5. LifeFine(y, composed, n, expected) /\ \A z, q : Repeats(z, y) /\ Repeats(y, z) /\ Renews(y, q, held, new, n)
  BY DEF LifeFine, Repeats, Renews, Newer, Behind
<1>6. ASSUME NEW p \in 1 .. Len(new)
      PROVE  /\ LifeFine(new[p], composed, n, expected) /\ Repeats(held, new[p])
             /\ \A q \in 1 .. p - 1 : /\ Repeats(new[q], new[p])
                                      /\ new[q].kind = "sync" => Renews(new[p], q, held, new, n)
  <2>1. CASE p \in 1 .. Len(symbols)
    <3>1. new[p] = symbols[p] /\ \A q \in 1 .. p - 1 : q \in 1 .. Len(symbols) /\ new[q] = symbols[q]
      BY <1>1, <2>1
    <3> QED BY <1>2, <1>4, <2>1, <3>1
  <2>2. CASE p = Len(symbols) + 1
    <3>1. new[p] = x /\ \A q \in 1 .. p - 1 : q \in 1 .. Len(symbols) /\ new[q] = symbols[q]
      BY <1>1, <2>2
    <3> QED BY <1>3, <1>4, <3>1
  <2>3. CASE p = Len(symbols) + 2
    BY <1>1, <1>5, <2>3
  <2> QED BY <1>1, <2>1, <2>2, <2>3
<1>7. ASSUME NEW j \in 1 .. Len(window), NEW q \in 1 .. Len(new)
      PROVE  /\ Repeats(new[q], window[j])
             /\ new[q].kind = "sync" => Renews(window[j], q, held, new, n)
  <2>1. CASE q \in 1 .. Len(symbols)
    BY <1>1, <1>2, <1>4, <2>1
  <2>2. CASE q = Len(symbols) + 1
    BY <1>1, <1>3, <2>2
  <2>3. CASE q = Len(symbols) + 2
    BY <1>1, <1>5, <2>3
  <2> QED BY <1>1, <2>1, <2>2, <2>3
<1>8. Flight(held, new, window, composed, n, expected)
  BY <1>2, <1>6, <1>7 DEF Flight
<1> QED BY <1>8 DEF new, x

\* A frame is composed: it is newer than all that are on their way.
LEMMA FlightCompose ==
  ASSUME NEW held, NEW S, NEW symbols \in Seq(S), NEW window \in Seq(DataFrames), NEW composed \in Seq(Payload),
         NEW n \in 0 .. Len(composed), NEW expected, Flight(held, symbols, window, composed, n, expected),
         NEW payload \in Payload, NEW seq \in SeqNr,
         NEW x \in DataFrames, x = DataFrame(seq, Len(composed) + 1, payload)
  PROVE  Flight(held, symbols, Append(window, x), Append(composed, payload), n, expected)
<1> DEFINE all == Append(composed, payload)
           longer == Append(window, x)
           len == Len(composed)
<1>1. /\ len \in Nat /\ Len(all) = len + 1 /\ all[len + 1] = payload
      /\ \A i \in 1 .. len : all[i] = composed[i]
  BY LenProperties, AppendProperties
<1>2. /\ Len(window) \in Nat /\ Len(longer) = Len(window) + 1 /\ longer[Len(window) + 1] = x
      /\ \A i \in 1 .. Len(window) : longer[i] = window[i]
  BY LenProperties, AppendProperties
<1>3. x.kind = "data" /\ x.no = len + 1 /\ x.seq = seq /\ x.payload = payload
  BY DEF DataFrame
<1>4. n \in Nat /\ n <= len
  BY <1>1
<1>c. Flight(held, symbols, window, composed, n, expected) /\ len = Len(composed)
  OBVIOUS
<1> HIDE DEF all, longer, len
<1>5. ASSUME NEW z, LifeFine(z, composed, n, expected)
      PROVE  LifeFine(z, all, n, expected) /\ Repeats(z, x) /\ Behind(z, x)
  <2>1. z.kind = "data" => z.no \in 1 .. len /\ z.payload = composed[z.no]
    BY <1>5, <1>c DEF LifeFine
  <2>2. z.kind = "data" => z.no \in 1 .. Len(all) /\ z.payload = all[z.no] /\ ~(x.no <= z.no) /\ z.no < x.no
    BY <1>1, <1>3, <2>1
  <2> QED BY <1>5, <2>2 DEF LifeFine, Repeats, Behind, Newer
<1>6. LifeFine(x, all, n, expected) /\ Newer(x, n)
  <2>1. x.no \in 1 .. Len(all) /\ ~(x.no <= n) /\ n < x.no
    BY <1>1, <1>3, <1>4
  <2> QED BY <1>1, <1>3, <2>1 DEF LifeFine, Newer
<1>7. /\ LifeFine(held, composed, n, expected)
      /\ \A p \in 1 .. Len(symbols) :
           /\ LifeFine(symbols[p], composed, n, expected) /\ Repeats(held, symbols[p])
           /\ \A q \in 1 .. p - 1 : /\ Repeats(symbols[q], symbols[p])
                                    /\ symbols[q].kind = "sync" => Renews(symbols[p], q, held, symbols, n)
      /\ \A i \in 1 .. Len(window) :
           /\ LifeFine(window[i], composed, n, expected) /\ Repeats(held, window[i])
           /\ \A q \in 1 .. Len(symbols) : /\ Repeats(symbols[q], window[i])
                                           /\ symbols[q].kind = "sync" => Renews(window[i], q, held, symbols, n)
  BY <1>c DEF Flight
<1>8. Repeats(held, x) /\ Behind(held, x) /\ \A q \in 1 .. Len(symbols) : Repeats(symbols[q], x) /\ Behind(symbols[q], x)
  BY <1>5, <1>7
<1>9. ASSUME NEW q \in 1 .. Len(symbols) PROVE Renews(x, q, held, symbols, n)
  <2>1. ASSUME NEW i \in 1 .. q - 1 PROVE Behind(symbols[i], x)
    BY <1>8, LenProperties
  <2> QED BY <1>6, <1>8, <2>1 DEF Renews
<1>10. ASSUME NEW i \in 1 .. Len(longer)
       PROVE  /\ LifeFine(longer[i], all, n, expected) /\ Repeats(held, longer[i])
              /\ \A q \in 1 .. Len(symbols) : /\ Repeats(symbols[q], longer[i])
                                              /\ symbols[q].kind = "sync" => Renews(longer[i], q, held, symbols, n)
  <2>1. CASE i \in 1 .. Len(window)
    BY <1>2, <1>5, <1>7, <2>1
  <2>2. CASE i = Len(window) + 1
    BY <1>2, <1>6, <1>8, <1>9, <2>2
  <2> QED BY <1>2, <2>1, <2>2
<1>11. LifeFine(held, all, n, expected) /\ \A p \in 1 .. Len(symbols) : LifeFine(symbols[p], all, n, expected)
  BY <1>5, <1>7
<1>12. Flight(held, symbols, longer, all, n, expected)
  BY <1>7, <1>10, <1>11 DEF Flight
<1> QED BY <1>12 DEF longer, all
\* SYNCs are put on the line and the window is forgotten.
LEMMA FlightSyncs ==
  ASSUME NEW held, NEW S, NEW symbols \in Seq(S), NEW t \in Seq(S), \A i \in 1 .. Len(t) : t[i].kind = "sync",
         NEW window, NEW composed, NEW n, NEW expected, Flight(held, symbols, window, composed, n, expected)
  PROVE  Flight(held, symbols \o t, <<>>, composed, n, expected)
<1> DEFINE new == symbols \o t
<1>1. /\ Len(symbols) \in Nat /\ Len(t) \in Nat /\ Len(new) = Len(symbols) + Len(t)
      /\ \A p \in 1 .. Len(symbols) + Len(t) : new[p] = IF p <= Len(symbols) THEN symbols[p] ELSE t[p - Len(symbols)]
  BY LenProperties, ConcatProperties
<1>2. /\ LifeFine(held, composed, n, expected)
      /\ \A p \in 1 .. Len(symbols) :
           /\ LifeFine(symbols[p], composed, n, expected) /\ Repeats(held, symbols[p])
           /\ \A q \in 1 .. p - 1 : /\ Repeats(symbols[q], symbols[p])
                                    /\ symbols[q].kind = "sync" => Renews(symbols[p], q, held, symbols, n)
  BY DEF Flight
<1> HIDE DEF new
<1>3. ASSUME NEW z, NEW q \in 1 .. Len(symbols), Renews(z, q, held, symbols, n)
      PROVE  Renews(z, q, held, new, n)
  <2>1. \A k \in 1 .. q - 1 : k \in 1 .. Len(symbols) /\ new[k] = symbols[k]
    BY <1>1
  <2> QED BY <1>3, <2>1 DEF Renews
<1>4. ASSUME NEW y, y.kind # "data"
      PROVE  LifeFine(y, composed, n, expected) /\ \A z, q : Repeats(z, y) /\ Renews(y, q, held, new, n)
  BY <1>4 DEF LifeFine, Repeats, Renews, Newer, Behind
<1>5. ASSUME NEW p \in 1 .. Len(new)
      PROVE  /\ LifeFine(new[p], composed, n, expected) /\ Repeats(held, new[p])
             /\ \A q \in 1 .. p - 1 : /\ Repeats(new[q], new[p])
                                      /\ new[q].kind = "sync" => Renews(new[p], q, held, new, n)
  <2>1. CASE p \in 1 .. Len(symbols)
    <3>1. new[p] = symbols[p] /\ \A q \in 1 .. p - 1 : q \in 1 .. Len(symbols) /\ new[q] = symbols[q]
      BY <1>1, <2>1
    <3> QED BY <1>2, <1>3, <2>1, <3>1
  <2>2. CASE p \notin 1 .. Len(symbols)
    <3>1. p - Len(symbols) \in 1 .. Len(t) /\ new[p] = t[p - Len(symbols)]
      BY <1>1, <2>2
    <3>2. new[p].kind # "data"
      BY <3>1
    <3> QED BY <1>4, <3>2
  <2> QED BY <2>1, <2>2
<1>6. Flight(held, new, <<>>, composed, n, expected)
  BY <1>2, <1>5 DEF Flight
<1> QED BY <1>6 DEF new

-----------------------------------------------------------------------------
\* The window.

LEMMA LatelyEmpty ==
  ASSUME NEW composed, NEW seq
  PROVE  Lately(<<>>, composed, seq)
BY LinkConstants DEF Lately

LEMMA LatelyRest ==
  ASSUME NEW window \in Seq(DataFrames), window # <<>>, NEW composed \in Seq(Payload), NEW seq,
         Lately(window, composed, seq)
  PROVE  Lately(Tail(window), composed, seq)
<1> DEFINE rest == Tail(window)
           w == Len(window)
           c == Len(composed)
<1>1. /\ w \in Nat /\ w >= 1 /\ c \in Nat /\ Len(rest) = w - 1
      /\ \A i \in 1 .. w - 1 : rest[i] = window[i + 1]
  BY LenProperties, HeadTailProperties, EmptySeq
<1>2. /\ w <= DEPTH
      /\ \A i \in 1 .. w : window[i].no = c - w + i /\ (window[i].seq + (w - i) + 1) % SEQ_MOD = seq
  BY DEF Lately
<1> HIDE DEF rest, w, c
<1>3. Len(rest) <= DEPTH
  BY <1>1, <1>2, LinkConstants
<1>4. ASSUME NEW i \in 1 .. Len(rest)
      PROVE  rest[i].no = c - Len(rest) + i /\ (rest[i].seq + (Len(rest) - i) + 1) % SEQ_MOD = seq
  <2>1. i + 1 \in 1 .. w /\ rest[i] = window[i + 1] /\ w - (i + 1) = Len(rest) - i /\ c - w + (i + 1) = c - Len(rest) + i
    BY <1>1
  <2> QED BY <1>2, <2>1
<1>5. Lately(rest, composed, seq)
  BY <1>3, <1>4 DEF Lately, c
<1> QED BY <1>5 DEF rest

LEMMA LatelyLonger ==
  ASSUME NEW window \in Seq(DataFrames), NEW composed \in Seq(Payload), NEW seq \in SeqNr,
         Lately(window, composed, seq), Len(window) < DEPTH, NEW payload \in Payload,
         NEW x \in DataFrames, x = DataFrame(seq, Len(composed) + 1, payload)
  PROVE  Lately(Append(window, x), Append(composed, payload), NextSeq(seq))
<1> DEFINE longer == Append(window, x)
           all == Append(composed, payload)
           w == Len(window)
           c == Len(composed)
<1>1. /\ w \in Nat /\ c \in Nat /\ Len(longer) = w + 1 /\ longer[w + 1] = x /\ Len(all) = c + 1
      /\ \A i \in 1 .. w : longer[i] = window[i]
  BY LenProperties, AppendProperties
<1>2. /\ w < DEPTH
      /\ \A i \in 1 .. w : window[i].no = c - w + i /\ (window[i].seq + (w - i) + 1) % SEQ_MOD = seq
  BY DEF Lately
<1>3. x.no = c + 1 /\ x.seq = seq /\ seq \in Int
  BY DEF DataFrame, SeqNr
<1>n. \A i \in 1 .. w : window[i].no = c - w + i
  BY <1>2
<1>4. \A i \in 1 .. w : window[i].seq \in Int
  <2> SUFFICES ASSUME NEW i \in 1 .. w PROVE window[i].seq \in Int
    OBVIOUS
  <2>1. window[i] \in DataFrames
    BY ElementOfSeq
  <2> QED BY <2>1 DEF DataFrames, SeqNr
<1> HIDE DEF longer, all, w, c
<1>5. Len(longer) <= DEPTH
  BY <1>1, <1>2, LinkConstants
<1>6. ASSUME NEW i \in 1 .. Len(longer)
      PROVE  /\ longer[i].no = Len(all) - Len(longer) + i
             /\ (longer[i].seq + (Len(longer) - i) + 1) % SEQ_MOD = NextSeq(seq)
  <2>1. CASE i \in 1 .. w
    <3> DEFINE a == window[i].seq
               d == (w - i) + 1
    <3>1. a \in Int /\ d \in Int
      BY <1>1, <1>4, <2>1
    <3>2. longer[i].seq = a /\ a + (w - i) + 1 = a + d /\ a + (Len(longer) - i) + 1 = a + d + 1
      BY <1>1, <2>1, <3>1
    <3>3. (a + (w - i) + 1) % SEQ_MOD = seq
      BY <1>2, <2>1
    <3> HIDE DEF a, d
    <3>4. NextSeq(seq) = (a + d + 1) % SEQ_MOD
      BY <3>1, <3>2, <3>3, NumberCountsOn
    <3>5. longer[i].no = Len(all) - Len(longer) + i
      <4>1. longer[i].no = c - w + i
        BY <1>1, <1>n, <2>1
      <4>2. Len(all) - Len(longer) = c - w
        BY <1>1
      <4> QED BY <4>1, <4>2
    <3>6. longer[i].seq + (Len(longer) - i) + 1 = a + d + 1
      BY <3>2
    <3>7. (longer[i].seq + (Len(longer) - i) + 1) % SEQ_MOD = NextSeq(seq)
      BY <3>4, <3>6
    <3> QED BY <3>5, <3>7
  <2>2. CASE i = w + 1
    <3>1. longer[i] = x /\ Len(all) - Len(longer) + i = c + 1 /\ seq + (Len(longer) - i) + 1 = seq + 1
      BY <1>1, <1>3, <2>2
    <3> QED BY <1>3, <3>1 DEF NextSeq
  <2> QED BY <1>1, <2>1, <2>2
<1>7. Lately(longer, all, NextSeq(seq))
  BY <1>5, <1>6 DEF Lately
<1> QED BY <1>7 DEF longer, all

LEMMA RepeatsSelf ==
  ASSUME NEW x \in DataFrames
  PROVE  Repeats(x, x)
<1>1. x.seq \in 0 .. SEQ_MOD - 1 /\ x.no \in Int
  BY DEF DataFrames, SeqNr
<1>2. x.seq + (x.no - x.no) = SEQ_MOD * 0 + x.seq
  BY <1>1, LinkConstants
<1>3. (x.seq + (x.no - x.no)) % SEQ_MOD = x.seq
  BY <1>1, <1>2, LinkConstants, Remainder
<1> QED BY <1>1, <1>3, LinkConstants DEF Repeats

\* The oldest pending frame is sent again.
LEMMA OldestRepeats ==
  ASSUME NEW window \in Seq(DataFrames), NEW composed \in Seq(Payload), NEW seq, Lately(window, composed, seq),
         NEW j \in 1 .. Len(window)
  PROVE  Repeats(window[1], window[j])
<1>1. Len(window) \in Nat /\ Len(composed) \in Nat
  BY LenProperties
<1>2. /\ window[1].no = Len(composed) - Len(window) + 1
      /\ window[j].no = Len(composed) - Len(window) + j
  BY <1>1 DEF Lately
<1>3. CASE j = 1
  BY <1>3, RepeatsSelf, ElementOfSeq
<1>4. CASE j # 1
  <2>1. ~(window[j].no <= window[1].no)
    BY <1>1, <1>2, <1>4
  <2> QED BY <2>1 DEF Repeats
<1> QED BY <1>3, <1>4

\* The new frame belongs to the window as its last.
LEMMA NewestRepeats ==
  ASSUME NEW window \in Seq(DataFrames), NEW composed \in Seq(Payload), NEW seq \in SeqNr,
         Lately(window, composed, seq), Len(window) < DEPTH, NEW payload \in Payload,
         NEW x \in DataFrames, x = DataFrame(seq, Len(composed) + 1, payload),
         NEW j \in 1 .. Len(window) + 1
  PROVE  Repeats(x, Append(window, x)[j])
<1> DEFINE w == Len(window)
           c == Len(composed)
<1>1. /\ w \in Nat /\ c \in Nat /\ Append(window, x)[w + 1] = x
      /\ \A i \in 1 .. w : Append(window, x)[i] = window[i]
  BY LenProperties, AppendProperties
<1>2. CASE j = w + 1
  BY <1>1, <1>2, RepeatsSelf
<1>3. CASE j \in 1 .. w
  <2> DEFINE y == window[j]
  <2>1. y.no = c - w + j /\ (y.seq + (w - j) + 1) % SEQ_MOD = seq /\ w < DEPTH
    BY <1>3 DEF Lately
  <2>2. y \in DataFrames
    BY <1>3, ElementOfSeq
  <2>3. y.seq \in Int
    BY <2>2 DEF DataFrames, SeqNr
  <2>4. x.no = c + 1 /\ x.seq = seq
    BY DEF DataFrame
  <2> HIDE DEF y, w, c
  <2>5. x.no < y.no + DEPTH /\ x.no - y.no = (w - j) + 1
    BY <1>1, <1>3, <2>1, <2>4, LinkConstants
  <2>6. y.seq + (x.no - y.no) = y.seq + (w - j) + 1
    <3>1. \A a, d \in Int : a + (d + 1) = a + d + 1
      OBVIOUS
    <3>2. w - j \in Int
      BY <1>1, <1>3
    <3>3. y.seq + ((w - j) + 1) = y.seq + (w - j) + 1
      BY <2>3, <3>1, <3>2
    <3> QED BY <2>5, <3>3
  <2>7. Repeats(x, y)
    BY <2>1, <2>4, <2>5, <2>6 DEF Repeats
  <2> QED BY <1>1, <1>3, <2>7 DEF y
<1> QED BY <1>1, <1>2, <1>3 DEF w
-----------------------------------------------------------------------------
\* What the frames hold, and what was handed over.

LEMMA PortionedLonger ==
  ASSUME NEW composed \in Seq(Payload), NEW bytes, NEW left, NEW rest, Portioned(composed, bytes, left),
         \A ch \in Channel : bytes[ch] \in Int /\ left[ch] \in Int /\ rest[ch] \in Int /\ rest[ch] <= left[ch],
         NEW x \in Payload, x.from = bytes[x.ch] - left[x.ch], x.from + x.len = bytes[x.ch] - rest[x.ch]
  PROVE  Portioned(Append(composed, x), bytes, rest)
<1> DEFINE all == Append(composed, x)
           c == Len(composed)
<1>1. c \in Nat /\ Len(all) = c + 1 /\ all[c + 1] = x /\ \A i \in 1 .. c : all[i] = composed[i]
  BY LenProperties, AppendProperties
<1>2. \A i \in 1 .. c : composed[i] \in Payload
  BY ElementOfSeq
<1>3. \A y \in Payload : y.ch \in Channel /\ y.from \in Int /\ y.len \in Int /\ y.len > 0
  BY LinkConstants DEF Payload
<1>4. /\ \A i \in 1 .. c : composed[i].from + composed[i].len <= bytes[composed[i].ch] - left[composed[i].ch]
      /\ \A j \in 1 .. c : \A i \in 1 .. j - 1 :
           composed[i].ch = composed[j].ch => composed[i].from < composed[j].from
  BY DEF Portioned
<1> HIDE DEF all, c
<1>5. ASSUME NEW i \in 1 .. Len(all) PROVE all[i].from + all[i].len <= bytes[all[i].ch] - rest[all[i].ch]
  <2>1. CASE i \in 1 .. c
    <3> DEFINE y == composed[i]
               a == y.from + y.len
               b == bytes[y.ch]
               l == left[y.ch]
               r == rest[y.ch]
    <3>y. y \in Payload
      BY <1>2, <2>1
    <3>c. y.ch \in Channel /\ y.from \in Int /\ y.len \in Int
      BY <1>3, <3>y
    <3>d. b \in Int /\ l \in Int /\ r \in Int /\ r <= l
      BY <3>c
    <3>e. a <= b - l
      BY <1>4, <2>1
    <3>1. a \in Int /\ a <= b - l /\ b \in Int /\ l \in Int /\ r \in Int /\ r <= l
      BY <3>c, <3>d, <3>e
    <3> HIDE DEF a, b, l, r
    <3>2. a <= b - r
      BY <3>1
    <3> QED BY <1>1, <2>1, <3>2 DEF a, b, r
  <2>2. CASE i = c + 1
    BY <1>1, <1>3, <2>2
  <2> QED BY <1>1, <2>1, <2>2
<1>6. ASSUME NEW j \in 1 .. Len(all), NEW i \in 1 .. j - 1, all[i].ch = all[j].ch
      PROVE  all[i].from < all[j].from
  <2>1. CASE j \in 1 .. c
    <3>1. i \in 1 .. c /\ all[i] = composed[i] /\ all[j] = composed[j]
      BY <1>1, <2>1
    <3> QED BY <1>4, <1>6, <2>1, <3>1
  <2>2. CASE j = c + 1
    <3>1. i \in 1 .. c /\ all[i] = composed[i] /\ all[j] = x
      BY <1>1, <2>2
    <3> DEFINE y == composed[i]
               b == bytes[x.ch]
               l == left[x.ch]
    <3>2. y.ch = x.ch /\ y.from + y.len <= bytes[y.ch] - left[y.ch]
      BY <1>4, <1>6, <3>1
    <3>3. y.from \in Int /\ y.len \in Int /\ y.len > 0 /\ b \in Int /\ l \in Int /\ x.from = b - l
      BY <1>2, <1>3, <3>1
    <3>4. y.from + y.len <= b - l
      BY <3>2
    <3> HIDE DEF b, l
    <3>5. y.from < x.from
      BY <3>3, <3>4
    <3> QED BY <3>1, <3>5
  <2> QED BY <1>1, <2>1, <2>2
<1>7. Portioned(all, bytes, rest)
  BY <1>5, <1>6 DEF Portioned
<1> QED BY <1>7 DEF all

\* Bytes are added to a channel, or forgotten.
LEMMA PortionedStays ==
  ASSUME NEW composed \in Seq(Payload), NEW bytes, NEW left, Portioned(composed, bytes, left),
         NEW more, NEW rest,
         \A ch \in Channel : /\ bytes[ch] \in Int /\ left[ch] \in Int /\ more[ch] \in Int /\ rest[ch] \in Int
                             /\ bytes[ch] - left[ch] <= more[ch] - rest[ch]
  PROVE  Portioned(composed, more, rest)
<1>1. ASSUME NEW i \in 1 .. Len(composed)
      PROVE  composed[i].from + composed[i].len <= more[composed[i].ch] - rest[composed[i].ch]
  <2> DEFINE y == composed[i]
             a == y.from + y.len
             b == bytes[y.ch] - left[y.ch]
             d == more[y.ch] - rest[y.ch]
  <2>1. y \in Payload
    BY ElementOfSeq
  <2>2. y.ch \in Channel /\ y.from \in Int /\ y.len \in Int
    BY <2>1 DEF Payload
  <2>c. \A u, v \in Int : u - v \in Int /\ u + v \in Int
    OBVIOUS
  <2>d. bytes[y.ch] \in Int /\ left[y.ch] \in Int /\ more[y.ch] \in Int /\ rest[y.ch] \in Int /\ b <= d
    BY <2>2
  <2>3. a \in Int /\ b \in Int /\ d \in Int /\ b <= d
    BY <2>2, <2>c, <2>d
  <2>4. a <= b
    BY DEF Portioned
  <2> HIDE DEF a, b, d
  <2>5. a <= d
    BY <2>3, <2>4
  <2> QED BY <2>5 DEF a, d
<1> QED BY <1>1 DEF Portioned

\* More frames are composed, or the station starts a new life.
LEMMA GivenOnceLonger ==
  ASSUME NEW delivered, NEW before, NEW composed \in Seq(Payload), NEW x \in Payload,
         NEW n \in 0 .. Len(composed), GivenOnce(delivered, before, composed, n)
  PROVE  GivenOnce(delivered, before, Append(composed, x), n)
<1>1. \A k \in 1 .. n : Append(composed, x)[k] = composed[k]
  BY LenProperties, AppendProperties
<1> QED BY <1>1 DEF GivenOnce

LEMMA NothingGiven ==
  ASSUME NEW delivered \in Seq(Payload), NEW composed, NEW n
  PROVE  GivenOnce(delivered, Len(delivered), composed, n)
BY LenProperties DEF GivenOnce

\* A newer frame is handed over.
LEMMA GivenOnceMore ==
  ASSUME NEW delivered \in Seq(Payload), NEW before \in Nat, NEW composed \in Seq(Payload), NEW n \in Nat,
         GivenOnce(delivered, before, composed, n), NEW bytes, NEW left, Portioned(composed, bytes, left),
         NEW m \in 1 .. Len(composed), n < m
  PROVE  GivenOnce(Append(delivered, composed[m]), before, composed, m)
<1> DEFINE x == composed[m]
           all == Append(delivered, x)
           d == Len(delivered)
<1>1. x \in Payload /\ Len(composed) \in Nat
  BY ElementOfSeq, LenProperties
<1>2. d \in Nat /\ Len(all) = d + 1 /\ all[d + 1] = x /\ \A i \in 1 .. d : all[i] = delivered[i]
  BY <1>1, LenProperties, AppendProperties
<1>3. /\ before <= d
      /\ \A j \in before + 1 .. d :
           /\ \E k \in 1 .. n : delivered[j] = composed[k]
           /\ \A i \in before + 1 .. j - 1 :
                delivered[i].ch = delivered[j].ch => delivered[i].from < delivered[j].from
  BY DEF GivenOnce
<1>4. \A i \in 1 .. m - 1 : composed[i].ch = composed[m].ch => composed[i].from < composed[m].from
  BY DEF Portioned
<1>5. \A k \in 1 .. n : k \in 1 .. m - 1 /\ k \in 1 .. m
  BY <1>1
<1>x. x = composed[m]
  OBVIOUS
<1> HIDE DEF x, all, d
<1>6. ASSUME NEW j \in before + 1 .. Len(all)
      PROVE  /\ \E k \in 1 .. m : all[j] = composed[k]
             /\ \A i \in before + 1 .. j - 1 : all[i].ch = all[j].ch => all[i].from < all[j].from
  <2>1. CASE j \in before + 1 .. d
    <3>1. all[j] = delivered[j] /\ \A i \in before + 1 .. j - 1 : all[i] = delivered[i]
      BY <1>2, <2>1
    <3>2. PICK k \in 1 .. n : delivered[j] = composed[k]
      BY <1>3, <2>1
    <3> QED BY <1>3, <1>5, <2>1, <3>1, <3>2
  <2>2. CASE j = d + 1
    <3>1. all[j] = composed[m] /\ m \in 1 .. m
      BY <1>1, <1>2, <1>x, <2>2
    <3>2. ASSUME NEW i \in before + 1 .. j - 1, all[i].ch = all[j].ch PROVE all[i].from < all[j].from
      <4>0. i \in before + 1 .. d /\ i \in 1 .. d
        BY <1>2, <2>2
      <4>1. i \in before + 1 .. d /\ all[i] = delivered[i]
        BY <1>2, <4>0
      <4>2. PICK k \in 1 .. n : delivered[i] = composed[k]
        BY <1>3, <4>1
      <4> QED BY <1>4, <1>5, <3>1, <3>2, <4>1, <4>2
    <3> QED BY <3>1, <3>2
  <2> QED BY <1>2, <2>1, <2>2
<1>7. before <= Len(all)
  BY <1>2, <1>3
<1>8. GivenOnce(all, before, composed, m)
  BY <1>6, <1>7 DEF GivenOnce
<1> QED BY <1>8 DEF all, x
-----------------------------------------------------------------------------
\* The two stations.

LifeThin == LinesThin({"data", "sync"})

LEMMA EmptyThins ==
  ASSUME NEW K, NEW s
  PROVE  Thins(K, <<>>, s)
<1> DEFINE f == [p \in 1 .. 0 |-> 0]
<1>1. f \in [1 .. Len(<<>>) -> Nat] /\ \A p \in 1 .. Len(<<>>) : FALSE
  OBVIOUS
<1> HIDE DEF f
<1> QED BY <1>1 DEF Thins

\* Station s, its line and the decoder of the other station.
LEMMA LifeTypes ==
  ASSUME TypeOK, NEW s \in Station
  PROVE  /\ log[s] \in Seq(Payload) /\ handed[s] \in Seq(Payload) /\ pending[s] \in Seq(DataFrames)
         /\ line[s] \in Seq(Symbol) /\ txSeqNr[s] \in SeqNr /\ nextExp[s] \in SeqNr
         /\ rxData[s] \in DataFrames \cup {Empty, Garbled}
BY DEF TypeOK

LEMMA SinceThin ==
  ASSUME TypeOK, TypeOK', NEW s \in Station, NEW o, o = Other(s), NEW n, Since(s, n),
         Thins({"data", "sync"}, line'[s], line[s]), Thins({"data"}, pending'[s], pending[s]),
         rxData'[o] = rxData[o] \/ rxData'[o].kind # "data", nextExp'[o] = nextExp[o],
         log'[s] = log[s], handed'[o] = handed[o], life'[o] = life[o], syncSent[o] => syncSent'[o]
  PROVE  Since(s, n)'
<1>1. /\ n \in 0 .. Len(log[s]) /\ (~syncSent[o] => n = 0)
      /\ Flight(rxData[o], line[s], pending[s], log[s], n, nextExp[o])
      /\ GivenOnce(handed[o], life[o], log[s], n)
  BY DEF Since
<1>2. /\ line[s] \in Seq(Symbol) /\ pending[s] \in Seq(DataFrames)
      /\ line'[s] \in Seq(Symbol) /\ pending'[s] \in Seq(DataFrames)
  BY DEF TypeOK
<1>3. Flight(rxData'[o], line'[s], pending'[s], log[s], n, nextExp[o])
  BY <1>1, <1>2, FlightThin
<1> QED BY <1>1, <1>3 DEF Since

LEMMA PendingSame ==
  ASSUME TypeOK, UNCHANGED pending
  PROVE  \A s \in Station : Thins({"data"}, pending'[s], pending[s])
<1>1. \A s \in Station : pending[s] \in Seq(DataFrames)
  BY DEF TypeOK
<1> QED BY <1>1, ThinsSelf

\* Steps that only lose something.
LEMMA StreamsOnlyLose ==
  ASSUME TypeOK, TypeOK', Streams, UNCHANGED <<nextExp, log, handed, life>>,
         LifeThin, \A s \in Station : Thins({"data"}, pending'[s], pending[s]),
         \A s \in Station : rxData'[s] = rxData[s] \/ rxData'[s].kind # "data",
         \A s \in Station : syncSent[s] => syncSent'[s]
  PROVE  Streams'
<1> SUFFICES ASSUME NEW s \in Station PROVE \E n \in Nat : Since(s, n)'
  BY DEF Streams
<1> DEFINE o == Other(s)
<1>1. o \in Station /\ o = Other(s)
  BY Stations
<1>2. PICK n \in Nat : Since(s, n)
  BY DEF Streams
<1>3. /\ Thins({"data", "sync"}, line'[s], line[s]) /\ Thins({"data"}, pending'[s], pending[s])
      /\ rxData'[o] = rxData[o] \/ rxData'[o].kind # "data"
      /\ syncSent[o] => syncSent'[o]
  BY <1>1 DEF LifeThin, LinesThin
<1> HIDE DEF o
<1>4. Since(s, n)'
  BY <1>1, <1>2, <1>3, SinceThin
<1> QED BY <1>4

LEMMA WindowsSame ==
  ASSUME Windows, UNCHANGED <<pending, log, txSeqNr, written, txCount>>
  PROVE  Windows'
BY DEF Windows

\* A reset forgets the window and starts the numbers again.
LEMMA ResetWindows ==
  ASSUME TypeOK, Windows, NEW e \in Station, ResetProtocol(e), UNCHANGED <<log, written, txCount>>
  PROVE  Windows'
<1> SUFFICES ASSUME NEW s \in Station
             PROVE  /\ Lately(pending'[s], log'[s], txSeqNr'[s])
                    /\ Portioned(log'[s], written'[s], txCount'[s])
  BY DEF Windows
<1>1. Lately(pending[s], log[s], txSeqNr[s]) /\ Portioned(log[s], written[s], txCount[s])
  BY DEF Windows
<1>2. CASE s = e
  <2>1. pending'[s] = <<>>
    BY <1>2 DEF TypeOK, ResetProtocol
  <2> QED BY <1>1, <2>1, LatelyEmpty
<1>3. CASE s # e
  <2>1. pending'[s] = pending[s] /\ txSeqNr'[s] = txSeqNr[s]
    BY <1>3 DEF TypeOK, ResetProtocol
  <2> QED BY <1>1, <2>1
<1> QED BY <1>2, <1>3

\* Both directions after a step of station e.
LEMMA BothStreams ==
  ASSUME NEW e \in Station, NEW o, o = Other(e), NEW n \in Nat, Since(e, n)', NEW m \in Nat, Since(o, m)'
  PROVE  Streams'
<1>1. \A s \in Station : s = e \/ s = o
  BY Stations
<1> QED BY <1>1 DEF Streams
\* A step that adds nothing to lines and windows and forgets no number.
LEMMA LifeLoses ==
  ASSUME TypeOK, TypeOK', Streams, Windows,
         UNCHANGED <<pending, txSeqNr, nextExp, written, txCount, log, handed, life>>, LifeThin,
         \A s \in Station : rxData'[s] = rxData[s] \/ rxData'[s].kind # "data",
         \A s \in Station : syncSent[s] => syncSent'[s]
  PROVE  Streams' /\ Windows'
<1>1. \A s \in Station : Thins({"data"}, pending'[s], pending[s])
  BY PendingSame
<1> QED BY <1>1, StreamsOnlyLose, WindowsSame

LEMMA SendLife ==
  ASSUME TypeOK, TypeOK', Streams, Windows, NEW e \in Station, NEW ch \in Channel, NEW len \in Nat,
         NEW more \in BOOLEAN, Send(e, ch, len, more), UNCHANGED life
  PROVE  Streams' /\ Windows'
<1>1. UNCHANGED <<pending, txSeqNr, nextExp, rxData, line, syncSent, log, handed, life>>
  BY DEF Send, schedulerVars, rxVars, history
<1>2. Streams'
  <2>1. LifeThin
    BY <1>1, LinesSame DEF LifeThin
  <2> QED BY <1>1, <2>1, PendingSame, StreamsOnlyLose
<1>3. ASSUME NEW s \in Station PROVE Portioned(log[s], written'[s], txCount'[s])
  <2> DEFINE accepted == Least(len, TxRoom - txCount[e][ch])
  <2>1. log[s] \in Seq(Payload) /\ Portioned(log[s], written[s], txCount[s])
    BY LifeTypes DEF Windows
  <2>2. /\ txCount' = [txCount EXCEPT ![e] = [txCount[e] EXCEPT ![ch] = txCount[e][ch] + accepted]]
        /\ written' = [written EXCEPT ![e] = [written[e] EXCEPT ![ch] = written[e][ch] + accepted]]
    BY DEF Send
  <2>3. /\ txCount \in [Station -> [Channel -> 0 .. TxRoom]]
        /\ written \in [Station -> [Channel -> 0 .. MaxWritten]]
    BY DEF TypeOK
  <2>4. accepted \in Int
    BY <2>3, LinkConstants DEF Least
  <2> HIDE DEF accepted
  <2>5. ASSUME NEW c \in Channel
        PROVE  /\ written[s][c] \in Int /\ txCount[s][c] \in Int
               /\ written'[s][c] \in Int /\ txCount'[s][c] \in Int
               /\ written[s][c] - txCount[s][c] <= written'[s][c] - txCount'[s][c]
    <3>1. written[s][c] \in Int /\ txCount[s][c] \in Int
      BY <2>3
    <3>2. CASE s = e /\ c = ch
      <4>1. written'[s][c] = written[s][c] + accepted /\ txCount'[s][c] = txCount[s][c] + accepted
        BY <2>2, <2>3, <3>2
      <4> QED BY <2>4, <3>1, <4>1
    <3>3. CASE ~(s = e /\ c = ch)
      <4>1. written'[s][c] = written[s][c] /\ txCount'[s][c] = txCount[s][c]
        BY <2>2, <2>3, <3>3
      <4> QED BY <3>1, <4>1
    <3> QED BY <3>2, <3>3
  <2> QED BY <2>1, <2>5, PortionedStays
<1> QED BY <1>1, <1>2, <1>3 DEF Windows

\* Symbols that come in and are neither handed over nor end a frame.
LEMMA ReceiveLossLife ==
  ASSUME TypeOK, TypeOK', Streams, Windows, NEW e \in Station, UNCHANGED life,
         \/ ReceiveAck(e) \/ ReceiveNoise(e)
         \/ ReceiveSync(e) /\ UNCHANGED <<pending, acks, txSeqNr, rxVars>>
         \/ ReceiveEndOfAck(e) /\ ~AckMatches(e)
  PROVE  Streams' /\ Windows'
<1>1. PICK kinds : Take(e, kinds)
  BY DEF ReceiveAck, ReceiveNoise, ReceiveSync, ReceiveEndOfAck
<1>2. LifeThin
  BY <1>1, TakeThin DEF LifeThin
<1>3. UNCHANGED <<syncSent, written, txCount, log>>
  BY <1>1 DEF Take, channelVars
<1>4. UNCHANGED <<pending, txSeqNr, nextExp, handed, rxData>>
  BY DEF ReceiveAck, ReceiveNoise, ReceiveSync, ReceiveEndOfAck, rxVars
<1> QED BY <1>2, <1>3, <1>4, LifeLoses

LEMMA ReceiveEndOfAckLife ==
  ASSUME TypeOK, TypeOK', Streams, Windows, NEW e \in Station, ReceiveEndOfAck(e), UNCHANGED life
  PROVE  Streams' /\ Windows'
<1>1. Take(e, {"endOfAck"})
  BY DEF ReceiveEndOfAck
<1>2. LifeThin
  BY <1>1, TakeThin DEF LifeThin
<1>3. UNCHANGED <<syncSent, written, txCount, log, txSeqNr, nextExp, handed, rxData>>
  BY <1>1 DEF Take, channelVars, ReceiveEndOfAck
<1>4. CASE ~AckMatches(e)
  BY <1>4, ReceiveLossLife
<1>5. CASE AckMatches(e)
  <2>1. pending' = [pending EXCEPT ![e] = Tail(pending[e])] /\ pending[e] # <<>>
    BY <1>5 DEF ReceiveEndOfAck, AckMatches
  <2>2. ASSUME NEW s \in Station
        PROVE  /\ Thins({"data"}, pending'[s], pending[s])
               /\ Lately(pending'[s], log[s], txSeqNr[s])
    <3>1. pending[s] \in Seq(DataFrames) /\ log[s] \in Seq(Payload) /\ Lately(pending[s], log[s], txSeqNr[s])
      BY LifeTypes DEF Windows
    <3>2. CASE s = e
      <4>1. pending'[s] = Tail(pending[s]) /\ pending[s] # <<>>
        BY <2>1, <3>2 DEF TypeOK
      <4> QED BY <3>1, <4>1, TailThins, LatelyRest
    <3>3. CASE s # e
      <4>1. pending'[s] = pending[s]
        BY <2>1, <3>3 DEF TypeOK
      <4> QED BY <3>1, <4>1, ThinsSelf
    <3> QED BY <3>2, <3>3
  <2>3. Streams'
    BY <1>2, <1>3, <2>2, StreamsOnlyLose
  <2>4. Windows'
    BY <1>3, <2>2 DEF Windows
  <2> QED BY <2>3, <2>4
<1> QED BY <1>4, <1>5
\* What a reset leaves of the two stations.
LEMMA ResetFields ==
  ASSUME TypeOK, NEW e \in Station, NEW o, o = Other(e), ResetProtocol(e)
  PROVE  /\ pending'[e] = <<>> /\ pending'[o] = pending[o]
         /\ txSeqNr'[e] = 0 /\ txSeqNr'[o] = txSeqNr[o]
         /\ rxData'[e] = Empty /\ rxData'[o] = rxData[o]
         /\ nextExp'[e] = 0 /\ nextExp'[o] = nextExp[o]
<1>1. o \in Station /\ o # e
  BY Stations
<1> QED BY <1>1 DEF TypeOK, ResetProtocol

\* The third SYNC: what is on its way to the station is newer than all it was given.
LEMMA ResyncLife ==
  ASSUME TypeOK, TypeOK', Streams, Windows, NEW e \in Station, ReceiveSync(e), ResetProtocol(e), UNCHANGED life
  PROVE  Streams' /\ Windows'
<1> DEFINE o == Other(e)
<1>1. Take(e, {"sync"}) /\ UNCHANGED <<handed, acked>>
  BY DEF ReceiveSync
<1>2. UNCHANGED <<syncSent, written, txCount, log>>
  BY <1>1 DEF Take, channelVars
<1>3. o \in Station /\ o # e /\ e = Other(o) /\ o = Other(e)
  BY Stations
<1>4. Windows'
  BY <1>2, ResetWindows
<1>5. /\ line[o] \in Seq(Symbol) /\ line[o] # <<>> /\ Head(line[o]).kind = "sync"
      /\ line'[o] = Tail(line[o]) /\ line'[e] = line[e]
  BY <1>1, <1>3 DEF Take, Incoming, TypeOK
<1>6. PICK n \in Nat : Since(e, n)
  BY DEF Streams
<1>7. PICK m \in Nat : Since(o, m)
  BY <1>3 DEF Streams
<1> HIDE DEF o
<1>8. /\ pending'[e] = <<>> /\ pending'[o] = pending[o] /\ rxData'[e] = Empty /\ rxData'[o] = rxData[o]
      /\ nextExp'[e] = 0 /\ nextExp'[o] = nextExp[o]
  BY <1>3, ResetFields
<1>9. Since(e, n)'
  <2>1. line[e] \in Seq(Symbol)
    BY LifeTypes
  <2>2. Thins({"data", "sync"}, line'[e], line[e]) /\ Thins({"data"}, pending'[e], pending[e])
    BY <1>5, <1>8, <2>1, ThinsSelf, EmptyThins
  <2> QED BY <1>1, <1>2, <1>3, <1>6, <1>8, <2>2, SinceThin
<1>10. Since(o, m)'
  <2>1. /\ m \in 0 .. Len(log[o]) /\ (~syncSent[e] => m = 0)
        /\ Flight(rxData[e], line[o], pending[o], log[o], m, nextExp[e])
        /\ GivenOnce(handed[e], life[e], log[o], m)
    BY <1>3, <1>7 DEF Since
  <2>2. pending[o] \in Seq(DataFrames)
    BY <1>3, LifeTypes
  <2>3. Flight(Empty, Tail(line[o]), pending[o], log[o], m, 0)
    BY <1>5, <2>1, <2>2, FlightSynced, HeldFrames
  <2>4. /\ m \in 0 .. Len(log'[o]) /\ (~syncSent'[e] => m = 0)
        /\ Flight(rxData'[e], line'[o], pending'[o], log'[o], m, nextExp'[e])
        /\ GivenOnce(handed'[e], life'[e], log'[o], m)
    BY <1>1, <1>2, <1>5, <1>8, <2>1, <2>3
  <2> QED BY <1>3, <2>4 DEF Since
<1> QED BY <1>3, <1>4, <1>9, <1>10, BothStreams

LEMMA ReceiveSyncLife ==
  ASSUME TypeOK, TypeOK', Streams, Windows, NEW e \in Station, ReceiveSync(e), UNCHANGED life
  PROVE  Streams' /\ Windows'
BY ResyncLife, ReceiveLossLife DEF ReceiveSync

\* The station starts: it has been given nothing yet, and what it sends from now on
\* comes behind its SYNCs.
LEMMA TaskBeginLife ==
  ASSUME SyncsWhole, TypeOK, TypeOK', Streams, Windows, NEW e \in Station, TaskBegin(e), UNCHANGED life
  PROVE  Streams' /\ Windows'
<1> DEFINE o == Other(e)
<1>1. UNCHANGED <<written, txCount, log, handed>>
  BY DEF TaskBegin, channelVars, history
<1>2. CASE syncSent[e]
  <2>1. LifeThin
    BY <1>2, TaskBeginThin DEF LifeThin
  <2>2. UNCHANGED <<syncSent, pending, txSeqNr, nextExp, rxData>>
    BY <1>2 DEF TaskBegin, rxVars
  <2> QED BY <1>1, <2>1, <2>2, LifeLoses
<1>3. CASE ~syncSent[e]
  <2>1. /\ line' = [line EXCEPT ![e] = line[e] \o Syncs(5)] /\ ResetProtocol(e)
        /\ syncSent' = [syncSent EXCEPT ![e] = TRUE]
    <3>1. PICK n \in SyncWrites :
            /\ line' = [line EXCEPT ![e] = line[e] \o Syncs(n)]
            /\ \/ n >= 5 /\ syncSent' = [syncSent EXCEPT ![e] = TRUE] /\ ResetProtocol(e)
               \/ n < 5 /\ UNCHANGED <<syncSent, pending, acks, txSeqNr, rxVars>>
      BY <1>3 DEF TaskBegin
    <3>2. n = 5
      BY DEF SyncsWhole
    <3> QED BY <3>1, <3>2
  <2>2. Windows'
    BY <1>1, <2>1, ResetWindows
  <2>3. o \in Station /\ o # e /\ e = Other(o) /\ o = Other(e)
    BY Stations
  <2>4. PICK n \in Nat : Since(e, n)
    BY DEF Streams
  <2>5. PICK m \in Nat : Since(o, m)
    BY <2>3 DEF Streams
  <2> HIDE DEF o
  <2>6. /\ pending'[e] = <<>> /\ pending'[o] = pending[o] /\ rxData'[e] = Empty /\ rxData'[o] = rxData[o]
        /\ nextExp'[e] = 0 /\ nextExp'[o] = nextExp[o]
    BY <2>1, <2>3, ResetFields
  <2>7. line'[e] = line[e] \o Syncs(5) /\ line'[o] = line[o] /\ syncSent'[e] = TRUE /\ syncSent'[o] = syncSent[o]
    BY <2>1, <2>3 DEF TypeOK
  <2>8. Since(e, n)'
    <3>1. /\ n \in 0 .. Len(log[e]) /\ (~syncSent[o] => n = 0)
          /\ Flight(rxData[o], line[e], pending[e], log[e], n, nextExp[o])
          /\ GivenOnce(handed[o], life[o], log[e], n)
      BY <2>3, <2>4 DEF Since
    <3>2. line[e] \in Seq(Symbol)
      BY LifeTypes
    <3>3. Syncs(5) \in Seq(Symbol) /\ \A i \in 1 .. Len(Syncs(5)) : Syncs(5)[i].kind = "sync"
      BY SyncsType, PlainSymbols
    <3> DEFINE t == Syncs(5)
    <3> HIDE DEF t
    <3>4. t \in Seq(Symbol) /\ \A i \in 1 .. Len(t) : t[i].kind = "sync"
      BY <3>3 DEF t
    <3>5. Flight(rxData[o], line[e] \o t, <<>>, log[e], n, nextExp[o])
      BY <3>1, <3>2, <3>4, FlightSyncs
    <3>6. /\ n \in 0 .. Len(log'[e]) /\ (~syncSent'[o] => n = 0)
          /\ Flight(rxData'[o], line'[e], pending'[e], log'[e], n, nextExp'[o])
          /\ GivenOnce(handed'[o], life'[o], log'[e], n)
      BY <1>1, <2>6, <2>7, <3>1, <3>5 DEF t
    <3> QED BY <2>3, <3>6 DEF Since
  <2>9. Since(o, m)'
    <3>1. /\ m \in 0 .. Len(log[o]) /\ m = 0
          /\ Flight(rxData[e], line[o], pending[o], log[o], m, nextExp[e])
          /\ GivenOnce(handed[e], life[e], log[o], m)
      BY <1>3, <2>3, <2>5 DEF Since
    <3>2. line[o] \in Seq(Symbol) /\ pending[o] \in Seq(DataFrames)
      BY <2>3, LifeTypes
    <3>3. Flight(rxData[e], line[o], pending[o], log[o], 0, 0)
      BY <3>1, <3>2, FlightFresh
    <3>4. Thins({"data", "sync"}, line[o], line[o]) /\ Thins({"data"}, pending[o], pending[o])
      BY <3>2, ThinsSelf
    <3>5. Flight(Empty, line[o], pending[o], log[o], 0, 0)
      BY <3>2, <3>3, <3>4, FlightThin, HeldFrames
    <3>6. /\ m \in 0 .. Len(log'[o]) /\ (~syncSent'[e] => m = 0)
          /\ Flight(rxData'[e], line'[o], pending'[o], log'[o], m, nextExp'[e])
          /\ GivenOnce(handed'[e], life'[e], log'[o], m)
      BY <1>1, <2>6, <2>7, <3>1, <3>5
    <3> QED BY <2>3, <3>6 DEF Since
  <2> QED BY <2>2, <2>3, <2>8, <2>9, BothStreams
<1> QED BY <1>2, <1>3
LEMMA ReceiveDataLife ==
  ASSUME TypeOK, TypeOK', Streams, Windows, NEW e \in Station, ReceiveData(e), UNCHANGED life
  PROVE  Streams' /\ Windows'
<1> DEFINE o == Other(e)
           x == Head(Incoming(e))
<1>1. Take(e, {"data", "dataNoise"}) /\ UNCHANGED <<pending, txSeqNr, nextExp, handed>>
  BY DEF ReceiveData
<1>2. UNCHANGED <<syncSent, written, txCount, log>>
  BY <1>1 DEF Take, channelVars
<1>3. LifeThin
  BY <1>1, TakeThin DEF LifeThin
<1>4. CASE \A s \in Station : rxData'[s] = rxData[s] \/ rxData'[s].kind # "data"
  BY <1>1, <1>2, <1>3, <1>4, LifeLoses
<1>5. CASE rxData' = [rxData EXCEPT ![e] = x]
  <2>1. o \in Station /\ o # e /\ e = Other(o) /\ o = Other(e)
    BY Stations
  <2>2. /\ line[o] \in Seq(Symbol) /\ line[o] # <<>> /\ x = Head(line[o])
        /\ line'[o] = Tail(line[o]) /\ line'[e] = line[e]
    BY <1>1, <2>1 DEF Take, Incoming, TypeOK
  <2>3. PICK n \in Nat : Since(e, n)
    BY DEF Streams
  <2>4. PICK m \in Nat : Since(o, m)
    BY <2>1 DEF Streams
  <2>5. rxData'[e] = x /\ rxData'[o] = rxData[o]
    BY <1>5, <2>1 DEF TypeOK
  <2> HIDE DEF o, x
  <2>6. Since(e, n)'
    <3>1. line[e] \in Seq(Symbol) /\ pending[e] \in Seq(DataFrames)
      BY LifeTypes
    <3>2. Thins({"data", "sync"}, line'[e], line[e]) /\ Thins({"data"}, pending'[e], pending[e])
      BY <1>1, <2>2, <3>1, ThinsSelf
    <3> QED BY <1>1, <1>2, <2>1, <2>3, <2>5, <3>2, SinceThin
  <2>7. Since(o, m)'
    <3>1. /\ m \in 0 .. Len(log[o]) /\ (~syncSent[e] => m = 0)
          /\ Flight(rxData[e], line[o], pending[o], log[o], m, nextExp[e])
          /\ GivenOnce(handed[e], life[e], log[o], m)
      BY <2>1, <2>4 DEF Since
    <3>2. Flight(x, Tail(line[o]), pending[o], log[o], m, nextExp[e])
      BY <2>2, <3>1, FlightTake
    <3>3. /\ m \in 0 .. Len(log'[o]) /\ (~syncSent'[e] => m = 0)
          /\ Flight(rxData'[e], line'[o], pending'[o], log'[o], m, nextExp'[e])
          /\ GivenOnce(handed'[e], life'[e], log'[o], m)
      BY <1>1, <1>2, <2>2, <2>5, <3>1, <3>2
    <3> QED BY <2>1, <3>3 DEF Since
  <2>8. Windows'
    BY <1>1, <1>2, WindowsSame
  <2> QED BY <2>1, <2>6, <2>7, <2>8, BothStreams
<1>6. \/ UNCHANGED rxData
      \/ rxData' = [rxData EXCEPT ![e] = Garbled]
      \/ rxData' = [rxData EXCEPT ![e] = x]
  BY DEF ReceiveData
<1>7. CASE UNCHANGED rxData
  BY <1>4, <1>7
<1>8. CASE rxData' = [rxData EXCEPT ![e] = Garbled]
  <2>1. \A s \in Station : rxData'[s] = rxData[s] \/ rxData'[s].kind # "data"
    BY <1>8, HeldFrames DEF TypeOK
  <2> QED BY <1>4, <2>1
<1> QED BY <1>5, <1>6, <1>7, <1>8

\* The expected frame is newer than all that was handed over in this life.
LEMMA ReceiveEndOfDataLife ==
  ASSUME TypeOK, TypeOK', life \in [Station -> Nat], Streams, Windows, Started, NEW e \in Station,
         ReceiveEndOfData(e), UNCHANGED life
  PROVE  Streams' /\ Windows'
<1> DEFINE o == Other(e)
           x == rxData[e]
<1>1. /\ Take(e, {"endOfData"}) /\ UNCHANGED <<pending, txSeqNr>>
      /\ rxData' = [rxData EXCEPT ![e] = Empty]
  BY DEF ReceiveEndOfData
<1>2. UNCHANGED <<syncSent, written, txCount, log>>
  BY <1>1 DEF Take, channelVars
<1>3. LifeThin
  BY <1>1, TakeThin DEF LifeThin
<1>4. CASE ~IsExpected(e)
  <2>1. UNCHANGED <<handed, nextExp>>
    BY <1>4 DEF ReceiveEndOfData
  <2>2. \A s \in Station : rxData'[s] = rxData[s] \/ rxData'[s].kind # "data"
    BY <1>1, HeldFrames DEF TypeOK
  <2> QED BY <1>1, <1>2, <1>3, <2>1, <2>2, LifeLoses
<1>5. CASE IsExpected(e)
  <2>1. /\ handed' = [handed EXCEPT ![e] = Append(handed[e], x.payload)]
        /\ nextExp' = [nextExp EXCEPT ![e] = NextSeq(nextExp[e])]
        /\ x.kind = "data" /\ x.seq = nextExp[e]
    BY <1>5 DEF ReceiveEndOfData, IsExpected
  <2>2. o \in Station /\ o # e /\ e = Other(o) /\ o = Other(e)
    BY Stations
  <2>3. /\ line[o] \in Seq(Symbol) /\ line[o] # <<>>
        /\ line'[o] = Tail(line[o]) /\ line'[e] = line[e]
    BY <1>1, <2>2 DEF Take, Incoming, TypeOK
  <2>4. PICK n \in Nat : Since(e, n)
    BY DEF Streams
  <2>5. PICK m \in Nat : Since(o, m)
    BY <2>2 DEF Streams
  <2>6. /\ rxData'[e] = Empty /\ rxData'[o] = rxData[o]
        /\ nextExp'[e] = NextSeq(nextExp[e]) /\ nextExp'[o] = nextExp[o]
        /\ handed'[e] = Append(handed[e], x.payload) /\ handed'[o] = handed[o]
    BY <1>1, <2>1, <2>2 DEF TypeOK
  <2>x. x = rxData[e]
    OBVIOUS
  <2> HIDE DEF o, x
  <2>7. Since(e, n)'
    <3>1. line[e] \in Seq(Symbol) /\ pending[e] \in Seq(DataFrames)
      BY LifeTypes
    <3>2. Thins({"data", "sync"}, line'[e], line[e]) /\ Thins({"data"}, pending'[e], pending[e])
      BY <1>1, <2>3, <3>1, ThinsSelf
    <3> QED BY <1>1, <1>2, <2>2, <2>4, <2>6, <3>2, SinceThin
  <2>8. \E k \in Nat : Since(o, k)'
    <3>1. /\ m \in 0 .. Len(log[o])
          /\ Flight(x, line[o], pending[o], log[o], m, x.seq)
          /\ GivenOnce(handed[e], life[e], log[o], m)
      BY <2>1, <2>2, <2>5, <2>x DEF Since
    <3>2. /\ log[o] \in Seq(Payload) /\ handed[e] \in Seq(Payload) /\ pending[o] \in Seq(DataFrames)
          /\ life[e] \in Nat
      BY <2>2, LifeTypes
    <3>3. Tail(line[o]) \in Seq(Symbol) /\ Thins({"data", "sync"}, Tail(line[o]), line[o])
      BY <2>3, TailThins, HeadTailProperties
    <3>4. Thins({"data"}, pending[o], pending[o])
      BY <3>2, ThinsSelf
    <3>5. Flight(x, Tail(line[o]), pending[o], log[o], m, x.seq)
      BY <2>3, <3>1, <3>2, <3>3, <3>4, FlightThin
    <3>6. m < x.no /\ Flight(Empty, Tail(line[o]), pending[o], log[o], x.no, NextSeq(x.seq))
      BY <2>1, <3>1, <3>3, <3>5, FlightDeliver, HeldFrames
    <3>7. x.no \in 1 .. Len(log[o]) /\ x.payload = log[o][x.no]
      BY <2>1, <3>1 DEF Flight, LifeFine
    <3>8. Portioned(log[o], written[o], txCount[o])
      BY <2>2 DEF Windows
    <3>9. GivenOnce(Append(handed[e], log[o][x.no]), life[e], log[o], x.no)
      BY <3>1, <3>2, <3>6, <3>7, <3>8, GivenOnceMore
    <3>10. syncSent[e] = TRUE
      BY <1>1 DEF Take, Started, TypeOK
    <3>11. /\ x.no \in 0 .. Len(log'[o]) /\ (~syncSent'[e] => x.no = 0)
           /\ Flight(rxData'[e], line'[o], pending'[o], log'[o], x.no, nextExp'[e])
           /\ GivenOnce(handed'[e], life'[e], log'[o], x.no)
      <4>1. x.no \in 0 .. Len(log[o])
        BY <3>2, <3>7, LenProperties
      <4> QED BY <1>1, <1>2, <2>1, <2>3, <2>6, <3>6, <3>7, <3>9, <3>10, <4>1
    <3>12. ASSUME NEW k, k = x.no PROVE Since(o, k)'
      BY <2>2, <3>11, <3>12 DEF Since
    <3>13. x.no \in Nat
      BY <3>2, <3>7, LenProperties
    <3> QED BY <3>12, <3>13
  <2>9. Windows'
    BY <1>1, <1>2, WindowsSame
  <2> QED BY <2>2, <2>7, <2>8, <2>9, BothStreams
<1> QED BY <1>4, <1>5
\* A transmission that holds no new frame of data.
LEMMA NoFrameSentLife ==
  ASSUME TypeOK, TypeOK', Streams, Windows, NEW e \in Station, UNCHANGED life,
         GateClosed(e) \/ NothingToSend(e) \/ TransmitAck(e)
  PROVE  Streams' /\ Windows'
<1>1. UNCHANGED <<syncSent, written, rxData, nextExp, handed, pending, txSeqNr, log, txCount>>
  BY DEF GateClosed, NothingToSend, TransmitAck, Transmit, TaskEnd, schedulerVars
<1>2. LifeThin
  <2>1. CASE GateClosed(e) \/ NothingToSend(e)
    <3>1. UNCHANGED line
      BY <2>1 DEF GateClosed, NothingToSend
    <3> QED BY <3>1, LinesSame DEF LifeThin
  <2>2. CASE TransmitAck(e)
    <3> DEFINE x == Head(acks[e])
    <3>1. Transmit(e, x, EndOfAck) /\ acks[e] # <<>>
      BY <2>2 DEF TransmitAck
    <3>2. x \in AckFrames
      BY <3>1, HeadTailProperties DEF TypeOK
    <3>3. /\ x \in Symbol /\ EndOfAck \in Symbol
          /\ x.kind \notin {"data", "sync"} /\ EndOfAck.kind \notin {"data", "sync"}
      BY <3>2, PlainSymbols, HeldFrames
    <3> HIDE DEF x
    <3>4. LinesThin({"data", "sync"})
      BY <3>1, <3>3, TransmitThin
    <3> QED BY <3>4 DEF LifeThin
  <2> QED BY <2>1, <2>2
<1> QED BY <1>1, <1>2, LifeLoses

\* Station e sends frame x.
LEMMA SentLines ==
  ASSUME TypeOK, NEW e \in Station, NEW x \in Symbol, NEW end \in Symbol, Transmit(e, x, end),
         NEW o, o = Other(e)
  PROVE  /\ o \in Station /\ o # e /\ e = Other(o)
         /\ line[e] \in Seq(Symbol) /\ line[o] \in Seq(Symbol)
         /\ Thins({"data", "sync"}, line'[e], line[e] \o <<x, end>>)
         /\ line'[o] = line[o]
         /\ UNCHANGED <<syncSent, written, rxData, nextExp, handed>>
<1>1. o \in Station /\ o # e /\ e = Other(o)
  BY Stations
<1>2. line[e] \in Seq(Symbol) /\ line[o] \in Seq(Symbol)
  BY <1>1, LifeTypes
<1>3. PICK taken \in Portions(x, end) : line' = [line EXCEPT ![e] = line[e] \o taken]
  BY DEF Transmit
<1>4. line'[e] = line[e] \o taken /\ line'[o] = line[o]
  BY <1>1, <1>3 DEF TypeOK
<1>5. Thins({"data", "sync"}, line[e] \o taken, line[e] \o <<x, end>>)
  BY <1>2, PortionThins
<1> QED BY <1>1, <1>2, <1>4, <1>5 DEF Transmit, TaskEnd

LEMMA RetransmitLife ==
  ASSUME TypeOK, TypeOK', Streams, Windows, NEW e \in Station, Retransmit(e), UNCHANGED life
  PROVE  Streams' /\ Windows'
<1> DEFINE o == Other(e)
           x == Head(pending[e])
<1>1. /\ Transmit(e, x, EndOfData) /\ pending[e] # <<>>
      /\ UNCHANGED <<pending, txSeqNr, log, txCount>>
  BY DEF Retransmit, schedulerVars
<1>2. /\ pending[e] \in Seq(DataFrames) /\ log[e] \in Seq(Payload) /\ x \in DataFrames
      /\ x = pending[e][1] /\ 1 \in 1 .. Len(pending[e])
  <2>1. pending[e] \in Seq(DataFrames) /\ log[e] \in Seq(Payload)
    BY LifeTypes
  <2> QED BY <1>1, <2>1, HeadTailProperties, LenProperties, EmptySeq
<1>3. x \in Symbol /\ EndOfData \in Symbol /\ x.kind = "data" /\ EndOfData.kind \notin {"data", "sync"}
  BY <1>2, PlainSymbols, HeldFrames
<1>4. /\ o \in Station /\ o # e /\ e = Other(o)
      /\ line[e] \in Seq(Symbol) /\ line[o] \in Seq(Symbol)
      /\ Thins({"data", "sync"}, line'[e], line[e] \o <<x, EndOfData>>)
      /\ line'[o] = line[o]
      /\ UNCHANGED <<syncSent, written, rxData, nextExp, handed>>
  BY <1>1, <1>3, SentLines
<1>5. PICK n \in Nat : Since(e, n)
  BY DEF Streams
<1>6. PICK m \in Nat : Since(o, m)
  BY <1>4 DEF Streams
<1>7. Windows'
  BY <1>1, <1>4, WindowsSame
<1>o. o = Other(e)
  OBVIOUS
<1> HIDE DEF o, x
<1>8. Since(e, n)'
  <2>1. /\ n \in 0 .. Len(log[e]) /\ (~syncSent[o] => n = 0)
        /\ Flight(rxData[o], line[e], pending[e], log[e], n, nextExp[o])
        /\ GivenOnce(handed[o], life[o], log[e], n)
    BY <1>5, <1>o DEF Since
  <2> DEFINE window == pending[e]
  <2>2. /\ 1 \in 1 .. Len(window) /\ window[1] = x /\ window[1] \in Symbol /\ window[1].kind = "data"
        /\ Flight(rxData[o], line[e], window, log[e], n, nextExp[o])
    BY <1>2, <1>3, <2>1
  <2>3. \A j \in 1 .. Len(window) : Repeats(window[1], window[j])
    BY <1>2, OldestRepeats DEF Windows
  <2> HIDE DEF window
  <2>4. Flight(rxData[o], line[e] \o <<window[1], EndOfData>>, window, log[e], n, nextExp[o])
    BY <1>3, <1>4, <2>2, <2>3, FlightSend
  <2>5. Flight(rxData[o], line[e] \o <<x, EndOfData>>, pending[e], log[e], n, nextExp[o])
    BY <2>2, <2>4 DEF window
  <2> DEFINE s == line[e] \o <<x, EndOfData>>
  <2>6. s \in Seq(Symbol)
    BY <1>3, <1>4, TwoAppended
  <2>7. line'[e] \in Seq(Symbol) /\ Thins({"data"}, pending[e], pending[e])
    BY <1>2, ThinsSelf DEF TypeOK
  <2>8. Flight(rxData[o], s, pending[e], log[e], n, nextExp[o]) /\ Thins({"data", "sync"}, line'[e], s)
    BY <1>4, <2>5
  <2> HIDE DEF s
  <2>9. Flight(rxData[o], line'[e], pending[e], log[e], n, nextExp[o])
    BY <1>2, <2>6, <2>7, <2>8, FlightThin
  <2>10. /\ n \in 0 .. Len(log'[e]) /\ (~syncSent'[o] => n = 0)
         /\ Flight(rxData'[o], line'[e], pending'[e], log'[e], n, nextExp'[o])
         /\ GivenOnce(handed'[o], life'[o], log'[e], n)
    BY <1>1, <1>4, <2>1, <2>9
  <2> QED BY <1>o, <2>10 DEF Since
<1>9. Since(o, m)'
  <2>1. pending[o] \in Seq(DataFrames)
    BY <1>4, LifeTypes
  <2>2. Thins({"data", "sync"}, line'[o], line[o]) /\ Thins({"data"}, pending'[o], pending[o])
    BY <1>1, <1>4, <2>1, ThinsSelf
  <2> QED BY <1>1, <1>4, <1>6, <2>2, SinceThin
<1> QED BY <1>4, <1>7, <1>8, <1>9, <1>o, BothStreams
\* A new frame is put together from the oldest bytes of its channel.
LEMMA ComposePortions ==
  ASSUME TypeOK, NEW e \in Station, NEW ch \in Channel, Compose(e, ch),
         Portioned(log[e], written[e], txCount[e])
  PROVE  /\ Portioned(Append(log[e], Composed(e, ch)), written[e], txCount'[e])
         /\ \A s \in Station : s # e => txCount'[s] = txCount[s]
<1> DEFINE x == Composed(e, ch)
           left == txCount[e]
           rest == txCount'[e]
           bytes == written[e]
           l == ComposedLen(e, ch)
<1>1. x \in Payload /\ l \in 1 .. FRAME_PAYLOAD
  BY ComposeStep
<1>2. x.ch = ch /\ x.from = bytes[ch] - left[ch] /\ x.len = l
  BY DEF Composed
<1>3. txCount' = [txCount EXCEPT ![e] = [left EXCEPT ![ch] = left[ch] - l]]
  BY DEF Compose, ComposedLen
<1>4. txCount \in [Station -> [Channel -> 0 .. TxRoom]] /\ bytes \in [Channel -> 0 .. MaxWritten]
  BY DEF TypeOK
<1>5. \A s \in Station : s # e => txCount'[s] = txCount[s]
  BY <1>3, <1>4
<1>6. left \in [Channel -> 0 .. TxRoom] /\ rest = [left EXCEPT ![ch] = left[ch] - l]
  BY <1>3, <1>4
<1>7. log[e] \in Seq(Payload)
  BY LifeTypes
<1> HIDE DEF x, left, rest, bytes, l
<1>8. l \in Int /\ l > 0
  BY <1>1, LinkConstants
<1>9. \A c \in Channel : bytes[c] \in Int /\ left[c] \in Int /\ rest[c] \in Int /\ rest[c] <= left[c]
  BY <1>4, <1>6, <1>8, LinkConstants
<1>10. x.from = bytes[x.ch] - left[x.ch] /\ x.from + x.len = bytes[x.ch] - rest[x.ch]
  <2>1. rest[ch] = left[ch] - l
    BY <1>6
  <2>2. bytes[ch] \in Int /\ left[ch] \in Int
    BY <1>9
  <2>3. \A a, b, c \in Int : (a - b) + c = a - (b - c)
    OBVIOUS
  <2> QED BY <1>2, <1>8, <2>1, <2>2, <2>3
<1>11. Portioned(Append(log[e], x), bytes, rest)
  <2>1. Portioned(log[e], bytes, left)
    BY DEF bytes, left
  <2> QED BY <1>1, <1>7, <1>9, <1>10, <2>1, PortionedLonger
<1> QED BY <1>5, <1>11 DEF x, bytes, rest

LEMMA ComposeLife ==
  ASSUME TypeOK, TypeOK', Streams, Windows, NEW e \in Station, NEW ch \in Channel, Compose(e, ch), UNCHANGED life
  PROVE  Streams' /\ Windows'
<1> DEFINE o == Other(e)
           x == ComposedFrame(e, ch)
           payload == Composed(e, ch)
           window == pending[e]
           composed == log[e]
           seq == txSeqNr[e]
<1>1. /\ Transmit(e, x, EndOfData) /\ HasSlot(e)
      /\ pending' = [pending EXCEPT ![e] = Append(window, x)]
      /\ log' = [log EXCEPT ![e] = Append(composed, payload)]
      /\ txSeqNr' = [txSeqNr EXCEPT ![e] = NextSeq(seq)]
      /\ payload \in Payload /\ x \in DataFrames
  BY ComposeStep
<1>2. x = DataFrame(seq, Len(composed) + 1, payload)
  BY DEF ComposedFrame
<1>3. x \in Symbol /\ EndOfData \in Symbol /\ x.kind = "data" /\ EndOfData.kind \notin {"data", "sync"}
  BY <1>1, PlainSymbols, HeldFrames
<1>4. /\ o \in Station /\ o # e /\ e = Other(o)
      /\ line[e] \in Seq(Symbol) /\ line[o] \in Seq(Symbol)
      /\ Thins({"data", "sync"}, line'[e], line[e] \o <<x, EndOfData>>)
      /\ line'[o] = line[o]
      /\ UNCHANGED <<syncSent, written, rxData, nextExp, handed>>
  BY <1>1, <1>3, SentLines
<1>5. /\ pending'[e] = Append(window, x) /\ pending'[o] = pending[o]
      /\ log'[e] = Append(composed, payload) /\ log'[o] = log[o]
      /\ txSeqNr'[e] = NextSeq(seq) /\ txSeqNr'[o] = txSeqNr[o]
  BY <1>1, <1>4 DEF TypeOK
<1>6. Len(window) < DEPTH /\ Lately(window, composed, seq) /\ Portioned(composed, written[e], txCount[e])
  BY <1>1 DEF HasSlot, Windows
<1>7. window \in Seq(DataFrames) /\ composed \in Seq(Payload) /\ seq \in SeqNr
  BY LifeTypes
<1>8. PICK n \in Nat : Since(e, n)
  BY DEF Streams
<1>9. PICK m \in Nat : Since(o, m)
  BY <1>4 DEF Streams
<1>10. /\ Portioned(Append(composed, payload), written[e], txCount'[e])
       /\ \A s \in Station : s # e => txCount'[s] = txCount[s]
  BY <1>6, ComposePortions
<1>11. /\ n \in 0 .. Len(composed) /\ (~syncSent[o] => n = 0)
       /\ Flight(rxData[o], line[e], window, composed, n, nextExp[o])
       /\ GivenOnce(handed[o], life[o], composed, n)
  BY <1>8 DEF Since
<1>o. o = Other(e)
  OBVIOUS
<1> HIDE DEF o, x, payload, window, composed, seq
<1> DEFINE longer == Append(window, x)
           all == Append(composed, payload)
           i == Len(window) + 1
<1>12. Flight(rxData[o], line[e], longer, all, n, nextExp[o])
  BY <1>1, <1>2, <1>4, <1>7, <1>11, FlightCompose
<1>13. /\ longer \in Seq(DataFrames) /\ all \in Seq(Payload) /\ i \in 1 .. Len(longer) /\ longer[i] = x
       /\ n \in 0 .. Len(all) /\ Len(longer) = Len(window) + 1
  BY <1>1, <1>7, <1>11, AppendProperties, LenProperties
<1>14. \A j \in 1 .. Len(window) + 1 : Repeats(x, longer[j])
  BY <1>1, <1>2, <1>6, <1>7, NewestRepeats
<1>15. Lately(longer, all, NextSeq(seq))
  BY <1>1, <1>2, <1>6, <1>7, LatelyLonger
<1>16. GivenOnce(handed[o], life[o], all, n)
  BY <1>1, <1>7, <1>11, GivenOnceLonger
<1>17. /\ pending'[e] = longer /\ log'[e] = all
  BY <1>5
<1> HIDE DEF longer, all, i
<1>18. Since(e, n)'
  <2>1. /\ longer[i] \in Symbol /\ longer[i].kind = "data" /\ i \in 1 .. Len(longer)
        /\ \A j \in 1 .. Len(longer) : Repeats(longer[i], longer[j])
    BY <1>3, <1>13, <1>14
  <2>2. Flight(rxData[o], line[e] \o <<longer[i], EndOfData>>, longer, all, n, nextExp[o])
    BY <1>3, <1>4, <1>12, <2>1, FlightSend
  <2> DEFINE s == line[e] \o <<x, EndOfData>>
  <2>3. s \in Seq(Symbol) /\ Flight(rxData[o], s, longer, all, n, nextExp[o])
    BY <1>3, <1>4, <1>13, <2>2, TwoAppended
  <2>4. line'[e] \in Seq(Symbol) /\ Thins({"data", "sync"}, line'[e], s)
    BY <1>4 DEF TypeOK
  <2>5. Thins({"data"}, longer, longer)
    BY <1>13, ThinsSelf
  <2> HIDE DEF s
  <2>6. Flight(rxData[o], line'[e], longer, all, n, nextExp[o])
    BY <1>13, <2>3, <2>4, <2>5, FlightThin
  <2>7. /\ n \in 0 .. Len(log'[e]) /\ (~syncSent'[o] => n = 0)
        /\ Flight(rxData'[o], line'[e], pending'[e], log'[e], n, nextExp'[o])
        /\ GivenOnce(handed'[o], life'[o], log'[e], n)
    BY <1>4, <1>11, <1>13, <1>16, <1>17, <2>6
  <2> QED BY <1>o, <2>7 DEF Since
<1>19. Since(o, m)'
  <2>1. pending[o] \in Seq(DataFrames)
    BY <1>4, LifeTypes
  <2>2. Thins({"data", "sync"}, line'[o], line[o]) /\ Thins({"data"}, pending'[o], pending[o])
    BY <1>4, <1>5, <2>1, ThinsSelf
  <2> QED BY <1>4, <1>5, <1>9, <2>2, SinceThin
<1>20. ASSUME NEW s \in Station
       PROVE  Lately(pending'[s], log'[s], txSeqNr'[s]) /\ Portioned(log'[s], written'[s], txCount'[s])
  <2>1. CASE s = e
    BY <1>4, <1>5, <1>10, <1>15, <1>17, <2>1 DEF all
  <2>2. CASE s # e
    <3>1. s = o
      BY <1>o, <2>2, Stations
    <3>2. /\ pending'[s] = pending[s] /\ log'[s] = log[s] /\ txSeqNr'[s] = txSeqNr[s]
          /\ written' = written /\ txCount'[s] = txCount[s]
      BY <1>4, <1>5, <1>10, <2>2, <3>1
    <3> QED BY <3>2 DEF Windows
  <2> QED BY <2>1, <2>2
<1>21. Windows'
  BY <1>20 DEF Windows
<1> QED BY <1>4, <1>18, <1>19, <1>21, <1>o, BothStreams
\* A station that restarts: its lines are cut, its channels are empty.
LEMMA RestartLines ==
  ASSUME TypeOK, NEW e \in Station, Restart(e)
  PROVE  line' \in [Station -> Seq(Symbol)] /\ LifeThin
<1> DEFINE o == Other(e)
<1>1. line \in [Station -> Seq(Symbol)] /\ o \in Station /\ o # e /\ Station = {e, o}
  BY Stations DEF TypeOK
<1>2. PICK i \in {0, Len(line[e])}, j \in {1, Len(line[o]) + 1} :
        line' = [line EXCEPT ![e] = SubSeq(line[e], 1, i),
                             ![o] = SubSeq(line[o], j, Len(line[o]))]
  BY <1>1 DEF Restart, Incoming
<1> HIDE DEF o
<1>3. Len(line[e]) \in Nat /\ Len(line[o]) \in Nat
  BY <1>1, LenProperties
<1>4. i \in 0 .. Len(line[e]) /\ j \in Nat \ {0} /\ j \in 1 .. Len(line[o]) + 1
  BY <1>3
<1>5. SubSeq(line[e], 1, i) \in Seq(Symbol) /\ Thins({"data", "sync"}, SubSeq(line[e], 1, i), line[e])
  BY <1>1, <1>3, <1>4, SubSeqProperties, StretchThins
<1>6. /\ SubSeq(line[o], j, Len(line[o])) \in Seq(Symbol)
      /\ Thins({"data", "sync"}, SubSeq(line[o], j, Len(line[o])), line[o])
  BY <1>1, <1>3, <1>4, SubSeqProperties, StretchThins
<1>7. line'[e] = SubSeq(line[e], 1, i) /\ line'[o] = SubSeq(line[o], j, Len(line[o]))
  BY <1>1, <1>2
<1>8. line' \in [Station -> Seq(Symbol)]
  BY <1>1, <1>2, <1>5, <1>6
<1> QED BY <1>1, <1>5, <1>6, <1>7, <1>8 DEF LifeThin, LinesThin

LEMMA RestartType ==
  ASSUME TypeOK, NEW e \in Station, Restart(e)
  PROVE  TypeOK'
<1>1. /\ pending' \in [Station -> Seq(DataFrames)] /\ acks' \in [Station -> Seq(AckFrames)]
      /\ txSeqNr' \in [Station -> SeqNr] /\ nextExp' \in [Station -> SeqNr]
      /\ rxAck' \in [Station -> AckFrames \cup {Empty, Garbled}]
      /\ rxData' \in [Station -> DataFrames \cup {Empty, Garbled}]
  <2>1. ResetProtocol(e)
    BY DEF Restart
  <2> QED BY <2>1, ResetType
<1>2. line' \in [Station -> Seq(Symbol)]
  BY RestartLines
<1>3. /\ task' \in [Station -> {"idle", "rx"}] /\ syncSent' \in [Station -> BOOLEAN]
      /\ ackShift' \in [Station -> 0 .. DEPTH - 1]
  BY LinkConstants DEF TypeOK, Restart
<1>4. syncCount' \in [Station -> 0 .. 2]
  BY DEF TypeOK, Restart, ClearSyncCount
<1>5. /\ txMore' \in [Station -> [Channel -> BOOLEAN]] /\ txCount' \in [Station -> [Channel -> 0 .. TxRoom]]
      /\ \A s \in Station, ch \in Channel : txCount'[s][ch] <= written[s][ch]
  <2>1. /\ txCount' = [txCount EXCEPT ![e] = [ch \in Channel |-> 0]]
        /\ txMore' = [txMore EXCEPT ![e] = [ch \in Channel |-> FALSE]]
    BY DEF Restart
  <2>2. /\ txCount \in [Station -> [Channel -> 0 .. TxRoom]] /\ txMore \in [Station -> [Channel -> BOOLEAN]]
        /\ written \in [Station -> [Channel -> 0 .. MaxWritten]]
        /\ \A s \in Station, ch \in Channel : txCount[s][ch] <= written[s][ch]
    BY DEF TypeOK
  <2>3. 0 \in 0 .. TxRoom
    BY LinkConstants
  <2>4. txMore' \in [Station -> [Channel -> BOOLEAN]] /\ txCount' \in [Station -> [Channel -> 0 .. TxRoom]]
    BY <2>1, <2>2, <2>3
  <2>5. ASSUME NEW s \in Station, NEW ch \in Channel PROVE txCount'[s][ch] <= written[s][ch]
    <3>1. CASE s = e
      <4>1. txCount'[s][ch] = 0 /\ written[s][ch] \in 0 .. MaxWritten
        BY <2>1, <2>2, <3>1
      <4> QED BY <4>1
    <3>2. CASE s # e
      <4>1. txCount'[s] = txCount[s]
        BY <2>1, <2>2, <3>2
      <4> QED BY <2>2, <4>1
    <3> QED BY <3>1, <3>2
  <2> QED BY <2>4, <2>5
<1>6. UNCHANGED <<written, errors, log, handed, acked>>
  BY DEF Restart, history
<1> QED BY <1>1, <1>2, <1>3, <1>4, <1>5, <1>6 DEF TypeOK

\* Its new life has been given nothing, and what the other station was given stays the
\* beginning of what it had composed.
LEMMA RestartLife ==
  ASSUME TypeOK, TypeOK', life \in [Station -> Nat], Streams, Windows, NEW e \in Station, Restart(e)
  PROVE  life' \in [Station -> Nat] /\ Streams' /\ Windows'
<1> DEFINE o == Other(e)
<1>1. o \in Station /\ o # e /\ e = Other(o) /\ o = Other(e) /\ \A s \in Station : s = e \/ s = o
  BY Stations
<1>2. /\ life' = [life EXCEPT ![e] = Len(handed[e])] /\ ResetProtocol(e)
      /\ syncSent' = [syncSent EXCEPT ![e] = FALSE]
      /\ txCount' = [txCount EXCEPT ![e] = [ch \in Channel |-> 0]]
      /\ UNCHANGED <<written, log, handed>>
  BY DEF Restart, history
<1>3. /\ line[e] \in Seq(Symbol) /\ line[o] \in Seq(Symbol)
      /\ line'[o] \in Seq(Symbol)
      /\ Thins({"data", "sync"}, line'[e], line[e]) /\ Thins({"data", "sync"}, line'[o], line[o])
  <2>1. line[e] \in Seq(Symbol) /\ line[o] \in Seq(Symbol)
    BY <1>1, LifeTypes
  <2>2. line' \in [Station -> Seq(Symbol)] /\ LifeThin
    BY RestartLines
  <2> QED BY <1>1, <2>1, <2>2 DEF LifeThin, LinesThin
<1>4. handed[e] \in Seq(Payload) /\ pending[o] \in Seq(DataFrames) /\ Len(handed[e]) \in Nat
  BY <1>1, LifeTypes, LenProperties
<1>5. life' \in [Station -> Nat] /\ life'[e] = Len(handed[e]) /\ life'[o] = life[o]
  BY <1>1, <1>2, <1>4
<1>6. PICK n \in Nat : Since(e, n)
  BY DEF Streams
<1>7. PICK m \in Nat : Since(o, m)
  BY <1>1 DEF Streams
<1> HIDE DEF o
<1>8. /\ pending'[e] = <<>> /\ pending'[o] = pending[o] /\ rxData'[e] = Empty /\ rxData'[o] = rxData[o]
      /\ nextExp'[e] = 0 /\ nextExp'[o] = nextExp[o] /\ txSeqNr'[o] = txSeqNr[o]
  BY <1>1, <1>2, ResetFields
<1>9. syncSent'[e] = FALSE /\ syncSent'[o] = syncSent[o]
  BY <1>1, <1>2 DEF TypeOK
<1>10. Since(e, n)'
  <2>1. Thins({"data"}, pending'[e], pending[e])
    BY <1>8, EmptyThins
  <2> QED BY <1>1, <1>2, <1>3, <1>5, <1>6, <1>8, <1>9, <2>1, SinceThin
<1>11. Since(o, 0)'
  <2>1. m \in 0 .. Len(log[o]) /\ Flight(rxData[e], line[o], pending[o], log[o], m, nextExp[e])
    BY <1>1, <1>7 DEF Since
  <2>2. Flight(rxData[e], line[o], pending[o], log[o], 0, 0)
    BY <1>3, <2>1, FlightFresh
  <2>3. Thins({"data"}, pending[o], pending[o])
    BY <1>4, ThinsSelf
  <2>4. Flight(Empty, line'[o], pending[o], log[o], 0, 0)
    BY <1>3, <1>4, <2>2, <2>3, FlightThin, HeldFrames
  <2>5. GivenOnce(handed[e], life'[e], log[o], 0)
    BY <1>4, <1>5, NothingGiven
  <2>6. 0 \in 0 .. Len(log[o])
    BY <1>1, LifeTypes, LenProperties
  <2>7. /\ 0 \in 0 .. Len(log'[o]) /\ (~syncSent'[e] => 0 = 0)
        /\ Flight(rxData'[e], line'[o], pending'[o], log'[o], 0, nextExp'[e])
        /\ GivenOnce(handed'[e], life'[e], log'[o], 0)
    BY <1>2, <1>8, <2>4, <2>5, <2>6
  <2> QED BY <1>1, <2>7 DEF Since
<1>12. ASSUME NEW s \in Station
       PROVE  Lately(pending'[s], log'[s], txSeqNr'[s]) /\ Portioned(log'[s], written'[s], txCount'[s])
  <2>1. Lately(pending[s], log[s], txSeqNr[s]) /\ Portioned(log[s], written[s], txCount[s])
    BY DEF Windows
  <2>2. CASE s = e
    <3>1. txCount'[e] = [ch \in Channel |-> 0]
      BY <1>2 DEF TypeOK
    <3>2. ASSUME NEW ch \in Channel
          PROVE  /\ written[e][ch] \in Int /\ txCount[e][ch] \in Int /\ txCount'[e][ch] \in Int
                 /\ written[e][ch] - txCount[e][ch] <= written[e][ch] - txCount'[e][ch]
      <4>1. txCount'[e][ch] = 0 /\ txCount[e][ch] \in 0 .. TxRoom /\ written[e][ch] \in 0 .. MaxWritten
        BY <3>1 DEF TypeOK
      <4> QED BY <4>1
    <3>3. log[e] \in Seq(Payload)
      BY LifeTypes
    <3>4. Portioned(log[e], written[e], txCount'[e])
      BY <2>1, <2>2, <3>2, <3>3, PortionedStays
    <3> QED BY <1>2, <1>8, <2>2, <3>4, LatelyEmpty
  <2>3. CASE s # e
    <3>1. s = o /\ txCount'[s] = txCount[s]
      BY <1>1, <1>2, <2>3 DEF TypeOK
    <3> QED BY <1>2, <1>8, <2>1, <3>1
  <2> QED BY <2>2, <2>3
<1>13. Windows'
  BY <1>12 DEF Windows
<1>14. 0 \in Nat
  OBVIOUS
<1> QED BY <1>1, <1>5, <1>10, <1>11, <1>13, <1>14, BothStreams
\* Only a station that is up reads its port.
LEMMA StartedStays ==
  ASSUME SyncsWhole, TypeOK, Started, RestartNext
  PROVE  Started'
<1>1. ASSUME NEW e \in Station, AnySend(e) \/ Reopen(e) \/ \E i \in 1 .. Len(line[e]) : LineError(e, i)
      PROVE  Started'
  BY <1>1 DEF AnySend, Send, Reopen, LineError, Started
<1>2. ASSUME NEW e \in Station, Receive(e) PROVE Started'
  BY <1>2 DEF Receive, ReceiveSync, ReceiveAck, ReceiveEndOfAck, ReceiveData, ReceiveEndOfData,
              ReceiveNoise, Take, Started
<1>3. ASSUME NEW e \in Station, DoTransmission(e) PROVE Started'
  <2>1. TaskEnd(e)
    BY <1>3 DEF DoTransmission, NewTransmission, GateClosed, NothingToSend, TransmitAck, Retransmit,
                Compose, Transmit
  <2>2. task' = [task EXCEPT ![e] = "idle"] /\ UNCHANGED syncSent
    BY <2>1 DEF TaskEnd
  <2> QED BY <2>2 DEF Started, TypeOK
<1>4. ASSUME NEW e \in Station, TaskBegin(e) PROVE Started'
  <2>1. task' = [task EXCEPT ![e] = "rx"]
    BY <1>4 DEF TaskBegin
  <2>2. \/ syncSent[e] /\ UNCHANGED syncSent
        \/ syncSent' = [syncSent EXCEPT ![e] = TRUE]
    <3>1. \A n \in SyncWrites : ~(n < 5)
      BY DEF SyncsWhole
    <3> QED BY <1>4, <3>1 DEF TaskBegin
  <2> QED BY <2>1, <2>2 DEF Started, TypeOK
<1>5. ASSUME NEW e \in Station, Restart(e) PROVE Started'
  <2>1. task' = [task EXCEPT ![e] = "idle"] /\ syncSent' = [syncSent EXCEPT ![e] = FALSE]
    BY <1>5 DEF Restart
  <2> QED BY <2>1 DEF Started, TypeOK
<1> QED BY <1>1, <1>2, <1>3, <1>4, <1>5 DEF RestartNext, Next, TaskStep

LEMMA LifeInit == FaultInit => LifeInv
<1> SUFFICES ASSUME FaultInit PROVE LifeInv
  OBVIOUS
<1>1. Init /\ life = [e \in Station |-> 0]
  BY DEF FaultInit
<1>2. TypeOK
  BY <1>1, LinkTypeInit
<1>3. /\ Len(<<>>) = 0 /\ \A e \in Station : Len(log[e]) = 0 /\ Len(handed[e]) = 0
      /\ \A e \in Station : Len(pending[e]) = 0 /\ Len(line[e]) = 0
  BY <1>1 DEF Init
<1>4. ASSUME NEW e \in Station PROVE Since(e, 0)
  <2> DEFINE o == Other(e)
  <2>1. o \in Station
    BY Stations
  <2>2. rxData[o] = Empty /\ life[o] = 0
    BY <1>1, <2>1 DEF Init
  <2> HIDE DEF o
  <2>3. Flight(rxData[o], line[e], pending[e], log[e], 0, nextExp[o])
    BY <1>3, <2>2, HeldFrames DEF Flight, LifeFine
  <2>4. GivenOnce(handed[o], life[o], log[e], 0)
    BY <1>3, <2>1, <2>2 DEF GivenOnce
  <2>5. 0 \in 0 .. Len(log[e])
    BY <1>3
  <2>6. Since(e, 0) <=> /\ 0 \in 0 .. Len(log[e]) /\ (~syncSent[o] => 0 = 0)
                        /\ Flight(rxData[o], line[e], pending[e], log[e], 0, nextExp[o])
                        /\ GivenOnce(handed[o], life[o], log[e], 0)
    BY DEF Since, o
  <2> QED BY <2>3, <2>4, <2>5, <2>6
<1>5. Streams
  <2>1. 0 \in Nat
    OBVIOUS
  <2> QED BY <1>4, <2>1 DEF Streams
<1>6. Windows
  <2>1. ASSUME NEW e \in Station PROVE Lately(pending[e], log[e], txSeqNr[e])
    BY <1>1, LatelyEmpty DEF Init
  <2>2. ASSUME NEW e \in Station PROVE Portioned(log[e], written[e], txCount[e])
    BY <1>3 DEF Portioned
  <2> QED BY <2>1, <2>2 DEF Windows
<1>7. Started /\ life \in [Station -> Nat]
  BY <1>1 DEF Init, Started
<1> QED BY <1>2, <1>5, <1>6, <1>7 DEF LifeInv

LEMMA RestartTypeStep == TypeOK /\ [RestartNext]_allVars => TypeOK'
<1>1. TypeOK /\ Next => TypeOK'
  BY LinkTypeStep
<1>2. TypeOK /\ UNCHANGED allVars => TypeOK'
  BY LinkTypeStep DEF allVars
<1> QED BY <1>1, <1>2, RestartType DEF RestartNext

LEMMA LifeStep == SyncsWhole /\ LifeInv /\ [RestartNext]_allVars => LifeInv'
<1> SUFFICES ASSUME SyncsWhole, LifeInv, [RestartNext]_allVars PROVE LifeInv'
  OBVIOUS
<1>0. TypeOK /\ life \in [Station -> Nat] /\ Streams /\ Windows /\ Started /\ TypeOK'
  BY RestartTypeStep DEF LifeInv
<1>1. CASE UNCHANGED allVars
  <2>1. UNCHANGED vars /\ UNCHANGED life
    BY <1>1 DEF allVars, faults
  <2>2. /\ UNCHANGED <<pending, txSeqNr, nextExp, written, txCount, log, handed, life, rxData>>
        /\ UNCHANGED <<line, syncSent, task>>
    BY <2>1 DEF vars, channelVars, schedulerVars, rxVars, history
  <2>3. LifeThin
    BY <1>0, <2>2, LinesSame DEF LifeThin
  <2>4. Streams' /\ Windows'
    BY <1>0, <2>2, <2>3, LifeLoses
  <2>5. Started'
    BY <1>0, <2>2 DEF Started
  <2> QED BY <1>0, <2>2, <2>4, <2>5 DEF LifeInv
<1>2. CASE RestartNext
  <2>1. Started'
    BY <1>0, <1>2, StartedStays
  <2>2. ASSUME NEW e \in Station, Restart(e) PROVE life' \in [Station -> Nat] /\ Streams' /\ Windows'
    BY <1>0, <2>2, RestartLife
  <2>3. ASSUME Next, UNCHANGED faults PROVE life' \in [Station -> Nat] /\ Streams' /\ Windows'
    <3>0. UNCHANGED life
      BY <2>3 DEF faults
    <3>1. ASSUME NEW e \in Station, AnySend(e) PROVE Streams' /\ Windows'
      BY <1>0, <3>0, <3>1, SendLife, SendAssumption DEF AnySend
    <3>2. ASSUME NEW e \in Station, TaskBegin(e) PROVE Streams' /\ Windows'
      BY <1>0, <3>0, <3>2, TaskBeginLife
    <3>3. ASSUME NEW e \in Station, Receive(e) PROVE Streams' /\ Windows'
      BY <1>0, <3>0, <3>3, ReceiveSyncLife, ReceiveLossLife, ReceiveEndOfAckLife, ReceiveDataLife,
         ReceiveEndOfDataLife DEF Receive
    <3>4. ASSUME NEW e \in Station, DoTransmission(e) PROVE Streams' /\ Windows'
      BY <1>0, <3>0, <3>4, NoFrameSentLife, RetransmitLife, ComposeLife DEF DoTransmission, NewTransmission
    <3>5. ASSUME NEW e \in Station, NEW i \in 1 .. Len(line[e]), LineError(e, i) PROVE Streams' /\ Windows'
      <4>1. LinesThin({"data", "sync"})
        BY <1>0, <3>5, LineErrorThin
      <4>2. UNCHANGED <<pending, txSeqNr, nextExp, written, txCount, log, handed, rxData, syncSent>>
        BY <3>5 DEF LineError, channelVars, schedulerVars, rxVars, history
      <4> QED BY <1>0, <3>0, <4>1, <4>2, LifeLoses DEF LifeThin
    <3>6. ASSUME NEW e \in Station, Reopen(e) PROVE Streams' /\ Windows'
      <4>1. LinesThin({"data", "sync"})
        BY <1>0, <3>6, ReopenThin
      <4>2. UNCHANGED <<pending, txSeqNr, nextExp, written, txCount, log, handed, rxData, syncSent>>
        BY <3>6 DEF Reopen, channelVars, schedulerVars, rxVars, history
      <4> QED BY <1>0, <3>0, <4>1, <4>2, LifeLoses DEF LifeThin
    <3>7. Streams' /\ Windows'
      BY <2>3, <3>1, <3>2, <3>3, <3>4, <3>5, <3>6 DEF Next, TaskStep
    <3>8. life' \in [Station -> Nat]
      BY <1>0, <3>0
    <3> QED BY <3>7, <3>8
  <2>4. life' \in [Station -> Nat] /\ Streams' /\ Windows'
    BY <1>2, <2>2, <2>3 DEF RestartNext
  <2> QED BY <1>0, <2>1, <2>4 DEF LifeInv
<1> QED BY <1>1, <1>2

\* TypeOK of Slay2Link with stations that restart at any time.
THEOREM RestartTypeOK == RestartSpec => []TypeOK
<1>1. FaultInit => TypeOK
  BY LinkTypeInit DEF FaultInit
<1> QED BY <1>1, RestartTypeStep, PTL DEF RestartSpec

\* LifeInv: in each direction there is a last frame of the receiver's present life, and
\* what is on its way is a repetition the numbers still tell from the next frame, is
\* newer, or waits behind a SYNC for all that is in front of it to be done.
THEOREM LifeInvariant == SyncsWhole => (RestartSpec => []LifeInv)
<1>1. SyncsWhole /\ LifeInv /\ [RestartNext]_allVars => LifeInv'
  BY LifeStep
<1> SUFFICES ASSUME SyncsWhole PROVE RestartSpec => []LifeInv
  OBVIOUS
<1>2. LifeInv /\ [RestartNext]_allVars => LifeInv'
  BY <1>1
<1> QED BY <1>2, LifeInit, PTL DEF RestartSpec

\* NeverTwiceInALife of Slay2LinkFaults: however often stations restart, whenever that
\* is, and whatever the lines lose or damage and the ports take of a frame, no frame is
\* handed over twice or after a newer one in one life of the receiver, as long as a
\* port takes the SYNCs of a start at the first try.
THEOREM FramesNeverTwice == SyncsWhole => (RestartSpec => []NeverTwiceInALife)
<1>1. LifeInv => NeverTwiceInALife
  <2> SUFFICES ASSUME LifeInv, NEW e \in Station, NEW j \in life[e] + 1 .. Len(handed[e]),
                      NEW i \in life[e] + 1 .. j - 1, handed[e][i].ch = handed[e][j].ch
               PROVE  handed[e][i].from < handed[e][j].from
    BY DEF NeverTwiceInALife
  <2> DEFINE o == Other(e)
  <2>1. o \in Station /\ e = Other(o)
    BY Stations
  <2>2. PICK n \in Nat : Since(o, n)
    BY <2>1 DEF LifeInv, Streams
  <2>3. GivenOnce(handed[e], life[e], log[o], n)
    BY <2>1, <2>2 DEF Since
  <2> QED BY <2>3 DEF GivenOnce
<1> SUFFICES ASSUME SyncsWhole PROVE RestartSpec => []NeverTwiceInALife
  OBVIOUS
<1>2. RestartSpec => []LifeInv
  BY LifeInvariant
<1> QED BY <1>1, <1>2, PTL
=============================================================================
