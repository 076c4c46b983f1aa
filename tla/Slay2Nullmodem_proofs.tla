----------------------- MODULE Slay2Nullmodem_proofs -----------------------
(***************************************************************************)
(* The forwarding demo loses nothing, for every number of channels and of  *)
(* tests, every length of the text that a fifo can hold and every size of  *)
(* frames and of sequence numbers.                                         *)
(***************************************************************************)
EXTENDS Slay2Nullmodem, TxQueues_proofs

Frame == [kind : {"data"}, seq : SeqNr, ch : Channel, data : Seq(Nat) \ {<<>>}]

NullmodemTypes ==
  /\ at \in {"main", "rx", "closed"} /\ test \in 0 .. TestCount /\ dummyLen \in Lengths
  /\ syncSent \in BOOLEAN /\ txSeqNr \in SeqNr /\ nextExp \in SeqNr
  /\ fifo \in [Channel -> Seq(Nat)] /\ got \in [Channel -> Seq(Nat)]

\* One frame at a time: on the wire, then answered, its ACK on the wire, then forgotten.
Exchange ==
  \/ pending = <<>> /\ acks = <<>> /\ wire \in Seq({Sync}) /\ txSeqNr = nextExp
  \/ \E f \in Frame :
       /\ pending = <<f>>
       /\ \/ acks = <<>> /\ wire = <<f>> /\ f.seq = nextExp /\ txSeqNr = NextSeq(nextExp)
          \/ acks = <<AckFrame(f.seq)>> /\ wire = <<>> /\ txSeqNr = nextExp
          \/ acks = <<>> /\ wire = <<AckFrame(f.seq)>> /\ txSeqNr = nextExp

\* Before the first test, and before the SYNCs.
Beginning ==
  /\ test = 0 => at = "main" /\ ~syncSent /\ \A ch \in Channel : fifo[ch] = <<>> /\ got[ch] = <<>>
  /\ ~syncSent => wire = <<>> /\ pending = <<>> /\ at # "rx"

\* No channel is ahead of one before it.
Ordered ==
  \A c \in Channel : Len(got[c]) <= dummyLen /\ \A d \in c .. LastChannel : Len(got[d]) <= Len(got[c])

Passed == \A ch \in Channel : Source(ch) = got[ch] \o OnTheWay(ch) \o fifo[ch]

NullmodemInv ==
  NullmodemTypes /\ Exchange /\ Beginning /\ Ordered /\ (at # "closed" /\ test > 0 => Passed)

-----------------------------------------------------------------------------
\* What a wire w carries for ch.
Of(w, ch) ==
  LET mine == {i \in 1 .. Len(w) : w[i].kind = "data" /\ w[i].ch = ch}
  IN IF mine = {} THEN <<>> ELSE w[CHOOSE i \in mine : TRUE].data

OneFrame(w) == \A i, j \in 1 .. Len(w) : w[i].kind = "data" /\ w[j].kind = "data" => i = j

LEMMA WireWithoutData ==
  ASSUME NEW w, \A i \in 1 .. Len(w) : w[i].kind # "data"
  PROVE  OneFrame(w) /\ \A ch \in Channel : Of(w, ch) = <<>>
BY DEF OneFrame, Of

LEMMA WireOfSyncs ==
  ASSUME NEW w \in Seq({Sync})
  PROVE  OneFrame(w) /\ \A ch \in Channel : Of(w, ch) = <<>>
<1>1. ASSUME NEW i \in 1 .. Len(w) PROVE w[i].kind # "data"
  <2>1. w[i] = Sync
    BY ElementOfSeq
  <2> QED BY <2>1 DEF Sync
<1> QED BY <1>1, WireWithoutData

LEMMA EmptyWire == OneFrame(<<>>) /\ \A ch \in Channel : Of(<<>>, ch) = <<>>
BY WireWithoutData

LEMMA WireOfAck ==
  ASSUME NEW s
  PROVE  OneFrame(<<AckFrame(s)>>) /\ \A ch \in Channel : Of(<<AckFrame(s)>>, ch) = <<>>
<1> DEFINE w == <<AckFrame(s)>>
<1>1. Len(w) = 1 /\ w[1].kind = "ack"
  BY DEF AckFrame
<1> HIDE DEF w
<1>2. \A i \in 1 .. Len(w) : w[i].kind # "data"
  BY <1>1
<1>3. OneFrame(w) /\ \A ch \in Channel : Of(w, ch) = <<>>
  BY <1>2, WireWithoutData
<1> QED BY <1>3 DEF w

LEMMA WireOfFrame ==
  ASSUME NEW f \in Frame
  PROVE  OneFrame(<<f>>) /\ \A ch \in Channel : Of(<<f>>, ch) = IF f.ch = ch THEN f.data ELSE <<>>
<1> DEFINE w == <<f>>
<1>1. Len(w) = 1 /\ w[1] = f /\ f.kind = "data"
  BY DEF Frame
<1> HIDE DEF w
<1>2. ASSUME NEW ch \in Channel PROVE Of(w, ch) = IF f.ch = ch THEN f.data ELSE <<>>
  <2> DEFINE mine == {i \in 1 .. Len(w) : w[i].kind = "data" /\ w[i].ch = ch}
  <2>1. mine = IF f.ch = ch THEN {1} ELSE {}
    BY <1>1
  <2>2. Of(w, ch) = IF mine = {} THEN <<>> ELSE w[CHOOSE i \in mine : TRUE].data
    BY DEF Of
  <2> HIDE DEF mine
  <2>3. (CHOOSE i \in {1} : TRUE) = 1
    OBVIOUS
  <2> QED BY <1>1, <2>1, <2>2, <2>3
<1>3. OneFrame(w)
  BY <1>1 DEF OneFrame
<1> QED BY <1>2, <1>3 DEF w

\* On a wire of one exchange there is at most one frame, and its data are numbers.
LEMMA ExchangeWire ==
  ASSUME Exchange
  PROVE  OneFrame(wire) /\ \A ch \in Channel : Of(wire, ch) \in Seq(Nat)
<1>1. CASE wire \in Seq({Sync})
  BY <1>1, WireOfSyncs, EmptySeq
<1>2. ASSUME NEW f \in Frame, wire = <<f>> PROVE OneFrame(wire) /\ \A ch \in Channel : Of(wire, ch) \in Seq(Nat)
  <2>1. f.data \in Seq(Nat) /\ <<>> \in Seq(Nat)
    BY EmptySeq DEF Frame
  <2> QED BY <1>2, <2>1, WireOfFrame
<1>3. ASSUME NEW s, wire = <<AckFrame(s)>> PROVE OneFrame(wire) /\ \A ch \in Channel : Of(wire, ch) \in Seq(Nat)
  BY <1>3, WireOfAck, EmptySeq
<1>4. CASE wire = <<>>
  BY <1>4, EmptyWire, EmptySeq
<1> QED BY <1>1, <1>2, <1>3, <1>4 DEF Exchange

LEMMA TextProperties ==
  ASSUME NullmodemTypes
  PROVE  Text \in Seq(Nat) /\ Len(Text) = dummyLen /\ dummyLen \in Nat /\ dummyLen <= FIFO_SIZE
<1>1. dummyLen \in 1 .. FIFO_SIZE /\ FIFO_SIZE \in Nat
  BY LengthAssumption DEF NullmodemTypes
<1>2. Text \in [1 .. dummyLen -> Nat]
  BY <1>1 DEF Text
<1> QED BY <1>1, <1>2, SeqDef DEF Text

LEMMA SendTakesAll ==
  ASSUME NEW fifos \in [Channel -> Seq(Nat)], NEW ch \in Channel, NEW data \in Seq(Nat),
         Len(fifos[ch]) + Len(data) <= FIFO_SIZE
  PROVE  Send(fifos, ch, data) = [fifos EXCEPT ![ch] = fifos[ch] \o data]
<1>1. Len(fifos[ch]) \in Nat /\ Len(data) \in Nat /\ FIFO_SIZE \in Nat
  BY LengthAssumption, LenProperties
<1>2. Least(Len(data), FifoSpace(fifos[ch])) = Len(data)
  <2>1. FifoSpace(fifos[ch]) = FIFO_SIZE - Len(fifos[ch])
    BY DEF FifoSpace
  <2>2. \A a, b \in Int : a <= b => Least(a, b) = a
    BY DEF Least
  <2>3. FIFO_SIZE - Len(fifos[ch]) \in Int /\ Len(data) <= FIFO_SIZE - Len(fifos[ch])
    BY <1>1
  <2> QED BY <1>1, <2>1, <2>2, <2>3
<1>3. SubSeq(data, 1, Len(data)) = data
  BY SubSeqFull
<1> QED BY <1>2, <1>3 DEF Send

\* Of the channels that are ready there is a first one.
LEMMA FirstOfReady ==
  ASSUME \E ch \in Channel : IsReady(ch)
  PROVE  FirstReady \in Channel /\ IsReady(FirstReady)
<1> DEFINE T == {ch \in Channel : IsReady(ch)}
<1>1. LastChannel \in Nat /\ T \in SUBSET (0 .. LastChannel) /\ T # {}
  BY ChannelAssumption DEF Channel
<1>2. PICK x \in T : \A y \in T : x <= y
  <2> HIDE DEF T
  <2> QED BY <1>1, LeastElement
<1>3. x \in Channel /\ IsReady(x)
  OBVIOUS
<1>4. ASSUME NEW c \in 0 .. x - 1 PROVE ~IsReady(c)
  <2>1. c \in Channel /\ ~(x <= c)
    BY <1>1, <1>3 DEF Channel
  <2> QED BY <1>2, <2>1
<1> QED BY <1>3, <1>4 DEF FirstReady

-----------------------------------------------------------------------------

LEMMA ChannelNumbers ==
  /\ LastChannel \in Nat /\ 0 \in Channel /\ LastChannel \in Channel
  /\ \A ch \in Channel : ch \in Nat /\ LastChannel \in ch .. LastChannel
  /\ \A ch \in Channel : ch # 0 => ch - 1 \in Channel
  /\ \A ch \in Channel : ch < LastChannel => ch + 1 \in Channel
BY ChannelAssumption DEF Channel

LEMMA Nothing ==
  ASSUME NEW s \in Seq(Nat)
  PROVE  <<>> \in Seq(Nat) /\ Len(<<>>) = 0 /\ <<>> \o s = s /\ s \o <<>> = s
BY EmptySeq, ConcatEmptySeq

\* When the last channel has everything, nothing is left on the way.
LEMMA DoneMeansArrived ==
  ASSUME NullmodemInv, at = "main", test > 0, Done
  PROVE  \A ch \in Channel : fifo[ch] = <<>> /\ Of(wire, ch) = <<>>
<1> TAKE ch \in Channel
<1>1. /\ Text \in Seq(Nat) /\ Len(Text) = dummyLen /\ dummyLen \in Nat
      /\ \A c \in Channel : got[c] \in Seq(Nat) /\ fifo[c] \in Seq(Nat)
  BY TextProperties DEF NullmodemInv, NullmodemTypes
<1>2. \A c \in Channel : Len(got[c]) = dummyLen
  <2> TAKE c \in Channel
  <2>1. Len(got[LastChannel]) <= Len(got[c]) /\ Len(got[c]) <= dummyLen
    BY ChannelNumbers DEF NullmodemInv, Ordered
  <2>2. Len(got[LastChannel]) = dummyLen
    BY <1>1 DEF Done
  <2>3. Len(got[c]) \in Nat
    BY <1>1, LenProperties
  <2> QED BY <1>1, <2>1, <2>2, <2>3
<1>3. Source(ch) \in Seq(Nat) /\ Len(Source(ch)) = dummyLen
  BY <1>1, <1>2, ChannelNumbers DEF Source
<1> DEFINE moving == Of(wire, ch)
<1>4. moving \in Seq(Nat)
  BY ExchangeWire DEF NullmodemInv
<1>5. Source(ch) = got[ch] \o moving \o fifo[ch]
  BY DEF NullmodemInv, Passed, OnTheWay, Carrying, Of
<1> HIDE DEF moving
<1>6. /\ got[ch] \o moving \in Seq(Nat) /\ Len(got[ch] \o moving) = Len(got[ch]) + Len(moving)
      /\ Len((got[ch] \o moving) \o fifo[ch]) = Len(got[ch]) + Len(moving) + Len(fifo[ch])
  <2>1. got[ch] \o moving \in Seq(Nat) /\ Len(got[ch] \o moving) = Len(got[ch]) + Len(moving)
    BY <1>1, <1>4, ConcatProperties
  <2>2. Len((got[ch] \o moving) \o fifo[ch]) = Len(got[ch] \o moving) + Len(fifo[ch])
    BY <1>1, <2>1, ConcatProperties
  <2> QED BY <2>1, <2>2
<1>7. Len(moving) \in Nat /\ Len(fifo[ch]) \in Nat /\ Len(got[ch]) = dummyLen
  BY <1>1, <1>2, <1>4, LenProperties
<1>8. Len(moving) = 0 /\ Len(fifo[ch]) = 0
  <2>1. got[ch] \o moving \o fifo[ch] = (got[ch] \o moving) \o fifo[ch]
    OBVIOUS
  <2>2. Len(got[ch]) + Len(moving) + Len(fifo[ch]) = dummyLen
    BY <1>3, <1>5, <1>6, <2>1
  <2>3. \A a, b, d \in Nat : d + a + b = d => a = 0 /\ b = 0
    OBVIOUS
  <2> QED BY <1>1, <1>7, <2>2, <2>3
<1> QED BY <1>1, <1>4, <1>8, EmptySeq DEF moving

LEMMA StartPreserves ==
  ASSUME NullmodemInv, StartTest
  PROVE  NullmodemInv'
<1>0. NullmodemTypes /\ Text \in Seq(Nat) /\ Len(Text) = dummyLen /\ dummyLen \in Nat /\ dummyLen <= FIFO_SIZE
  BY TextProperties DEF NullmodemInv
<1>1. \A ch \in Channel : fifo[ch] = <<>> /\ Of(wire, ch) = <<>>
  <2>1. CASE test = 0
    BY <2>1, EmptyWire DEF NullmodemInv, Beginning
  <2>2. CASE test # 0
    BY <1>0, <2>2, CountAssumption, DoneMeansArrived DEF StartTest, NullmodemTypes
  <2> QED BY <2>1, <2>2
<1>2. fifo' = [fifo EXCEPT ![0] = Text]
  <2>1. Len(fifo[0]) + Len(Text) <= FIFO_SIZE /\ fifo[0] \o Text = Text
    <3>1. fifo[0] = <<>>
      BY <1>1, ChannelNumbers
    <3> QED BY <1>0, <3>1, Nothing
  <2>2. fifo \in [Channel -> Seq(Nat)]
    BY <1>0 DEF NullmodemTypes
  <2>3. Send(fifo, 0, Text) = [fifo EXCEPT ![0] = fifo[0] \o Text]
    <3>1. 0 \in Channel
      BY ChannelNumbers
    <3> DEFINE t == Text
    <3>2. t \in Seq(Nat) /\ Len(fifo[0]) + Len(t) <= FIFO_SIZE
      BY <1>0, <2>1
    <3> HIDE DEF t
    <3>3. Send(fifo, 0, t) = [fifo EXCEPT ![0] = fifo[0] \o t]
      BY <2>2, <3>1, <3>2, SendTakesAll
    <3> QED BY <3>3 DEF t
  <2> QED BY <2>1, <2>3 DEF StartTest
<1>3. got' = [ch \in Channel |-> <<>>] /\ test' = test + 1 /\ test' # 0
      /\ UNCHANGED <<at, dummyLen, syncSent, pending, acks, txSeqNr, nextExp, wire>>
  BY <1>0, CountAssumption DEF StartTest, sync, NullmodemTypes
<1>4. NullmodemTypes'
  <2>1. test' \in 0 .. TestCount
    BY <1>0, CountAssumption DEF StartTest, NullmodemTypes
  <2>2. fifo' \in [Channel -> Seq(Nat)] /\ got' \in [Channel -> Seq(Nat)]
    BY <1>0, <1>2, <1>3, EmptySeq DEF NullmodemTypes
  <2> QED BY <1>0, <1>3, <2>1, <2>2 DEF NullmodemTypes
<1>5. Exchange'
  BY <1>3 DEF NullmodemInv, Exchange
<1>6. Beginning'
  BY <1>3 DEF NullmodemInv, Beginning
<1>7. Ordered'
  <2>1. \A ch \in Channel : Len(got'[ch]) = 0
    BY <1>3, EmptySeq
  <2>2. \A c \in Channel : \A d \in c .. LastChannel : d \in Channel
    BY ChannelAssumption DEF Channel
  <2> QED BY <1>0, <1>3, <2>1, <2>2 DEF Ordered
<1>8. Passed'
  <2> SUFFICES ASSUME NEW ch \in Channel PROVE (Source(ch) = got[ch] \o OnTheWay(ch) \o fifo[ch])'
    BY DEF Passed
  <2>1. OnTheWay(ch)' = <<>> /\ got'[ch] = <<>>
    BY <1>1, <1>3 DEF OnTheWay, Carrying, Of
  <2>2. Source(ch)' = fifo'[ch]
    <3>1. CASE ch = 0
      BY <1>0, <1>2, <1>3, <3>1 DEF Source, Text, NullmodemTypes
    <3>2. CASE ch # 0
      BY <1>0, <1>1, <1>2, <1>3, <3>2, ChannelNumbers DEF Source, NullmodemTypes
    <3> QED BY <3>1, <3>2
  <2>3. fifo'[ch] \in Seq(Nat)
    BY <1>4 DEF NullmodemTypes
  <2>4. <<>> \o <<>> = <<>> /\ <<>> \o fifo'[ch] = fifo'[ch]
    BY <2>3, Nothing
  <2> QED BY <2>1, <2>2, <2>4
<1> QED BY <1>4, <1>5, <1>6, <1>7, <1>8 DEF NullmodemInv

LEMMA ClosePreserves ==
  ASSUME NullmodemInv, CloseAll
  PROVE  NullmodemInv'
<1>1. /\ at' = "closed" /\ fifo' = [ch \in Channel |-> <<>>] /\ test # 0 /\ <<>> \in Seq(Nat)
      /\ UNCHANGED <<test, dummyLen, syncSent, pending, acks, txSeqNr, nextExp, wire, got>>
  BY EmptySeq DEF CloseAll, Done, sync
<1>2. NullmodemTypes'
  BY <1>1 DEF NullmodemInv, NullmodemTypes
<1>3. Exchange' /\ Beginning' /\ Ordered'
  BY <1>1 DEF NullmodemInv, Exchange, Beginning, Ordered
<1> QED BY <1>1, <1>2, <1>3 DEF NullmodemInv

\* A step that moves no text.
LEMMA NothingMoved ==
  ASSUME Passed, UNCHANGED <<got, fifo, dummyLen>>, \A ch \in Channel : Of(wire', ch) = Of(wire, ch)
  PROVE  Passed'
<1> SUFFICES ASSUME NEW ch \in Channel PROVE (Source(ch) = got[ch] \o OnTheWay(ch) \o fifo[ch])'
  BY DEF Passed
<1>1. OnTheWay(ch)' = OnTheWay(ch)
  BY DEF OnTheWay, Carrying, Of
<1>2. Source(ch)' = Source(ch)
  BY DEF Source, Text
<1> QED BY <1>1, <1>2 DEF Passed

LEMMA BeginPreserves ==
  ASSUME NullmodemInv, TaskBegin
  PROVE  NullmodemInv'
<1>1. /\ at' = "rx" /\ at = "main" /\ test > 0 /\ Passed
      /\ UNCHANGED <<test, dummyLen, fifo, got>>
  BY DEF TaskBegin, NullmodemInv
<1>2. CASE syncSent
  <2>1. UNCHANGED <<syncSent, pending, acks, txSeqNr, nextExp, wire>>
    BY <1>2 DEF TaskBegin, timeouts
  <2>2. NullmodemTypes' /\ Exchange' /\ Beginning' /\ Ordered'
    BY <1>1, <1>2, <2>1 DEF NullmodemInv, NullmodemTypes, Exchange, Beginning, Ordered
  <2>3. Passed'
    BY <1>1, <2>1, NothingMoved
  <2> QED BY <2>2, <2>3 DEF NullmodemInv
<1>3. CASE ~syncSent
  <2>1. /\ wire = <<>> /\ wire' = <<>> \o [i \in 1 .. 5 |-> Sync]
        /\ syncSent' = TRUE /\ pending' = <<>> /\ acks' = <<>> /\ txSeqNr' = 0 /\ nextExp' = 0
    BY <1>3 DEF TaskBegin, ResetProtocol, NullmodemInv, Beginning
  <2>2. wire' \in Seq({Sync})
    <3> DEFINE syncs == [i \in 1 .. 5 |-> Sync]
    <3>1. syncs \in [1 .. 5 -> {Sync}] /\ 5 \in Nat
      OBVIOUS
    <3> HIDE DEF syncs
    <3>2. syncs \in Seq({Sync})
      BY <3>1, SeqDef
    <3>3. <<>> \o syncs = syncs
      BY <3>2, ConcatEmptySeq
    <3> QED BY <2>1, <3>2, <3>3 DEF syncs
  <2>3. NullmodemTypes'
    <3>1. 0 \in SeqNr
      BY SeqAssumption, DepthAssumption DEF SeqNr
    <3> QED BY <1>1, <2>1, <3>1 DEF NullmodemInv, NullmodemTypes
  <2>4. Exchange'
    BY <2>1, <2>2 DEF Exchange
  <2>5. Beginning' /\ Ordered'
    BY <1>1, <2>1 DEF NullmodemInv, Beginning, Ordered
  <2>6. Passed'
    BY <1>1, <2>1, <2>2, NothingMoved, EmptyWire, WireOfSyncs
  <2> QED BY <2>3, <2>4, <2>5, <2>6 DEF NullmodemInv
<1> QED BY <1>2, <1>3

\* What can be at the head of the wire.
LEMMA HeadOfWire ==
  ASSUME Exchange, wire # <<>>
  PROVE  \/ Head(wire) = Sync /\ Tail(wire) \in Seq({Sync}) /\ wire \in Seq({Sync})
            /\ pending = <<>> /\ acks = <<>> /\ txSeqNr = nextExp
         \/ \E f \in Frame :
              /\ pending = <<f>> /\ acks = <<>> /\ Tail(wire) = <<>>
              /\ \/ Head(wire) = f /\ wire = <<f>> /\ f.seq = nextExp /\ txSeqNr = NextSeq(nextExp)
                 \/ Head(wire) = AckFrame(f.seq) /\ wire = <<AckFrame(f.seq)>> /\ txSeqNr = nextExp
<1>1. ASSUME wire \in Seq({Sync}) PROVE Head(wire) = Sync /\ Tail(wire) \in Seq({Sync})
  BY <1>1, HeadTailProperties
<1>2. ASSUME NEW x PROVE Head(<<x>>) = x /\ Tail(<<x>>) = <<>>
  <2>1. <<x>> = Append(<<>>, x) /\ <<>> \in Seq({x})
    BY EmptySeq
  <2> QED BY <2>1, HeadTailAppend
<1> QED BY <1>1, <1>2 DEF Exchange

LEMMA Kinds ==
  /\ Sync.kind = "sync" /\ \A s : AckFrame(s).kind = "ack" /\ AckFrame(s).seq = s
  /\ \A f \in Frame : f.kind = "data" /\ f.seq \in SeqNr /\ f.ch \in Channel
                       /\ f.data \in Seq(Nat) /\ f.data # <<>>
BY DEF Sync, AckFrame, Frame

LEMMA SyncPreserves ==
  ASSUME NullmodemInv, ReceiveSync
  PROVE  NullmodemInv'
<1>1. /\ Head(wire).kind = "sync" /\ wire # <<>> /\ wire' = Tail(wire) /\ at = "rx"
      /\ UNCHANGED <<at, test, dummyLen, syncSent, fifo, got>>
  BY DEF ReceiveSync, Take
<1>2. wire \in Seq({Sync}) /\ wire' \in Seq({Sync}) /\ pending = <<>> /\ acks = <<>> /\ txSeqNr = nextExp
  BY <1>1, HeadOfWire, Kinds DEF NullmodemInv
<1>3. pending' = <<>> /\ acks' = <<>> /\ txSeqNr' = nextExp' /\ txSeqNr' \in SeqNr
  <2>1. 0 \in SeqNr
    BY SeqAssumption, DepthAssumption DEF SeqNr
  <2> QED BY <1>2, <2>1 DEF ReceiveSync, ResetProtocol, NullmodemInv, NullmodemTypes
<1>4. NullmodemTypes' /\ Ordered'
  BY <1>1, <1>3 DEF NullmodemInv, NullmodemTypes, Ordered
<1>5. Exchange'
  BY <1>2, <1>3 DEF Exchange
<1>6. Beginning'
  BY <1>1, <1>3 DEF NullmodemInv, Beginning
<1>7. ASSUME test > 0 PROVE Passed'
  <2>1. Passed
    BY <1>1, <1>7 DEF NullmodemInv
  <2> QED BY <1>1, <1>2, <2>1, NothingMoved, WireOfSyncs
<1> QED BY <1>1, <1>4, <1>5, <1>6, <1>7 DEF NullmodemInv

LEMMA AckPreserves ==
  ASSUME NullmodemInv, ReceiveAck
  PROVE  NullmodemInv'
<1>1. /\ Head(wire).kind = "ack" /\ wire # <<>> /\ wire' = Tail(wire) /\ at = "rx"
      /\ UNCHANGED <<at, test, dummyLen, syncSent, fifo, got, acks, txSeqNr, nextExp>>
  BY DEF ReceiveAck, Take
<1>2. PICK f \in Frame : /\ pending = <<f>> /\ acks = <<>> /\ Tail(wire) = <<>> /\ txSeqNr = nextExp
                         /\ Head(wire) = AckFrame(f.seq) /\ wire = <<AckFrame(f.seq)>>
  BY <1>1, HeadOfWire, Kinds DEF NullmodemInv
<1>3. pending' = <<>> /\ wire' = <<>>
  <2>1. Head(<<f>>) = f /\ Tail(<<f>>) = <<>> /\ <<f>> # <<>>
    OBVIOUS
  <2>2. Matches
    BY <1>2, <2>1, Kinds DEF Matches
  <2> QED BY <1>1, <1>2, <2>1, <2>2 DEF ReceiveAck
<1>4. NullmodemTypes' /\ Ordered' /\ Beginning'
  BY <1>1, <1>3 DEF NullmodemInv, NullmodemTypes, Ordered, Beginning
<1>5. Exchange'
  BY <1>1, <1>2, <1>3, EmptySeq DEF Exchange
<1>6. ASSUME test > 0 PROVE Passed'
  <2>1. Passed
    BY <1>1, <1>6 DEF NullmodemInv
  <2> QED BY <1>1, <1>2, <1>3, <2>1, NothingMoved, WireOfAck, EmptyWire
<1> QED BY <1>1, <1>4, <1>5, <1>6 DEF NullmodemInv

LEMMA NatSeqs == \A s, t, u \in Seq(Nat) : (s \o t) \o u = s \o (t \o u)
BY ConcatAssociative

LEMMA FirstAck ==
  ASSUME NEW shift, NEW ack
  PROVE  PutAck(<<>>, shift, ack) = <<ack>>
<1>1. Len(<<>>) = 0 /\ ~(0 >= DEPTH)
  BY DepthAssumption
<1>2. PutAck(<<>>, shift, ack) = [i \in 1 .. 1 |->
        IF AckBuffer(shift, i - 1) = AckBuffer(shift, 0) THEN ack ELSE <<>>[i]]
  BY <1>1 DEF PutAck
<1>3. \A i \in 1 .. 1 : i - 1 = 0
  OBVIOUS
<1>4. PutAck(<<>>, shift, ack) = [i \in 1 .. 1 |-> ack]
  BY <1>2, <1>3
<1> QED BY <1>4

\* A frame is handed to its channel, and on to the next one.
LEMMA DataPreserves ==
  ASSUME NullmodemInv, ReceiveData
  PROVE  NullmodemInv'
<1>1. /\ Head(wire).kind = "data" /\ wire # <<>> /\ wire' = Tail(wire) /\ at = "rx"
      /\ UNCHANGED <<at, test, dummyLen, syncSent, pending, txSeqNr>>
  BY DEF ReceiveData, Take
<1>2. PICK f \in Frame : /\ pending = <<f>> /\ acks = <<>> /\ Tail(wire) = <<>> /\ wire = <<f>>
                         /\ Head(wire) = f /\ f.seq = nextExp /\ txSeqNr = NextSeq(nextExp)
  BY <1>1, HeadOfWire, Kinds DEF NullmodemInv
<1>3. /\ wire' = <<>> /\ nextExp' = NextSeq(nextExp) /\ acks' = <<AckFrame(f.seq)>>
      /\ got' = [got EXCEPT ![f.ch] = @ \o f.data] /\ fifo' = Forward(f.ch, f.data)
  BY <1>1, <1>2, FirstAck DEF ReceiveData
<1>4. /\ fifo \in [Channel -> Seq(Nat)] /\ got \in [Channel -> Seq(Nat)]
      /\ f.ch \in Channel /\ f.data \in Seq(Nat) /\ Passed /\ test > 0 /\ Ordered
  <2>1. test # 0 /\ test \in Nat
    BY <1>1, CountAssumption DEF NullmodemInv, NullmodemTypes, Beginning
  <2> QED BY <1>1, <2>1, Kinds DEF NullmodemInv, NullmodemTypes
<1>5. Text \in Seq(Nat) /\ Len(Text) = dummyLen /\ dummyLen \in Nat /\ dummyLen <= FIFO_SIZE /\ FIFO_SIZE \in Nat
  BY TextProperties, LengthAssumption DEF NullmodemInv
<1> DEFINE more == got[f.ch] \o f.data
           next == f.ch + 1
<1>0. LastChannel \in Nat /\ \A c : c \in Channel <=> c \in Nat /\ c <= LastChannel
  BY ChannelAssumption DEF Channel
<1>6. /\ more \in Seq(Nat) /\ Len(more) = Len(got[f.ch]) + Len(f.data)
      /\ Source(f.ch) = more \o fifo[f.ch] /\ Len(Source(f.ch)) = Len(more) + Len(fifo[f.ch])
  <2>1. OnTheWay(f.ch) = f.data
    BY <1>2, <1>4, WireOfFrame DEF OnTheWay, Carrying, Of
  <2>2. more \in Seq(Nat) /\ Len(more) = Len(got[f.ch]) + Len(f.data)
    BY <1>4, ConcatProperties
  <2>3. Len(more \o fifo[f.ch]) = Len(more) + Len(fifo[f.ch])
    BY <1>4, <2>2, ConcatProperties
  <2> QED BY <1>4, <2>1, <2>2, <2>3 DEF Passed
<1>7. ASSUME NEW ch \in Channel, ch # f.ch PROVE Source(ch) = got[ch] \o fifo[ch]
  <2>1. OnTheWay(ch) = <<>>
    BY <1>2, <1>7, WireOfFrame DEF OnTheWay, Carrying, Of
  <2>2. got[ch] \o <<>> = got[ch]
    BY <1>4, <1>7, Nothing
  <2> QED BY <1>4, <2>1, <2>2 DEF Passed
<1>8. Len(more) <= dummyLen /\ \A c \in Channel : c < f.ch => Len(more) <= Len(got[c])
  <2>1. Len(fifo[f.ch]) \in Nat /\ Len(more) \in Nat
    BY <1>4, <1>6, LenProperties
  <2>2. CASE f.ch = 0
    <3>1. Len(more) + Len(fifo[f.ch]) = dummyLen
      BY <1>5, <1>6, <2>2 DEF Source
    <3>2. \A c \in Channel : ~(c < 0)
      BY <1>0
    <3>3. \A a, b, c \in Nat : a + b = c => a <= c
      OBVIOUS
    <3> HIDE DEF more
    <3> QED BY <1>5, <2>1, <2>2, <3>1, <3>2, <3>3
  <2>3. CASE f.ch # 0
    <3>1. f.ch - 1 \in Channel /\ Len(more) + Len(fifo[f.ch]) = Len(got[f.ch - 1])
      BY <1>4, <1>6, <2>3, ChannelNumbers DEF Source
    <3>2. Len(got[f.ch - 1]) \in Nat /\ Len(got[f.ch - 1]) <= dummyLen
      BY <1>4, <3>1, LenProperties DEF Ordered
    <3>3. ASSUME NEW c \in Channel, c < f.ch PROVE Len(got[f.ch - 1]) <= Len(got[c]) /\ Len(got[c]) \in Nat
      <4>1. f.ch - 1 \in c .. LastChannel
        <5>1. f.ch \in Nat /\ c \in Nat /\ f.ch <= LastChannel
          BY <1>0, <1>4
        <5> QED BY <1>0, <3>3, <5>1
      <4> QED BY <1>4, <4>1, LenProperties DEF Ordered
    <3> HIDE DEF more
    <3> QED BY <1>5, <2>1, <3>1, <3>2, <3>3
  <2> QED BY <2>2, <2>3
<1>9. fifo' = IF f.ch < LastChannel THEN [fifo EXCEPT ![next] = fifo[next] \o f.data] ELSE fifo
  <2>1. CASE f.ch < LastChannel
    <3>1. next \in Channel /\ next # f.ch /\ next # 0 /\ next - 1 = f.ch
      <4>1. f.ch \in Nat
        BY <1>0, <1>4
      <4> QED BY <1>0, <2>1, <4>1
    <3> HIDE DEF next
    <3>2. got[f.ch] = got[next] \o fifo[next]
      BY <1>7, <3>1 DEF Source
    <3>3. Len(got[f.ch]) = Len(got[next]) + Len(fifo[next])
      BY <1>4, <3>1, <3>2, ConcatProperties
    <3>4. Len(got[next]) \in Nat /\ Len(fifo[next]) \in Nat /\ Len(f.data) \in Nat
      BY <1>4, <3>1, LenProperties
    <3>5. Len(fifo[next]) + Len(f.data) <= FIFO_SIZE
      <4>1. Len(got[next]) + Len(fifo[next]) + Len(f.data) <= dummyLen
        BY <1>6, <1>8, <3>3
      <4>2. \A a, b, c, d, e \in Nat : a + b + c <= d /\ d <= e => b + c <= e
        OBVIOUS
      <4> QED BY <1>5, <3>4, <4>1, <4>2
    <3>6. Send(fifo, next, f.data) = [fifo EXCEPT ![next] = fifo[next] \o f.data]
      <4> DEFINE data == f.data
      <4>1. data \in Seq(Nat) /\ Len(fifo[next]) + Len(data) <= FIFO_SIZE
        BY <1>4, <3>5
      <4>2. fifo \in [Channel -> Seq(Nat)] /\ next \in Channel
        BY <1>4, <3>1
      <4> HIDE DEF data
      <4>3. \A o \in Channel : Len(fifo[o]) + Len(data) <= FIFO_SIZE =>
              Send(fifo, o, data) = [fifo EXCEPT ![o] = fifo[o] \o data]
        BY <4>1, <4>2, SendTakesAll
      <4>4. Send(fifo, next, data) = [fifo EXCEPT ![next] = fifo[next] \o data]
        BY <4>1, <4>2, <4>3
      <4> QED BY <4>4 DEF data
    <3> QED BY <1>3, <2>1, <3>6 DEF Forward, next
  <2>2. CASE ~(f.ch < LastChannel)
    BY <1>3, <2>2 DEF Forward
  <2> QED BY <2>1, <2>2
<1>10. NullmodemTypes'
  <2>1. nextExp' \in SeqNr
    BY <1>1, <1>2, <1>3 DEF NullmodemInv, NullmodemTypes
  <2>2. got' \in [Channel -> Seq(Nat)]
    BY <1>3, <1>4, <1>6
  <2>3. fifo' \in [Channel -> Seq(Nat)]
    <3>1. CASE f.ch < LastChannel
      <4>1. next \in Channel
        BY <1>4, <3>1, ChannelNumbers
      <4> HIDE DEF next
      <4>2. fifo[next] \o f.data \in Seq(Nat)
        BY <1>4, <4>1, ConcatProperties
      <4> QED BY <1>4, <1>9, <4>1, <4>2
    <3> QED BY <1>4, <1>9, <3>1
  <2> QED BY <1>1, <2>1, <2>2, <2>3 DEF NullmodemInv, NullmodemTypes
<1>11. Exchange'
  BY <1>1, <1>2, <1>3 DEF Exchange
<1>12. Beginning'
  BY <1>1, <1>4 DEF NullmodemInv, Beginning
<1>13. Ordered'
  <2>1. \A c \in Channel : got'[c] = IF c = f.ch THEN more ELSE got[c]
    BY <1>3, <1>4
  <2>2. Len(more) \in Nat /\ Len(f.data) \in Nat /\ Len(got[f.ch]) \in Nat /\ Len(more) >= Len(got[f.ch])
    <3>1. Len(f.data) \in Nat /\ Len(got[f.ch]) \in Nat
      BY <1>4, LenProperties
    <3>2. Len(more) = Len(got[f.ch]) + Len(f.data)
      BY <1>6
    <3> HIDE DEF more
    <3>3. \A a, b \in Nat : a + b \in Nat /\ a + b >= a
      OBVIOUS
    <3> QED BY <3>1, <3>2, <3>3
  <2> HIDE DEF more
  <2>3. ASSUME NEW c \in Channel, NEW d \in c .. LastChannel PROVE Len(got'[d]) <= Len(got'[c])
    <3>1. /\ d \in Channel /\ d >= c /\ Len(got[d]) <= Len(got[c]) /\ c \in Nat /\ d \in Nat
          /\ Len(got[c]) \in Nat /\ Len(got[d]) \in Nat
      <4>1. d \in Channel /\ d >= c /\ c \in Nat /\ d \in Nat
        BY ChannelAssumption DEF Channel
      <4> QED BY <1>4, <4>1, LenProperties DEF Ordered
    <3>2. CASE d = f.ch /\ c # f.ch
      <4>1. c < f.ch
        BY <3>1, <3>2
      <4> QED BY <1>8, <2>1, <3>1, <3>2, <4>1
    <3>3. CASE d # f.ch /\ c = f.ch
      BY <2>1, <2>2, <3>1, <3>3
    <3>4. CASE d = c
      BY <2>1, <2>2, <3>1, <3>4
    <3>5. CASE d # f.ch /\ c # f.ch
      BY <2>1, <3>1, <3>5
    <3> QED BY <3>2, <3>3, <3>4, <3>5
  <2>4. \A c \in Channel : Len(got'[c]) <= dummyLen
    BY <1>4, <1>8, <2>1 DEF Ordered
  <2> QED BY <1>1, <2>3, <2>4 DEF Ordered
<1>14. Passed'
  <2> SUFFICES ASSUME NEW ch \in Channel PROVE (Source(ch) = got[ch] \o OnTheWay(ch) \o fifo[ch])'
    BY DEF Passed
  <2>1. OnTheWay(ch)' = <<>>
    BY <1>3, EmptyWire DEF OnTheWay, Carrying, Of
  <2>2. got'[ch] \o <<>> = got'[ch]
    BY <1>10, Nothing DEF NullmodemTypes
  <2>3. Source(ch)' = got'[ch] \o fifo'[ch]
    <3>1. CASE ch = f.ch
      <4>1. got'[ch] = more /\ fifo'[ch] = fifo[ch]
        <5>1. f.ch \in Nat /\ next # f.ch
          BY <1>0, <1>4
        <5> HIDE DEF next
        <5> QED BY <1>3, <1>4, <1>9, <3>1, <5>1
      <4>2. Source(ch)' = Source(ch)
        BY <1>1, <1>3, <1>4, <3>1, ChannelNumbers DEF Source, Text
      <4> QED BY <1>6, <3>1, <4>1, <4>2
    <3>2. CASE f.ch < LastChannel /\ ch = next
      <4>1. ch # f.ch /\ ch # 0 /\ ch - 1 = f.ch
        <5>1. f.ch \in Nat
          BY <1>0, <1>4
        <5> QED BY <3>2, <5>1
      <4>2. got'[ch] = got[ch] /\ fifo'[ch] = fifo[ch] \o f.data /\ got'[f.ch] = more
        <5> HIDE DEF next
        <5> QED BY <1>3, <1>4, <1>9, <3>2, <4>1
      <4>3. Source(ch)' = more /\ Source(ch) = got[f.ch]
        BY <4>1, <4>2 DEF Source
      <4>4. got[f.ch] = got[ch] \o fifo[ch]
        BY <1>7, <4>1, <4>3
      <4>5. (got[ch] \o fifo[ch]) \o f.data = got[ch] \o (fifo[ch] \o f.data)
        <5>1. got[ch] \in Seq(Nat) /\ fifo[ch] \in Seq(Nat)
          BY <1>4
        <5> DEFINE data == f.data
        <5>2. data \in Seq(Nat)
          BY <1>4
        <5> HIDE DEF data
        <5>3. (got[ch] \o fifo[ch]) \o data = got[ch] \o (fifo[ch] \o data)
          BY <5>1, <5>2, NatSeqs
        <5> QED BY <5>3 DEF data
      <4> QED BY <4>2, <4>3, <4>4, <4>5
    <3>3. CASE ch # f.ch /\ ~(f.ch < LastChannel /\ ch = next)
      <4>1. fifo'[ch] = fifo[ch]
        BY <1>4, <1>9, <3>3
      <4>2. got'[ch] = got[ch]
        BY <1>3, <1>4, <3>3
      <4>3. ch # 0 => ch - 1 \in Channel /\ ch - 1 # f.ch
        <5>1. ch \in Nat /\ f.ch \in Nat /\ LastChannel \in Nat /\ ch <= LastChannel
          BY <1>4, ChannelAssumption DEF Channel
        <5> QED BY <3>3, <5>1, ChannelNumbers
      <4>4. Source(ch)' = Source(ch)
        BY <1>1, <1>3, <1>4, <4>3 DEF Source, Text
      <4> QED BY <1>7, <3>3, <4>1, <4>2, <4>4
    <3> QED BY <3>1, <3>2, <3>3
  <2> QED BY <2>1, <2>2, <2>3
<1> QED BY <1>10, <1>11, <1>12, <1>13, <1>14 DEF NullmodemInv

\* The ACK goes out, or the first bytes of the first channel that has any.
LEMMA TransmissionPreserves ==
  ASSUME NullmodemInv, DoTransmission
  PROVE  NullmodemInv'
<1>1. /\ at = "rx" /\ at' = "main" /\ wire = <<>>
      /\ UNCHANGED <<test, dummyLen, syncSent, nextExp, got>>
  BY DEF DoTransmission, NoMoreInput, sync
<1>2. /\ fifo \in [Channel -> Seq(Nat)] /\ test > 0 /\ Passed /\ syncSent /\ Ordered /\ Exchange
      /\ txSeqNr \in SeqNr /\ nextExp \in SeqNr
  <2>1. test # 0 /\ test \in Nat
    BY <1>1, CountAssumption DEF NullmodemInv, NullmodemTypes, Beginning
  <2> QED BY <1>1, <2>1 DEF NullmodemInv, NullmodemTypes, Beginning
<1>3. Beginning' /\ Ordered'
  BY <1>1, <1>2 DEF Beginning, Ordered
<1>4. ASSUME fifo' \in [Channel -> Seq(Nat)], txSeqNr' \in SeqNr PROVE NullmodemTypes'
  BY <1>1, <1>4 DEF NullmodemInv, NullmodemTypes
<1>5. ASSUME UNCHANGED <<fifo, pending, acks, txSeqNr, wire>> PROVE NullmodemInv'
  <2>1. Exchange'
    BY <1>1, <1>2, <1>5 DEF Exchange
  <2>2. Passed'
    BY <1>1, <1>2, <1>5, NothingMoved
  <2> QED BY <1>2, <1>3, <1>4, <1>5, <2>1, <2>2 DEF NullmodemInv
<1>6. CASE pending # <<>>
  <2>1. PICK f \in Frame : pending = <<f>> /\ acks = <<AckFrame(f.seq)>> /\ txSeqNr = nextExp
    BY <1>1, <1>2, <1>6 DEF Exchange
  <2>2. Xfer = "ack"
    BY <2>1 DEF Xfer
  <2>3. Head(acks) = AckFrame(f.seq) /\ Tail(acks) = <<>> /\ Append(<<>>, Head(acks)) = <<AckFrame(f.seq)>>
    BY <2>1
  <2>4. CASE TransmitXfer
    <3>1. /\ wire' = Append(wire, Head(acks)) /\ acks' = Tail(acks)
          /\ UNCHANGED <<fifo, pending, txSeqNr>>
      BY <2>2, <2>4 DEF TransmitXfer, Transmit
    <3>2. wire' = <<AckFrame(f.seq)>> /\ acks' = <<>>
      BY <1>1, <2>3, <3>1
    <3>3. Exchange'
      BY <1>1, <2>1, <3>1, <3>2 DEF Exchange
    <3>4. Passed'
      BY <1>1, <1>2, <3>1, <3>2, NothingMoved, EmptyWire, WireOfAck
    <3> QED BY <1>2, <1>3, <1>4, <3>1, <3>3, <3>4 DEF NullmodemInv
  <2>5. CASE UNCHANGED <<fifo, pending, acks, txSeqNr, wire>>
    BY <2>5, <1>5
  <2> QED BY <2>4, <2>5 DEF DoTransmission
<1>7. CASE pending = <<>>
  <2>1. acks = <<>> /\ txSeqNr = nextExp
    BY <1>2, <1>7 DEF Exchange
  <2>2. CASE ~TransmitXfer \/ Xfer = "nothing"
    <3>1. UNCHANGED <<fifo, pending, acks, txSeqNr, wire>>
      BY <2>2 DEF DoTransmission, TransmitXfer
    <3> QED BY <3>1, <1>5
  <2>3. CASE TransmitXfer /\ Xfer # "nothing"
    <3>1. Xfer = "data" /\ \E ch \in Channel : IsReady(ch)
      BY <1>7, <2>1, <2>3 DEF Xfer
    <3> DEFINE ch == FirstReady
               n == Least(Len(fifo[ch]), FRAME_PAYLOAD)
               f == DataFrame(txSeqNr, ch, NewData)
               rest == SubSeq(fifo[ch], n + 1, Len(fifo[ch]))
    <3>2. ch \in Channel /\ IsReady(ch)
      BY <3>1, FirstOfReady
    <3>3. fifo[ch] \in Seq(Nat) /\ Len(fifo[ch]) \in Nat
      BY <1>2, <3>2, LenProperties
    <3>4. n \in 1 .. Len(fifo[ch])
      <4>1. Len(fifo[ch]) > 0
        BY <3>2, <3>3, PayloadAssumption DEF IsReady, Ready
      <4> HIDE DEF ch
      <4> QED BY <3>3, <4>1, PayloadAssumption DEF Least
    <3>5. /\ NewData \in Seq(Nat) /\ Len(NewData) = n /\ NewData # <<>>
          /\ rest \in Seq(Nat) /\ fifo[ch] = NewData \o rest
      <4>1. NewData = SubSeq(fifo[ch], 1, n)
        BY DEF NewData
      <4> HIDE DEF ch, n
      <4>2. \A i \in 1 .. Len(fifo[ch]) : fifo[ch][i] \in Nat
        BY <3>3, ElementOfSeq
      <4>3. SubSeq(fifo[ch], 1, n) \in Seq(Nat) /\ Len(SubSeq(fifo[ch], 1, n)) = n
        BY <3>3, <3>4, <4>2, SubSeqProperties
      <4>4. rest \in Seq(Nat)
        BY <3>3, <3>4, <4>2, SubSeqProperties
      <4>5. SubSeq(fifo[ch], 1, n) \o rest = SubSeq(fifo[ch], 1, Len(fifo[ch]))
        BY <3>3, <3>4, ConcatAdjacentSubSeq
      <4>6. SubSeq(fifo[ch], 1, Len(fifo[ch])) = fifo[ch]
        BY <3>3, SubSeqFull
      <4>7. Len(<<>>) = 0 /\ n # 0
        BY <3>4, EmptySeq
      <4> QED BY <4>1, <4>3, <4>4, <4>5, <4>6, <4>7
    <3>6. f \in Frame /\ f.seq = txSeqNr /\ f.ch = ch /\ f.data = NewData
      <4> HIDE DEF ch
      <4> QED BY <1>2, <3>2, <3>5 DEF DataFrame, Frame
    <3>7. /\ wire' = Append(wire, f) /\ pending' = Append(pending, f)
          /\ fifo' = [fifo EXCEPT ![ch] = SubSeq(@, Len(NewData) + 1, Len(@))]
          /\ txSeqNr' = NextSeq(txSeqNr) /\ acks' = acks
      BY <2>3, <3>1 DEF TransmitXfer, Transmit
    <3> HIDE DEF f, ch, n
    <3>8. wire' = <<f>> /\ pending' = <<f>> /\ acks' = <<>>
      BY <1>1, <1>7, <2>1, <3>7
    <3>9. fifo' = [fifo EXCEPT ![ch] = rest]
      BY <3>5, <3>7
    <3>10. NullmodemTypes'
      <4>1. txSeqNr' \in SeqNr
        BY <1>2, <3>7, SeqAssumption, DepthAssumption DEF NextSeq, SeqNr
      <4> HIDE DEF rest
      <4> QED BY <1>2, <1>4, <3>2, <3>5, <3>9, <4>1
    <3>11. Exchange'
      BY <1>1, <2>1, <3>6, <3>7, <3>8 DEF Exchange
    <3>12. Passed'
      <4> SUFFICES ASSUME NEW c \in Channel PROVE (Source(c) = got[c] \o OnTheWay(c) \o fifo[c])'
        BY DEF Passed
      <4>1. OnTheWay(c) = <<>> /\ OnTheWay(c)' = IF c = ch THEN NewData ELSE <<>>
        <5>1. Of(wire, c) = <<>> /\ Of(wire', c) = IF c = ch THEN NewData ELSE <<>>
          BY <1>1, <3>6, <3>8, EmptyWire, WireOfFrame
        <5> QED BY <5>1 DEF OnTheWay, Carrying, Of
      <4>2. Source(c)' = Source(c)
        BY <1>1 DEF Source, Text
      <4>3. got[c] \in Seq(Nat) /\ got[c] \o <<>> = got[c]
        BY Nothing DEF NullmodemInv, NullmodemTypes
      <4>4. Source(c) = got[c] \o fifo[c]
        BY <1>2, <4>1, <4>3 DEF Passed
      <4> HIDE DEF rest
      <4>5. CASE c = ch
        <5>1. (got[c] \o NewData) \o rest = got[c] \o (NewData \o rest)
          BY <3>5, <4>3, NatSeqs
        <5>2. fifo'[c] = rest /\ fifo[c] = NewData \o rest
          BY <1>2, <3>2, <3>5, <3>9, <4>5
        <5> QED BY <1>1, <4>1, <4>2, <4>4, <4>5, <5>1, <5>2
      <4>6. CASE c # ch
        BY <1>1, <1>2, <3>2, <3>9, <4>1, <4>2, <4>3, <4>4, <4>6
      <4> QED BY <4>5, <4>6
    <3> QED BY <1>3, <3>10, <3>11, <3>12 DEF NullmodemInv
  <2> QED BY <2>2, <2>3
<1> QED BY <1>6, <1>7

-----------------------------------------------------------------------------

LEMMA NullmodemInit == Init => NullmodemInv
<1> SUFFICES ASSUME Init PROVE NullmodemInv
  OBVIOUS
<1>1. <<>> \in Seq(Nat) /\ <<>> \in Seq({Sync}) /\ Len(<<>>) = 0 /\ 0 \in SeqNr
  BY EmptySeq, SeqAssumption, DepthAssumption DEF SeqNr
<1>2. NullmodemTypes
  <2>1. 0 \in 0 .. TestCount
    BY CountAssumption
  <2> QED BY <1>1, <2>1 DEF Init, NullmodemTypes
<1>3. Exchange
  BY <1>1 DEF Init, Exchange
<1>4. Beginning
  BY DEF Init, Beginning
<1>5. Ordered
  <2>1. dummyLen \in Nat
    BY <1>2, TextProperties
  <2>2. \A c \in Channel : \A d \in c .. LastChannel : d \in Channel
    BY ChannelAssumption DEF Channel
  <2> QED BY <1>1, <2>1, <2>2 DEF Init, Ordered
<1> QED BY <1>2, <1>3, <1>4, <1>5 DEF Init, NullmodemInv

LEMMA NullmodemStep == NullmodemInv /\ [Next]_vars => NullmodemInv'
<1> SUFFICES ASSUME NullmodemInv, [Next]_vars PROVE NullmodemInv'
  OBVIOUS
<1>1. CASE UNCHANGED vars
  <2>1. UNCHANGED <<at, test, dummyLen, syncSent, fifo, pending, acks, txSeqNr, nextExp, wire, got>>
    BY <1>1 DEF vars, sync
  <2>2. NullmodemTypes' /\ Exchange' /\ Beginning' /\ Ordered'
    BY <2>1 DEF NullmodemInv, NullmodemTypes, Exchange, Beginning, Ordered
  <2>3. Passed => Passed'
    BY <2>1, NothingMoved
  <2> QED BY <2>1, <2>2, <2>3 DEF NullmodemInv
<1> QED BY <1>1, StartPreserves, ClosePreserves, BeginPreserves, SyncPreserves, AckPreserves,
           DataPreserves, TransmissionPreserves DEF Next

\* One frame is exchanged at a time, no channel is ahead of one before it, and the whole
\* text is accounted for.
THEOREM NullmodemInvariant == Spec => []NullmodemInv
<1> QED BY NullmodemInit, NullmodemStep, PTL DEF Spec

\* The forwarding receivers lose nothing: what send() is given always fits, and all that
\* a channel was given is with the next channel, in a frame or in a fifo.
THEOREM DemoLosesNothing == Spec => []NothingLost
<1>1. NullmodemInv => NothingLost
  <2> SUFFICES ASSUME NullmodemInv, at # "closed", test > 0 PROVE OneFrame(wire) /\ Passed
    BY DEF NothingLost, OneFrame, Passed
  <2> QED BY ExchangeWire DEF NullmodemInv
<1> QED BY <1>1, NullmodemInvariant, PTL
=============================================================================
