-------------------------- MODULE TxQueues_proofs --------------------------
(***************************************************************************)
(* Facts about sequence numbers and about the queue of ACKs that the       *)
(* proofs of both users of TxQueues need, for every depth and every number *)
(* of sequence numbers.                                                    *)
(***************************************************************************)
EXTENDS TxQueues, SequenceTheorems, FiniteSetTheorems, TLAPS

\* A number is its quotient and its remainder, and no other pair.
LEMMA Division ==
  ASSUME NEW m \in Nat \ {0}, NEW a \in Int
  PROVE  a % m \in 0 .. m - 1 /\ a \div m \in Int /\ a = m * (a \div m) + (a % m)
<1>1. a % m \in 0 .. m - 1
  OBVIOUS
<1>2. a = m * (a \div m) + (a % m)
  OBVIOUS
<1> QED BY <1>1, <1>2

LEMMA Remainder ==
  ASSUME NEW m \in Nat \ {0}, NEW q \in Int, NEW r \in 0 .. m - 1
  PROVE  (m * q + r) % m = r
  OBVIOUS

\* Counting on and taking the remainder commute.
LEMMA RemainderOfNext ==
  ASSUME NEW m \in Nat \ {0}, NEW a \in Int
  PROVE  (a + 1) % m = ((a % m) + 1) % m
<1> DEFINE q == a \div m
           r == a % m
<1>1. r \in 0 .. m - 1 /\ q \in Int /\ a = m * q + r
  BY Division
<1> HIDE DEF q, r
<1>2. CASE r + 1 < m
  <2>1. r + 1 \in 0 .. m - 1 /\ a + 1 = m * q + (r + 1)
    BY <1>1, <1>2
  <2>2. (a + 1) % m = r + 1
    BY <2>1, <1>1, Remainder
  <2>3. r + 1 = m * 0 + (r + 1)
    BY <1>1
  <2>4. (r + 1) % m = r + 1
    BY <2>1, <2>3, Remainder
  <2> QED BY <2>2, <2>4 DEF r
<1>3. CASE r + 1 = m
  <2>1. a + 1 = m * (q + 1) + 0 /\ q + 1 \in Int /\ 0 \in 0 .. m - 1
    BY <1>1, <1>3
  <2>2. (a + 1) % m = 0
    BY <2>1, Remainder
  <2>3. r + 1 = m * 1 + 0
    BY <1>3
  <2>4. (r + 1) % m = 0
    BY <2>1, <2>3, Remainder
  <2> QED BY <2>2, <2>4 DEF r
<1> QED BY <1>1, <1>2, <1>3

\* Numbers with one remainder keep it when both count on.
LEMMA RemainderShift ==
  ASSUME NEW m \in Nat \ {0}, NEW a \in Int, NEW b \in Int, NEW k \in Int, a % m = b % m
  PROVE  (a + k) % m = (b + k) % m
<1> DEFINE p == a \div m
           q == b \div m
           c == (b + k) \div m
           r == a % m
           t == (b + k) % m
<1>1. p \in Int /\ r \in Int /\ a = m * p + r
  BY Division
<1>2. q \in Int /\ b = m * q + r
  BY Division
<1>3. c \in Int /\ t \in 0 .. m - 1 /\ b + k = m * c + t
  BY Division, b + k \in Int
<1> HIDE DEF p, q, c, r, t
<1>4. a + k = m * (c + p - q) + t /\ c + p - q \in Int
  <2>1. m * (c + p - q) = m * c + m * p - m * q
    BY <1>1, <1>2, <1>3
  <2> QED BY <1>1, <1>2, <1>3, <2>1
<1>5. (a + k) % m = t
  BY <1>3, <1>4, Remainder
<1> QED BY <1>5 DEF t

LEMMA RemainderOfSmall ==
  ASSUME NEW m \in Nat \ {0}, NEW r \in 0 .. m - 1
  PROVE  r % m = r
<1>1. r = m * 0 + r
  OBVIOUS
<1> QED BY <1>1, Remainder

\* Numbers with one remainder that are less than m apart are equal: what makes a
\* sequence number name one frame of a window.
LEMMA RemainderNamesOne ==
  ASSUME NEW m \in Nat \ {0}, NEW a \in Int, NEW b \in Int,
         a % m = b % m, a - b < m, b - a < m
  PROVE  a = b
<1> DEFINE p == a \div m
           q == b \div m
           r == a % m
<1>a. p \in Int /\ r \in Int /\ a = m * p + r
  BY Division
<1>b. q \in Int /\ b = m * q + r
  BY Division
<1> HIDE DEF p, q, r
<1>1. p \in Int /\ q \in Int /\ a - b = m * p - m * q
  BY <1>a, <1>b
<1>2. CASE p = q
  BY <1>1, <1>2
<1>3. CASE p > q
  <2>1. PICK d \in Nat : p = q + 1 + d
    BY <1>1, <1>3, p - q - 1 \in Nat
  <2>2. m * p = m * q + m + m * d /\ m * d >= 0
    BY <2>1, <1>1
  <2> QED BY <1>1, <2>1, <2>2
<1>4. CASE q > p
  <2>1. PICK d \in Nat : q = p + 1 + d
    BY <1>1, <1>4, q - p - 1 \in Nat
  <2>2. m * q = m * p + m + m * d /\ m * d >= 0
    BY <2>1, <1>1
  <2> QED BY <1>1, <2>1, <2>2
<1> QED BY <1>1, <1>2, <1>3, <1>4

\* Taking away one turn leaves the remainder, and the time since now is 0.
LEMMA OneTurnLess ==
  ASSUME NEW m \in Nat \ {0}, NEW a \in Int
  PROVE  (a - m) % m = a % m
<1> DEFINE q == a \div m
           r == a % m
<1>1. r \in 0 .. m - 1 /\ q \in Int /\ a = m * q + r
  BY Division
<1> HIDE DEF q, r
<1>2. a - m = m * (q - 1) + r /\ q - 1 \in Int
  BY <1>1
<1>3. (a - m) % m = r
  BY <1>1, <1>2, Remainder
<1> QED BY <1>3 DEF r

LEMMA NothingElapsed ==
  ASSUME NEW m \in Nat \ {0}, NEW c \in Int
  PROVE  (c - c) % m = 0
<1>1. c - c = m * 0 + 0 /\ 0 \in 0 .. m - 1
  OBVIOUS
<1> QED BY <1>1, Remainder

\* A clock of m values that moves on by one has moved on by one since any moment less
\* than a turn ago, its wrap included.
LEMMA ElapsedGrows ==
  ASSUME NEW m \in Nat \ {0}, NEW c \in 0 .. m - 1, NEW a \in Int, NEW d \in Nat,
         (c - a) % m = d, d + 1 < m
  PROVE  (((c + 1) % m) - a) % m = d + 1
<1>1. ((c - a) + 1) % m = d + 1
  <2>1. ((c - a) + 1) % m = (d + 1) % m
    BY RemainderOfNext, c - a \in Int
  <2>2. d + 1 = m * 0 + (d + 1) /\ d + 1 \in 0 .. m - 1
    OBVIOUS
  <2>3. (d + 1) % m = d + 1
    BY <2>2, Remainder
  <2> QED BY <2>1, <2>3
<1>2. CASE c + 1 < m
  <2>1. c + 1 = m * 0 + (c + 1) /\ c + 1 \in 0 .. m - 1
    BY <1>2
  <2>2. (c + 1) % m = c + 1
    BY <2>1, Remainder
  <2>3. (c + 1) - a = (c - a) + 1
    OBVIOUS
  <2> QED BY <1>1, <2>2, <2>3
<1>3. CASE c + 1 = m
  <2>1. c + 1 = m * 1 + 0 /\ 0 \in 0 .. m - 1
    BY <1>3
  <2>2. (c + 1) % m = 0
    BY <2>1, Remainder
  <2>3. 0 - a = ((c - a) + 1) - m /\ (c - a) + 1 \in Int
    BY <1>3
  <2>4. (((c - a) + 1) - m) % m = ((c - a) + 1) % m
    BY <2>3, OneTurnLess
  <2> QED BY <1>1, <2>2, <2>3, <2>4
<1> QED BY <1>2, <1>3

LEMMA NextSeqType ==
  ASSUME NEW seq \in Int
  PROVE  NextSeq(seq) \in SeqNr
<1>1. SEQ_MOD \in Nat \ {0} /\ seq + 1 \in Int
  BY SeqAssumption, DepthAssumption
<1>2. (seq + 1) % SEQ_MOD \in 0 .. SEQ_MOD - 1
  BY <1>1, Division
<1> QED BY <1>2 DEF NextSeq, SeqNr

\* Adding an ACK makes the queue one longer unless it is full, the new ACK is the
\* last, and the ones it overwrites are the last ones before it.
LEMMA PutAckShape ==
  ASSUME NEW S, NEW acks \in Seq(S), NEW ack \in S, NEW shift \in 0 .. DEPTH - 1,
         Len(acks) < DEPTH
  PROVE  /\ PutAck(acks, shift, ack) \in Seq(S)
         /\ Len(PutAck(acks, shift, ack)) = Len(acks) + 1
         /\ PutAck(acks, shift, ack)[Len(acks) + 1] = ack
         /\ \A i \in 1 .. Len(acks) :
              \/ PutAck(acks, shift, ack)[i] = acks[i]
              \/ \A j \in i .. Len(acks) : PutAck(acks, shift, ack)[j] = ack
<1> DEFINE n == Len(acks)
           new == [i \in 1 .. n + 1 |->
                     IF AckBuffer(shift, i - 1) = AckBuffer(shift, n) THEN ack ELSE acks[i]]
<1>1. n \in Nat /\ PutAck(acks, shift, ack) = new
  BY DepthAssumption DEF PutAck
<1>2. \A i \in 1 .. n : acks[i] \in S
  OBVIOUS
<1>3. ASSUME NEW i \in 1 .. n + 1
      PROVE  /\ new[i] \in S
             /\ i = n + 1 => new[i] = ack
             /\ i < n + 1 => new[i] = acks[i] \/ \A j \in i .. n : new[j] = ack
  <2>1. AckBuffer(shift, i - 1) \in Int
    BY <1>1, DepthAssumption DEF AckBuffer, Least
  <2>2. CASE AckBuffer(shift, i - 1) = AckBuffer(shift, n) /\ i < n + 1
    <3>1. ASSUME NEW j \in i .. n PROVE AckBuffer(shift, j - 1) = AckBuffer(shift, n)
      BY <1>1, <2>2, DepthAssumption DEF AckBuffer, Least
    <3>2. \A j \in i .. n : new[j] = ack
      BY <1>1, <2>2, <3>1
    <3>3. new[i] = ack
      BY <1>1, <2>2
    <3> QED BY <1>1, <2>2, <3>2, <3>3
  <2>3. CASE AckBuffer(shift, i - 1) # AckBuffer(shift, n) /\ i < n + 1
    BY <1>1, <1>2, <2>3
  <2>4. CASE i = n + 1
    BY <1>1, <2>4
  <2>5. i < n + 1 \/ i = n + 1
    BY <1>1
  <2> QED BY <2>2, <2>3, <2>4, <2>5
<1>4. new \in Seq(S) /\ Len(new) = n + 1
  <2>1. new \in [1 .. n + 1 -> S]
    BY <1>3
  <2> HIDE DEF new, n
  <2> QED BY <1>1, <2>1, SeqDef, LenProperties
<1> HIDE DEF new
<1>5. n + 1 \in 1 .. n + 1
  BY <1>1
<1>6. new[n + 1] = ack
  BY <1>3, <1>5
<1>7. \A i \in 1 .. n : new[i] = acks[i] \/ \A j \in i .. n : new[j] = ack
  BY <1>1, <1>3
<1> QED BY <1>1, <1>4, <1>6, <1>7

\* A set of natural numbers with a bound has a least element.
LEMMA LeastElement ==
  ASSUME NEW n \in Nat, NEW T \in SUBSET (0 .. n), T # {}
  PROVE  \E x \in T : \A y \in T : x <= y
<1> DEFINE S == 0 .. n
           R == StrictSubsetOrdering(S)
           I == {0 .. x : x \in T}
<1>1. IsWellFoundedOn(R, SUBSET S)
  <2>1. IsFiniteSet(S)
    BY FS_Interval
  <2>2. FiniteSubsetsOf(S) = SUBSET S
    BY <2>1, FS_FiniteSubsetsOfFinite
  <2> QED BY <2>2, FS_StrictSubsetOrderingWellFounded
<1>2. \A x \in T : x \in Nat /\ x <= n /\ 0 .. x \in SUBSET S
  OBVIOUS
<1>3. I \in SUBSET SUBSET S /\ I # {}
  BY <1>2
<1>4. PICK X \in I : \A Y \in I : ~ (<<Y, X>> \in R)
  <2> HIDE DEF R, I, S
  <2> QED BY <1>1, <1>3, WFMin
<1>5. PICK x \in T : X = 0 .. x
  OBVIOUS
<1>6. ASSUME NEW y \in T, y < x PROVE FALSE
  <2>1. 0 .. y \subseteq 0 .. x /\ x \in 0 .. x /\ x \notin 0 .. y
    BY <1>2, <1>6
  <2>2. 0 .. y # 0 .. x
    BY <2>1
  <2>3. <<0 .. y, 0 .. x>> \in R
    BY <1>2, <2>1, <2>2 DEF StrictSubsetOrdering
  <2> QED BY <1>4, <1>5, <2>3
<1> QED BY <1>2, <1>6
=============================================================================
