-------------------------- MODULE FabricLinkProofs ---------------------------
(***************************************************************************)
(* What holds of a flow between two endpoints for any window, any number   *)
(* of packets, any retry limit and buffer size, whatever the fabric        *)
(* reorders, corrupts, repeats or loses: every credit comes back once and  *)
(* not before its packet is settled, no packet waits beside a free credit, *)
(* the sender forgets no packet too early, and the receiver reports in     *)
(* order.                                                                  *)
(***************************************************************************)
EXTENDS FabricLink, ReorderBufferProofs, FiniteSetTheorems

-----------------------------------------------------------------------------
(* The inductive invariant.                                                *)

CreditEntry == [available : Nat, total : Nat, pending : Nat]
RetryEntry == [retries : Nat, timer : BOOLEAN]
Telling == SeqNum \X {"data", "lost"}

SenderTypes ==
    /\ nextSeq \in 0..SeqBound
    /\ sendQueue \in Seq(SeqNum)
    /\ credit \in CreditEntry
    /\ creditsReturned \in SUBSET SeqNum
    /\ gbnNextAck \in 0..SeqBound /\ gbnPending \in SUBSET SeqNum
    /\ Outstanding \subseteq SeqNum /\ store \in [Outstanding -> RetryEntry]
    /\ deferred \in [SeqNum -> Nat]
    /\ lost \in SUBSET SeqNum

ReceiverTypes ==
    /\ rb \in BufferType
    /\ bypassDelivered \in SUBSET SeqNum
    /\ strictExpected \in 0..SeqBound /\ strictLost \in SUBSET SeqNum
    /\ strictNak \in 0..SeqBound
    /\ told \in Seq(Telling)

\* The flow's type invariant.
LinkTypeOK ==
    /\ conf \in Configuration
    /\ SenderTypes
    /\ net \in [Frame -> Nat] /\ drops \in Nat
    /\ ReceiverTypes

\* The first number that was never on the wire.
SentUpTo == nextSeq - Len(sendQueue)

\* Packets leave in the order of their numbers: the queue is the numbers from
\* SentUpTo on, and only flows that need credits have one.
QueueInOrder ==
    /\ Len(sendQueue) <= nextSeq
    /\ \A i \in 1..Len(sendQueue) : sendQueue[i] = SentUpTo + i - 1
    /\ ~Local => sendQueue = <<>>

\* The credit book of a flow inside a node.
LedgerExact ==
    Local => /\ credit.total = Credits
             /\ Balanced(credit)
             /\ credit.pending = Cardinality(0..(SentUpTo - 1) \ creditsReturned)
             /\ sendQueue # <<>> => credit.available = 0

Settled == Received \cup lost
InFlight(type) == {s \in SeqNum : net[<<type, s>>] > 0}

\* Nothing is known anywhere of a number that was never on the wire.
OnlySent == Outstanding \cup Settled \cup InFlight("DATA") \subseteq 0..(SentUpTo - 1)

\* Whatever makes the sender return a credit or drop its copy is about a
\* settled packet.
Vouched ==
    /\ InFlight("ACK") \cup InFlight("CREDIT") \subseteq Settled
    /\ gbnPending \cup 0..(gbnNextAck - 1) \subseteq Settled
    /\ creditsReturned \subseteq Settled
    /\ InFlight("PERMANENT_LOSS") \subseteq lost

\* Whatever the receiver has behind it is settled.
ReceiverBacked ==
    /\ 0..(rb.expected - 1) \cup rb.held \subseteq Settled
    /\ DoneIsPast(rb)
    /\ rb.gaps \cup strictLost \subseteq lost
    /\ IsStrictGbnFlow => 0..(strictExpected - 1) \subseteq Settled
    /\ bypassDelivered \subseteq Received

\* What was told lies behind the receiver's counter.
TellsInOrder ==
    /\ ToldInOrder
    /\ ~Bypass => \A i \in DOMAIN told : told[i][1] < rb.expected
    /\ IsStrictGbnFlow => \A i \in DOMAIN told : told[i][1] < strictExpected

KeepsCopies == 0..(SentUpTo - 1) \subseteq Outstanding \cup Settled

IInv ==
    /\ LinkTypeOK /\ QueueInOrder /\ LedgerExact /\ OnlySent /\ Vouched /\ KeepsCopies
    /\ ReceiverBacked /\ TellsInOrder /\ StrictNeverAwaitsLost

-----------------------------------------------------------------------------
(* Runs of numbers, and frames.                                            *)

\* The loops that look for the end of a run find it.
LEMMA RunEnds ==
    ASSUME NEW n \in 0..SeqBound, NEW seqs \in SUBSET SeqNum
    PROVE  /\ RunFrom(n, seqs) \in n..SeqBound
           /\ \A s \in n..(RunFrom(n, seqs) - 1) : s \in seqs
           /\ RunFrom(n, seqs) \notin seqs
<1> DEFINE End(m) == (\A s \in n..(m - 1) : s \in seqs) /\ m \notin seqs
<1>1. \E m \in n..SeqBound : End(m)
  <2> DEFINE T == {m \in Nat : m >= n /\ m \notin seqs}
  <2>1. SeqBound \in T /\ SeqBound \in Nat
    BY ReorderAssumption DEF SeqNum
  <2>2. PICK m \in T : \A k \in T : m <= k
    <3>1. T \in SUBSET Nat /\ T # {}
      BY <2>1
    <3> QED
      BY <3>1, LeastElement
  <2> QED
    BY <2>1, <2>2
<1>2. RunFrom(n, seqs) = CHOOSE m \in n..SeqBound : End(m)
  BY DEF RunFrom
<1> HIDE DEF End
<1>3. RunFrom(n, seqs) \in n..SeqBound /\ End(RunFrom(n, seqs))
  BY <1>1, <1>2
<1> QED
  BY <1>3 DEF End

\* Putting frames on the wire adds those frames and no others, whether or not
\* a frame was taken from it before.
LEMMA WireStep ==
    ASSUME net \in [Frame -> Nat], NEW F, NEW n,
           \/ n = net
           \/ \E f \in Frame : net[f] > 0 /\ n = Take(net, f),
           net' = Put(n, F)
    PROVE  /\ net' \in [Frame -> Nat]
           /\ \A type \in FrameType :
                 InFlight(type)' \subseteq InFlight(type) \cup {s \in SeqNum : <<type, s>> \in F}
<1>1. n \in [Frame -> Nat] /\ \A f \in Frame : n[f] <= net[f]
  <2>1. CASE n = net
    BY <2>1
  <2>2. ASSUME NEW f \in Frame, net[f] > 0, n = Take(net, f)
        PROVE  n \in [Frame -> Nat] /\ \A g \in Frame : n[g] <= net[g]
    BY <2>2 DEF Take
  <2> QED
    BY <2>1, <2>2
<1>2. net' \in [Frame -> Nat] /\ \A f \in Frame : f \notin F => net'[f] <= net[f]
  BY <1>1 DEF Put
<1>3. \A type \in FrameType, s \in SeqNum : <<type, s>> \in Frame
  BY DEF Frame
<1> QED
  BY <1>2, <1>3 DEF InFlight

-----------------------------------------------------------------------------
(* The queue and the credit book.                                          *)

\* The numbers that were on the wire.
LEMMA SentIs ==
    ASSUME LinkTypeOK, QueueInOrder
    PROVE  SentUpTo \in 0..SeqBound /\ Sent = 0..(SentUpTo - 1)
<1>1. nextSeq \in Nat /\ Len(sendQueue) \in Nat /\ nextSeq <= SeqBound /\ SeqBound \in Nat
      /\ DOMAIN sendQueue = 1..Len(sendQueue) /\ Len(sendQueue) <= nextSeq
  BY ReorderAssumption DEF LinkTypeOK, SenderTypes, QueueInOrder
<1>2. ToSet(sendQueue) = SentUpTo..(nextSeq - 1)
  <2>1. ToSet(sendQueue) \subseteq SentUpTo..(nextSeq - 1)
    BY <1>1 DEF ToSet, QueueInOrder, SentUpTo
  <2>2. ASSUME NEW s \in SentUpTo..(nextSeq - 1) PROVE s \in ToSet(sendQueue)
    <3>1. s - SentUpTo + 1 \in 1..Len(sendQueue)
      BY <1>1 DEF SentUpTo
    <3>2. sendQueue[s - SentUpTo + 1] = s
      BY <1>1, <3>1 DEF QueueInOrder, SentUpTo
    <3> QED
      BY <1>1, <3>1, <3>2 DEF ToSet
  <2> QED
    BY <2>1, <2>2
<1> QED
  BY <1>1, <1>2 DEF Sent, SentUpTo

\* TrySendQueuedPackets sends a number of packets from the front of the queue
\* for which there is credit, and stops only for want of credit.
LEMMA DrainTakesFront ==
    ASSUME LinkTypeOK, QueueInOrder, NEW c \in CreditEntry
    PROVE  /\ Drained(c, sendQueue) \in 0..Len(sendQueue)
           /\ Local => /\ Drained(c, sendQueue) <= c.available
                       /\ Drained(c, sendQueue) < Len(sendQueue) =>
                             Drained(c, sendQueue) = c.available
           /\ ~Local => Drained(c, sendQueue) = Len(sendQueue)
           /\ DrainedSet(c, sendQueue) = SentUpTo..(SentUpTo + Drained(c, sendQueue) - 1)
<1>1. Len(sendQueue) \in Nat /\ c.available \in Nat /\ nextSeq \in Int
  BY DEF LinkTypeOK, SenderTypes, CreditEntry
<1>2. /\ Drained(c, sendQueue) \in 0..Len(sendQueue)
      /\ Local => /\ Drained(c, sendQueue) <= c.available
                  /\ Drained(c, sendQueue) < Len(sendQueue) =>
                        Drained(c, sendQueue) = c.available
      /\ ~Local => Drained(c, sendQueue) = Len(sendQueue)
  BY <1>1 DEF Drained, Admits, CappedAt
<1> DEFINE d == Drained(c, sendQueue)
<1>3. DrainedSet(c, sendQueue) = {sendQueue[i] : i \in 1..d}
  BY DEF DrainedSet
<1>4. d \in 0..Len(sendQueue)
  BY <1>2
<1> HIDE DEF d
<1>5. \A i \in 1..d : sendQueue[i] = SentUpTo + i - 1
  BY <1>1, <1>4 DEF QueueInOrder
<1>6. SentUpTo \in Int
  BY <1>1 DEF SentUpTo
<1>7. {sendQueue[i] : i \in 1..d} = SentUpTo..(SentUpTo + d - 1)
  <2>1. ASSUME NEW s \in SentUpTo..(SentUpTo + d - 1)
        PROVE  s \in {sendQueue[i] : i \in 1..d}
    <3>1. s - SentUpTo + 1 \in 1..d
      BY <1>1, <1>4, <1>6
    <3>2. sendQueue[s - SentUpTo + 1] = s
      BY <1>5, <1>6, <3>1
    <3> QED
      BY <3>1, <3>2
  <2>2. ASSUME NEW i \in 1..d PROVE sendQueue[i] \in SentUpTo..(SentUpTo + d - 1)
    BY <1>4, <1>5, <1>6
  <2> QED
    BY <2>1, <2>2
<1> QED
  BY <1>2, <1>3, <1>7 DEF d

\* Draining an empty queue sends nothing.
LEMMA NothingToDrain ==
    ASSUME NEW c \in CreditEntry
    PROVE  Drained(c, <<>>) = 0 /\ DrainedSet(c, <<>>) = {}
<1>1. Len(<<>>) = 0 /\ c.available \in Nat
  BY DEF CreditEntry
<1>2. Drained(c, <<>>) = 0
  BY <1>1 DEF Drained, Admits, CappedAt
<1> QED
  BY <1>2 DEF DrainedSet

\* A sequence without elements is the empty sequence.
LEMMA NoElements ==
    ASSUME NEW S, NEW q \in Seq(S), Len(q) = 0
    PROVE  q = <<>>
  OBVIOUS

\* The elements of a suffix, and of a concatenation.
LEMMA SubSeqElements ==
    ASSUME NEW S, NEW q \in Seq(S), NEW d \in 0..Len(q)
    PROVE  /\ SubSeq(q, d + 1, Len(q)) \in Seq(S)
           /\ Len(SubSeq(q, d + 1, Len(q))) = Len(q) - d
           /\ \A i \in 1..(Len(q) - d) : SubSeq(q, d + 1, Len(q))[i] = q[d + i]
<1>1. Len(q) \in Nat
  OBVIOUS
<1> QED
  BY <1>1

LEMMA ConcatElements ==
    ASSUME NEW S, NEW q \in Seq(S), NEW r \in Seq(S)
    PROVE  /\ q \o r \in Seq(S)
           /\ Len(q \o r) = Len(q) + Len(r)
           /\ \A i \in 1..Len(q) : (q \o r)[i] = q[i]
           /\ \A i \in 1..Len(r) : (q \o r)[Len(q) + i] = r[i]
<1>1. Len(q) \in Nat /\ Len(r) \in Nat
  OBVIOUS
<1> QED
  BY <1>1

\* q is the part of the queue behind its first d packets.
Behind(q, d) ==
    /\ q \in Seq(SeqNum)
    /\ Len(q) = Len(sendQueue) - d
    /\ \A i \in 1..Len(q) : q[i] = sendQueue[d + i]

LEMMA SubSeqBehind ==
    ASSUME sendQueue \in Seq(SeqNum), NEW d \in 0..Len(sendQueue)
    PROVE  Behind(SubSeq(sendQueue, d + 1, Len(sendQueue)), d)
<1>1. Len(sendQueue) \in Nat
  OBVIOUS
<1> QED
  BY <1>1 DEF Behind

\* The queue without its first d packets is still in order.
LEMMA QueueAfterDrain ==
    ASSUME LinkTypeOK, QueueInOrder, NEW d \in 0..Len(sendQueue),
           Behind(sendQueue', d), nextSeq' = nextSeq, conf' = conf
    PROVE  /\ QueueInOrder'
           /\ SentUpTo' = SentUpTo + d
<1>1. sendQueue \in Seq(SeqNum) /\ Len(sendQueue) \in Nat /\ nextSeq \in Nat
      /\ Len(sendQueue') = Len(sendQueue) - d
  BY DEF LinkTypeOK, SenderTypes, Behind
<1>2. SentUpTo' = SentUpTo + d /\ SentUpTo \in Int
  BY <1>1 DEF SentUpTo
<1>3. ASSUME NEW i \in 1..Len(sendQueue') PROVE sendQueue'[i] = SentUpTo' + i - 1
  <2>1. d + i \in 1..Len(sendQueue) /\ sendQueue'[i] = sendQueue[d + i]
    BY <1>1 DEF Behind
  <2>2. sendQueue[d + i] = SentUpTo + (d + i) - 1
    BY <2>1 DEF QueueInOrder
  <2> QED
    BY <1>1, <1>2, <2>1, <2>2
<1>4. ~Local' => sendQueue' = <<>>
  <2>1. CASE ~Local
    <3>1. Len(sendQueue) = 0
      BY <2>1 DEF QueueInOrder
    <3>2. sendQueue' \in Seq(SeqNum)
      BY DEF Behind
    <3>3. Len(sendQueue') = 0
      <4>1. d = 0
        BY <3>1
      <4> QED
        BY <1>1, <3>1, <4>1
    <3> QED
      BY <3>2, <3>3, NoElements, Zenon
  <2> QED
    BY <2>1 DEF Local
<1>5. Len(sendQueue') <= nextSeq'
  BY <1>1 DEF QueueInOrder
<1> QED
  BY <1>2, <1>3, <1>4, <1>5 DEF QueueInOrder

\* Sending d more packets puts d more numbers out.
LEMMA OutGrows ==
    ASSUME NEW u \in Nat, NEW d \in Nat, NEW back \in SUBSET (0..(u - 1))
    PROVE  Cardinality(0..(u + d - 1) \ back) = Cardinality(0..(u - 1) \ back) + d
<1> DEFINE old == 0..(u - 1) \ back
           new == u..(u + d - 1)
<1>1. IsFiniteSet(old)
  <2>1. IsFiniteSet(0..(u - 1))
    BY FS_Interval
  <2> QED
    BY <2>1, FS_Difference
<1>2. IsFiniteSet(new) /\ Cardinality(new) = d
  BY FS_Interval
<1>3. old \cap new = {} /\ old \cup new = 0..(u + d - 1) \ back
  OBVIOUS
<1>4. Cardinality(old \cup new) = Cardinality(old) + Cardinality(new) - Cardinality(old \cap new)
  BY <1>1, <1>2, FS_Union
<1>5. Cardinality(old \cap new) = 0 /\ Cardinality(old) \in Nat
  BY <1>1, <1>3, FS_EmptySet, FS_CardinalityType
<1> HIDE DEF old, new
<1>6. Cardinality(old \cup new) = Cardinality(old) + d
  BY <1>2, <1>4, <1>5
<1> QED
  BY <1>3, <1>6 DEF old, new

\* Returning the credits of the packets owed takes exactly those from the
\* ones that are out; the addition modulo 2^32 never wraps.
LEMMA RefundExact ==
    ASSUME LinkTypeOK, QueueInOrder, LedgerExact,
           NEW owed \in SUBSET (0..(SentUpTo - 1) \ creditsReturned),
           Local
    PROVE  /\ Refunded(owed) \in CreditEntry
           /\ Refunded(owed).total = Credits
           /\ Balanced(Refunded(owed))
           /\ Refunded(owed).pending =
                Cardinality(0..(SentUpTo - 1) \ (creditsReturned \cup owed))
<1> DEFINE out == 0..(SentUpTo - 1) \ creditsReturned
           n == Cardinality(owed)
<1>1. SentUpTo \in 0..SeqBound /\ SeqBound \in Nat /\ Credits \in Nat
      /\ 2 * (Credits + SeqBound) < Modulus /\ Modulus \in Nat
  BY SentIs, ReorderAssumption, LinkAssumption, ModulusAssumption
<1>2. IsFiniteSet(out) /\ IsFiniteSet(owed) /\ n \in Nat /\ n <= Cardinality(out)
      /\ Cardinality(out) \in Nat
  <2>1. IsFiniteSet(0..(SentUpTo - 1))
    BY <1>1, FS_Interval
  <2>2. IsFiniteSet(out)
    BY <2>1, FS_Difference
  <2> QED
    BY <2>2, FS_Subset, FS_CardinalityType
<1>3. Cardinality(out \ owed) = Cardinality(out) - n
  <2>1. out \cap owed = owed
    OBVIOUS
  <2> QED
    BY <1>2, <2>1, FS_Difference
<1>4. out \ owed = 0..(SentUpTo - 1) \ (creditsReturned \cup owed)
  OBVIOUS
<1>5. /\ credit \in CreditEntry /\ credit.total = Credits
      /\ credit.available + credit.pending = Credits
      /\ credit.pending = Cardinality(out)
  BY DEF LinkTypeOK, SenderTypes, LedgerExact, Balanced
<1> HIDE DEF out, n
<1>6. /\ credit.available \in Nat /\ credit.pending \in Nat
      /\ credit = [available |-> credit.available, total |-> credit.total,
                   pending |-> credit.pending]
  BY <1>5 DEF CreditEntry
<1>7. CASE owed = {}
  <2>1. Refunded(owed) = credit
    BY <1>7 DEF Refunded
  <2>2. creditsReturned \cup owed = creditsReturned
    BY <1>7
  <2> QED
    BY <1>5, <2>1, <2>2 DEF Balanced, out
<1>8. CASE owed # {}
  <2>1. credit.available + n \in 0..(Modulus - 1) /\ credit.available + n <= Credits
    BY <1>1, <1>2, <1>5, <1>6
  <2>2. (credit.available + n) % Modulus = credit.available + n
    BY <1>1, <2>1
  <2>3. Refunded(owed) = [available |-> credit.available + n, total |-> Credits,
                          pending |-> credit.pending - n]
    BY <1>1, <1>2, <1>5, <1>6, <1>8, <2>1, <2>2 DEF Refunded, Returned, CappedAt, n
  <2>4. credit.pending - n \in Nat /\ credit.pending - n = Cardinality(out \ owed)
    BY <1>2, <1>3, <1>5
  <2>5. Refunded(owed) \in CreditEntry
    BY <1>1, <1>2, <1>6, <2>3, <2>4 DEF CreditEntry
  <2>6. Balanced(Refunded(owed))
    BY <1>2, <1>5, <1>6, <2>3 DEF Balanced
  <2> QED
    BY <1>4, <2>3, <2>4, <2>5, <2>6
<1> QED
  BY <1>7, <1>8

\* On every flow a refund leaves an entry of the book.
LEMMA RefundedIsEntry ==
    ASSUME credit \in CreditEntry, NEW owed, IsFiniteSet(owed)
    PROVE  Refunded(owed) \in CreditEntry
<1> DEFINE n == Cardinality(owed)
<1>1. n \in Nat /\ credit.available \in Nat /\ credit.pending \in Nat /\ credit.total \in Nat
  BY FS_CardinalityType DEF CreditEntry
<1> HIDE DEF n
<1>2. (credit.available + n) % Modulus \in Nat
  BY <1>1, ModulusAssumption
<1>3. Returned(credit, n) \in CreditEntry
  BY <1>1, <1>2 DEF Returned, CappedAt, CreditEntry
<1> QED
  BY <1>3 DEF Refunded, n

\* A handler of the sender returns the credits owed and then drains the
\* queue, or leaves it alone when no packet waits beside a credit: the book
\* stays exact and no wake-up is lost.
LEMMA LedgerStep ==
    ASSUME LinkTypeOK, QueueInOrder, LedgerExact,
           creditsReturned \subseteq 0..(SentUpTo - 1),
           NEW owed \in SUBSET (0..(SentUpTo - 1) \ creditsReturned),
           NEW q, \/ q = sendQueue
                  \/ q = <<>> /\ (Local /\ sendQueue # <<>> => Refunded(owed).available = 0),
           NEW d, d = Drained(Refunded(owed), q),
           nextSeq' = nextSeq, conf' = conf,
           creditsReturned' = creditsReturned \cup owed,
           credit' = Spent(Refunded(owed), d),
           sendQueue' = SubSeq(sendQueue, d + 1, Len(sendQueue))
    PROVE  /\ d \in Nat
           /\ credit' \in CreditEntry
           /\ sendQueue' \in Seq(SeqNum)
           /\ QueueInOrder'
           /\ LedgerExact'
           /\ SentUpTo' = SentUpTo + d
           /\ DrainedSet(Refunded(owed), q) = SentUpTo..(SentUpTo' - 1)
<1> DEFINE c == Refunded(owed)
<1>1. SentUpTo \in 0..SeqBound /\ SentUpTo \in Nat /\ SeqBound \in Nat
  BY SentIs, ReorderAssumption
<1>2. c \in CreditEntry
  <2>1. IsFiniteSet(0..(SentUpTo - 1))
    BY <1>1, FS_Interval
  <2>2. IsFiniteSet(owed)
    BY <2>1, FS_Subset
  <2> QED
    BY <2>2, RefundedIsEntry DEF LinkTypeOK, SenderTypes
<1>3. sendQueue \in Seq(SeqNum) /\ Len(sendQueue) \in Nat
  BY DEF LinkTypeOK, SenderTypes
<1>4. /\ d \in 0..Len(sendQueue)
      /\ DrainedSet(c, q) = SentUpTo..(SentUpTo + d - 1)
      /\ Local => d <= c.available
      /\ Local /\ d < Len(sendQueue) => c.available = d
  <2>1. CASE q = sendQueue
    BY <1>2, <2>1, DrainTakesFront
  <2>2. CASE q = <<>> /\ (Local /\ sendQueue # <<>> => c.available = 0)
    <3>1. d = 0 /\ DrainedSet(c, q) = {}
      BY <1>2, <2>2, NothingToDrain
    <3>2. c.available \in Nat
      BY <1>2 DEF CreditEntry
    <3>3. d < Len(sendQueue) => sendQueue # <<>>
      BY <3>1
    <3>4. SentUpTo..(SentUpTo + d - 1) = {}
      BY <1>1, <3>1
    <3>5. d \in 0..Len(sendQueue) /\ (Local => d <= c.available)
      BY <1>3, <3>1, <3>2
    <3>6. Local /\ d < Len(sendQueue) => c.available = d
      BY <2>2, <3>1, <3>3
    <3> QED
      BY <3>1, <3>4, <3>5, <3>6
  <2> QED
    BY <2>1, <2>2
<1>5. Behind(sendQueue', d)
  BY <1>3, <1>4, SubSeqBehind
<1>6. /\ sendQueue' \in Seq(SeqNum)
      /\ Len(sendQueue') = Len(sendQueue) - d
      /\ QueueInOrder'
      /\ SentUpTo' = SentUpTo + d
  BY <1>4, <1>5, QueueAfterDrain DEF Behind
<1>7. credit' \in CreditEntry /\ LedgerExact'
  <2>1. CASE ~Local
    BY <1>2, <2>1 DEF Local, LedgerExact, Spent
  <2>2. CASE Local
    <3>1. /\ c.total = Credits
          /\ Balanced(c)
          /\ c.pending = Cardinality(0..(SentUpTo - 1) \ creditsReturned')
      BY <2>2, RefundExact
    <3>2. credit' = [available |-> c.available - d, total |-> c.total,
                     pending |-> c.pending + d]
      BY <2>2 DEF Spent
    <3>3. c.available \in Nat /\ c.pending \in Nat /\ c.total \in Nat /\ d \in Nat
      BY <1>2, <1>4 DEF CreditEntry
    <3>4. Cardinality(0..(SentUpTo + d - 1) \ creditsReturned') = c.pending + d
      <4>1. creditsReturned' \in SUBSET (0..(SentUpTo - 1))
        OBVIOUS
      <4>2. Cardinality(0..(SentUpTo + d - 1) \ creditsReturned')
              = Cardinality(0..(SentUpTo - 1) \ creditsReturned') + d
        BY <1>1, <3>3, <4>1, OutGrows
      <4> QED
        BY <3>1, <4>2
    <3>5. credit' \in CreditEntry
      BY <1>4, <2>2, <3>2, <3>3 DEF CreditEntry
    <3> HIDE DEF c
    <3>6. credit'.total = Credits /\ Balanced(credit') /\ credit'.pending = c.pending + d
          /\ credit'.available = c.available - d
      BY <3>1, <3>2, <3>3 DEF Balanced
    <3>7. sendQueue' # <<>> => credit'.available = 0
      <4>1. sendQueue' # <<>> => Len(sendQueue') # 0
        BY <1>6, NoElements
      <4>2. Len(sendQueue') # 0 => d < Len(sendQueue)
        BY <1>3, <1>4, <1>6
      <4> QED
        BY <1>4, <2>2, <3>3, <3>6, <4>1, <4>2
    <3>8. credit'.pending = Cardinality(0..(SentUpTo' - 1) \ creditsReturned')
      <4>1. SentUpTo' - 1 = SentUpTo + d - 1
        BY <1>1, <1>6, <3>3
      <4> QED
        BY <3>4, <3>6, <4>1, Zenon
    <3>9. LedgerExact'
      BY <3>6, <3>7, <3>8, Zenon DEF LedgerExact
    <3> QED
      BY <3>5, <3>9
  <2> QED
    BY <2>1, <2>2
<1>8. d \in Nat
  BY <1>4
<1>9. DrainedSet(c, q) = SentUpTo..(SentUpTo' - 1)
  BY <1>1, <1>4, <1>6, <1>8
<1> QED
  BY <1>6, <1>7, <1>8, <1>9, Zenon

-----------------------------------------------------------------------------
(* Steps of the sender.                                                    *)

\* Intervals of numbers, cut in two.
LEMMA Spans ==
    ASSUME NEW u \in 0..SeqBound, NEW v \in 0..SeqBound
    PROVE  /\ u..(v - 1) \subseteq SeqNum
           /\ u <= v => /\ 0..(u - 1) \subseteq 0..(v - 1)
                        /\ 0..(v - 1) = 0..(u - 1) \cup u..(v - 1)
  BY ReorderAssumption DEF SeqNum

\* What the sender does keeps the rest of the invariant if it only sends
\* numbers in order, drops its copy or counts a credit only for a settled
\* packet, and announces only what it has given up.
LEMMA SenderStep ==
    ASSUME IInv, conf' = conf, UNCHANGED recvVars,
           SentUpTo' \in 0..SeqBound, SentUpTo <= SentUpTo',
           lost \subseteq lost', lost' \subseteq lost \cup Outstanding,
           Outstanding' \subseteq Outstanding \cup SentUpTo..(SentUpTo' - 1),
           SentUpTo..(SentUpTo' - 1) \subseteq Outstanding',
           Outstanding \subseteq Outstanding' \cup Received \cup lost',
           InFlight("DATA")' \subseteq InFlight("DATA") \cup Outstanding \cup SentUpTo..(SentUpTo' - 1),
           InFlight("ACK")' \subseteq InFlight("ACK"),
           InFlight("CREDIT")' \subseteq InFlight("CREDIT"),
           InFlight("PERMANENT_LOSS")' \subseteq lost',
           gbnPending' \cup 0..(gbnNextAck' - 1) \subseteq Received \cup lost',
           creditsReturned' \subseteq Received \cup lost'
    PROVE  /\ OnlySent' /\ Vouched' /\ KeepsCopies'
           /\ ReceiverBacked' /\ TellsInOrder' /\ StrictNeverAwaitsLost'
<1>1. Received' = Received
  BY DEF recvVars, Received, ToldOf, Parked
<1>2. Settled \subseteq Settled' /\ Settled' = Received \cup lost'
  BY <1>1 DEF Settled
<1>3. SentUpTo \in 0..SeqBound
  BY SentIs DEF IInv
<1>4. 0..(SentUpTo - 1) \subseteq 0..(SentUpTo' - 1)
      /\ 0..(SentUpTo' - 1) = 0..(SentUpTo - 1) \cup SentUpTo..(SentUpTo' - 1)
  BY <1>3, Spans
<1>5. OnlySent'
  BY <1>2, <1>4 DEF IInv, OnlySent, Settled
<1>6. Vouched'
  BY <1>2 DEF IInv, Vouched
<1>7. KeepsCopies'
  BY <1>2, <1>4 DEF IInv, KeepsCopies
<1>8. ReceiverBacked'
  BY <1>1, <1>2 DEF IInv, ReceiverBacked, recvVars, DoneIsPast, IsStrictGbnFlow, Bypass,
                    LlrMode, Local
<1>9. TellsInOrder' /\ StrictNeverAwaitsLost'
  BY DEF IInv, TellsInOrder, ToldInOrder, StrictNeverAwaitsLost, recvVars, IsStrictGbnFlow,
         Bypass, LlrMode, Local
<1> QED
  BY <1>5, <1>6, <1>7, <1>8, <1>9

\* The retry store after fresh packets were stored.
LEMMA StoredType ==
    ASSUME NEW D \in SUBSET SeqNum, NEW st \in [D -> RetryEntry], NEW fresh \in SUBSET SeqNum
    PROVE  /\ DOMAIN Stored(st, fresh) = D \cup fresh
           /\ Stored(st, fresh) \in [D \cup fresh -> RetryEntry]
<1>1. [retries |-> 0, timer |-> TRUE] \in RetryEntry
  BY DEF RetryEntry
<1> QED
  BY <1>1 DEF Stored

\* The numbers a step sends for the first time.
LEMMA FreshInRange ==
    ASSUME LinkTypeOK, QueueInOrder, (nextSeq \in 0..SeqBound)', (sendQueue \in Seq(SeqNum))',
           QueueInOrder'
    PROVE  /\ SentUpTo \in 0..SeqBound /\ SentUpTo' \in 0..SeqBound
           /\ SentUpTo..(SentUpTo' - 1) \subseteq SeqNum
<1>1. SentUpTo \in 0..SeqBound
  BY SentIs
<1>2. SentUpTo' \in 0..SeqBound
  <2>1. nextSeq' \in 0..SeqBound /\ Len(sendQueue') \in Nat /\ Len(sendQueue') <= nextSeq'
    BY DEF QueueInOrder
  <2> QED
    BY <2>1, ReorderAssumption DEF SentUpTo
<1> QED
  BY <1>1, <1>2, Spans

\* A handler of the sender: the credits of the set owed come back, the queue
\* is drained if a packet may leave, the copies of settled packets go, and
\* some packets are given up.
LEMMA HandlerStep ==
    ASSUME IInv,
           NEW owed \in SUBSET (0..(SentUpTo - 1) \ creditsReturned),
           NEW q, \/ q = sendQueue
                  \/ q = <<>> /\ (Local /\ sendQueue # <<>> => Refunded(owed).available = 0),
           NEW d, d = Drained(Refunded(owed), q),
           NEW fresh, fresh = DrainedSet(Refunded(owed), q),
           NEW D \in SUBSET Outstanding, NEW st \in [D -> RetryEntry],
           NEW gone \in SUBSET Outstanding, NEW again \in SUBSET Outstanding,
           NEW n, \/ n = net
                  \/ \E f \in Frame : net[f] > 0 /\ n = Take(net, f),
           UNCHANGED <<conf, nextSeq, drops, recvVars>>,
           creditsReturned' = creditsReturned \cup owed,
           credit' = Spent(Refunded(owed), d),
           sendQueue' = SubSeq(sendQueue, d + 1, Len(sendQueue)),
           store' = Stored(st, fresh),
           lost' = lost \cup gone,
           deferred' \in [SeqNum -> Nat],
           net' = Put(n, Frames("PERMANENT_LOSS", gone) \cup Frames("DATA", again \cup fresh)),
           gbnNextAck' \in 0..SeqBound, gbnPending' \in SUBSET SeqNum,
           gbnPending' \cup 0..(gbnNextAck' - 1) \subseteq Settled,
           owed \subseteq Settled \cup gone,
           Outstanding \subseteq D \cup Settled \cup gone
    PROVE  IInv'
<1> DEFINE F == Frames("PERMANENT_LOSS", gone) \cup Frames("DATA", again \cup fresh)
<1>1. LinkTypeOK /\ QueueInOrder /\ LedgerExact
  BY DEF IInv
<1>2. creditsReturned \subseteq 0..(SentUpTo - 1)
  BY DEF IInv, Vouched, OnlySent
<1>3. /\ d \in Nat
      /\ credit' \in CreditEntry
      /\ sendQueue' \in Seq(SeqNum)
      /\ QueueInOrder'
      /\ LedgerExact'
      /\ SentUpTo' = SentUpTo + d
      /\ fresh = SentUpTo..(SentUpTo' - 1)
  BY <1>1, <1>2, LedgerStep
<1>4. /\ nextSeq' \in 0..SeqBound
      /\ Outstanding \subseteq SeqNum /\ lost \subseteq SeqNum
      /\ creditsReturned \subseteq SeqNum /\ drops' \in Nat
      /\ conf' \in Configuration
  BY <1>1 DEF LinkTypeOK, SenderTypes
<1>5. /\ SentUpTo \in 0..SeqBound /\ SentUpTo' \in 0..SeqBound
      /\ fresh \subseteq SeqNum /\ 0..(SentUpTo - 1) \subseteq SeqNum
  <2>1. /\ SentUpTo \in 0..SeqBound /\ SentUpTo' \in 0..SeqBound
        /\ SentUpTo..(SentUpTo' - 1) \subseteq SeqNum
    BY <1>1, <1>3, <1>4, FreshInRange
  <2>2. 0..(SentUpTo - 1) \subseteq SeqNum
    BY <2>1, ReorderAssumption DEF SeqNum
  <2> QED
    BY <1>3, <2>1, <2>2
<1>6. SentUpTo <= SentUpTo'
  BY <1>3, <1>5
<1>7. Outstanding' = D \cup fresh /\ store' \in [Outstanding' -> RetryEntry]
  <2>1. D \in SUBSET SeqNum
    BY <1>4
  <2> QED
    BY <1>5, <2>1, StoredType DEF Outstanding
<1>8. SenderTypes'
  BY <1>3, <1>4, <1>5, <1>7 DEF SenderTypes
<1>9. ReceiverTypes'
  BY <1>1 DEF LinkTypeOK, ReceiverTypes, recvVars
<1>10. /\ net' \in [Frame -> Nat]
       /\ \A type \in FrameType :
             InFlight(type)' \subseteq InFlight(type) \cup {t \in SeqNum : <<type, t>> \in F}
  BY <1>1, WireStep DEF LinkTypeOK
<1>11. \A t :
          /\ <<"ACK", t>> \notin F /\ <<"CREDIT", t>> \notin F
          /\ <<"PERMANENT_LOSS", t>> \in F => t \in gone
          /\ <<"DATA", t>> \in F => t \in again \cup fresh
  BY DEF Frames
<1> HIDE DEF F
<1>12. /\ InFlight("ACK")' \subseteq InFlight("ACK")
       /\ InFlight("CREDIT")' \subseteq InFlight("CREDIT")
       /\ InFlight("PERMANENT_LOSS")' \subseteq lost'
       /\ InFlight("DATA")' \subseteq InFlight("DATA") \cup Outstanding \cup SentUpTo..(SentUpTo' - 1)
  <2>1. {"ACK", "CREDIT", "PERMANENT_LOSS", "DATA"} \subseteq FrameType
    BY DEF FrameType
  <2>2. InFlight("PERMANENT_LOSS") \subseteq lost
    BY DEF IInv, Vouched
  <2> QED
    BY <1>3, <1>10, <1>11, <2>1, <2>2
<1>13. LinkTypeOK'
  BY <1>4, <1>8, <1>9, <1>10 DEF LinkTypeOK
<1>14. /\ Settled = Received \cup lost
       /\ creditsReturned \subseteq Settled
  BY DEF IInv, Vouched, Settled
<1>15. /\ OnlySent' /\ Vouched' /\ KeepsCopies'
       /\ ReceiverBacked' /\ TellsInOrder' /\ StrictNeverAwaitsLost'
  <2>1. conf' = conf /\ UNCHANGED recvVars
    OBVIOUS
  <2>2. lost \subseteq lost' /\ lost' \subseteq lost \cup Outstanding
    OBVIOUS
  <2>3. /\ Outstanding' \subseteq Outstanding \cup SentUpTo..(SentUpTo' - 1)
        /\ SentUpTo..(SentUpTo' - 1) \subseteq Outstanding'
        /\ Outstanding \subseteq Outstanding' \cup Received \cup lost'
    BY <1>3, <1>7, <1>14
  <2>4. gbnPending' \cup 0..(gbnNextAck' - 1) \subseteq Received \cup lost'
    BY <1>14
  <2>5. creditsReturned' \subseteq Received \cup lost'
    BY <1>14
  <2> QED
    BY <1>5, <1>6, <1>12, <2>1, <2>2, <2>3, <2>4, <2>5, SenderStep
<1> QED
  BY <1>3, <1>13, <1>15 DEF IInv

\* The credits an ACK, a CREDIT or a permanent loss owes are of packets that
\* are out and were not credited before.
LEMMA OwedIsOut ==
    ASSUME IInv
    PROVE  /\ \A s : AckOwed(s) \subseteq {s} /\ AckOwed(s) \subseteq 0..(SentUpTo - 1) \ creditsReturned
           /\ \A keys \in SUBSET Outstanding :
                 Owed(keys) \subseteq keys /\ Owed(keys) \subseteq 0..(SentUpTo - 1) \ creditsReturned
           /\ \A s \in Settled : CreditOwed(s) \subseteq 0..(SentUpTo - 1) \ creditsReturned
  BY DEF IInv, OnlySent, AckOwed, Owed, CreditOwed

\* Any part of the numbers that are out is finite, so its refund is an entry.
LEMMA RefundIsEntry ==
    ASSUME IInv, NEW owed \in SUBSET (0..(SentUpTo - 1) \ creditsReturned)
    PROVE  Refunded(owed) \in CreditEntry
<1>1. SentUpTo \in 0..SeqBound
  BY SentIs DEF IInv
<1>2. IsFiniteSet(0..(SentUpTo - 1))
  BY <1>1, ReorderAssumption, FS_Interval
<1>3. IsFiniteSet(owed)
  BY <1>2, FS_Subset
<1> QED
  BY <1>3, RefundedIsEntry DEF IInv, LinkTypeOK, SenderTypes

LEMMA WithoutType ==
    ASSUME IInv, NEW seqs
    PROVE  /\ Without(seqs) \in [Outstanding \ seqs -> RetryEntry]
           /\ Outstanding \ seqs \in SUBSET Outstanding
  BY DEF IInv, LinkTypeOK, SenderTypes, Without

LEMMA ProcessAckPacketStep ==
    ASSUME IInv, NEW s \in SeqNum, ProcessAckPacket(s)
    PROVE  IInv'
<1> DEFINE owed  == AckOwed(s)
           c     == Refunded(owed)
           q     == IF WakesSender(credit, c) THEN sendQueue ELSE <<>>
           d     == Drained(c, q)
           fresh == DrainedSet(c, q)
           n     == Take(net, <<"ACK", s>>)
<1>1. /\ net[<<"ACK", s>>] > 0
      /\ net' = Put(n, Frames("DATA", fresh))
      /\ creditsReturned' = creditsReturned \cup owed
      /\ credit' = Spent(c, d)
      /\ sendQueue' = SubSeq(sendQueue, d + 1, Len(sendQueue))
      /\ store' = Stored(Without({s}), fresh)
      /\ UNCHANGED <<nextSeq, gbnNextAck, gbnPending, deferred, lost, drops, conf, recvVars>>
  BY DEF ProcessAckPacket, Exchange
<1>2. s \in Settled
  BY <1>1 DEF IInv, Vouched, InFlight
<1>3. /\ owed \in SUBSET (0..(SentUpTo - 1) \ creditsReturned)
      /\ owed \subseteq Settled
  BY <1>2, OwedIsOut
<1>4. c \in CreditEntry
  BY <1>3, RefundIsEntry
<1>5. \/ q = sendQueue
      \/ q = <<>> /\ (Local /\ sendQueue # <<>> => c.available = 0)
  <2>1. Local /\ sendQueue # <<>> => credit.available = 0
    BY DEF IInv, LedgerExact
  <2>2. c.available \in Nat
    BY <1>4 DEF CreditEntry
  <2> HIDE DEF c
  <2> QED
    BY <2>1, <2>2 DEF WakesSender
<1>6. /\ gbnNextAck \in 0..SeqBound /\ gbnPending \in SUBSET SeqNum
      /\ gbnPending \cup 0..(gbnNextAck - 1) \subseteq Settled
      /\ deferred \in [SeqNum -> Nat]
  BY DEF IInv, LinkTypeOK, SenderTypes, Vouched
<1>7. /\ Without({s}) \in [Outstanding \ {s} -> RetryEntry]
      /\ Outstanding \ {s} \in SUBSET Outstanding
      /\ Outstanding \subseteq (Outstanding \ {s}) \cup Settled \cup {}
  BY <1>2, WithoutType
<1>8. Frames("DATA", fresh) = Frames("PERMANENT_LOSS", {}) \cup Frames("DATA", {} \cup fresh)
  BY DEF Frames
<1>9. \E f \in Frame : net[f] > 0 /\ n = Take(net, f)
  BY <1>1 DEF Frame, FrameType
<1>10. lost' = lost \cup {} /\ {} \in SUBSET Outstanding
  BY <1>1
<1> HIDE DEF owed, c, q, d, fresh, n
<1> QED
  BY <1>1, <1>3, <1>5, <1>6, <1>7, <1>8, <1>9, <1>10, HandlerStep DEF c, d, fresh

LEMMA ProcessCreditPacketStep ==
    ASSUME IInv, NEW s \in SeqNum, ProcessCreditPacket(s)
    PROVE  IInv'
<1> DEFINE owed    == CreditOwed(s)
           c       == Refunded(owed)
           d       == Drained(c, sendQueue)
           fresh   == DrainedSet(c, sendQueue)
           n       == Take(net, <<"CREDIT", s>>)
           pending == gbnPending \cup {s}
           run     == RunFrom(gbnNextAck, pending)
           purged  == IF LlrMode = "SACK" THEN {s}
                      ELSE IF run > gbnNextAck THEN 0..(run - 1) ELSE {}
<1>1. /\ net[<<"CREDIT", s>>] > 0
      /\ net' = Put(n, Frames("DATA", fresh))
      /\ creditsReturned' = creditsReturned \cup owed
      /\ credit' = Spent(c, d)
      /\ sendQueue' = SubSeq(sendQueue, d + 1, Len(sendQueue))
      /\ store' = Stored(Without(purged), fresh)
      /\ gbnNextAck' = IF LlrMode = "SACK" THEN gbnNextAck ELSE run
      /\ gbnPending' = IF LlrMode = "SACK" THEN gbnPending
                       ELSE pending \ (gbnNextAck..(run - 1))
      /\ UNCHANGED <<nextSeq, deferred, lost, drops, conf, recvVars>>
  BY DEF ProcessCreditPacket, Exchange, TrySendQueuedPackets, AfterDrain
<1>2. s \in Settled
  BY <1>1 DEF IInv, Vouched, InFlight
<1>3. /\ owed \in SUBSET (0..(SentUpTo - 1) \ creditsReturned)
      /\ owed \subseteq Settled
  BY <1>2, OwedIsOut DEF CreditOwed
<1>4. /\ gbnNextAck \in 0..SeqBound /\ gbnPending \in SUBSET SeqNum
      /\ gbnPending \cup 0..(gbnNextAck - 1) \subseteq Settled
      /\ deferred \in [SeqNum -> Nat]
  BY DEF IInv, LinkTypeOK, SenderTypes, Vouched
<1>5. pending \in SUBSET SeqNum /\ pending \subseteq Settled
  BY <1>2, <1>4
<1> HIDE DEF pending
<1>6. /\ run \in gbnNextAck..SeqBound
      /\ gbnNextAck..(run - 1) \subseteq pending
  BY <1>4, <1>5, RunEnds
<1>7. run \in 0..SeqBound /\ 0..(run - 1) \subseteq Settled
  <2>1. run \in 0..SeqBound /\ gbnNextAck <= run
    BY <1>4, <1>6, ReorderAssumption
  <2>2. 0..(run - 1) = 0..(gbnNextAck - 1) \cup gbnNextAck..(run - 1)
    BY <1>4, <2>1, Spans
  <2> QED
    BY <1>4, <1>5, <1>6, <2>1, <2>2
<1> HIDE DEF run
<1>8. /\ gbnNextAck' \in 0..SeqBound /\ gbnPending' \in SUBSET SeqNum
      /\ gbnPending' \cup 0..(gbnNextAck' - 1) \subseteq Settled
  BY <1>1, <1>4, <1>5, <1>7
<1>9. purged \subseteq Settled
  BY <1>2, <1>7
<1>10. /\ Without(purged) \in [Outstanding \ purged -> RetryEntry]
       /\ Outstanding \ purged \in SUBSET Outstanding
       /\ Outstanding \subseteq (Outstanding \ purged) \cup Settled \cup {}
  BY <1>9, WithoutType
<1>11. Frames("DATA", fresh) = Frames("PERMANENT_LOSS", {}) \cup Frames("DATA", {} \cup fresh)
  BY DEF Frames
<1>12. \E f \in Frame : net[f] > 0 /\ n = Take(net, f)
  BY <1>1 DEF Frame, FrameType
<1>13. lost' = lost \cup {} /\ {} \in SUBSET Outstanding
  BY <1>1
<1>14. deferred' \in [SeqNum -> Nat] /\ UNCHANGED <<conf, nextSeq, drops, recvVars>>
  BY <1>1, <1>4
<1> HIDE DEF owed, c, d, fresh, n, purged
<1> QED
  BY <1>1, <1>3, <1>8, <1>10, <1>11, <1>12, <1>13, <1>14, HandlerStep DEF c, d, fresh

LEMMA RetransmitStep ==
    ASSUME IInv, NEW s \in SeqNum,
           NEW taken, \/ taken = net
                      \/ \E f \in Frame : net[f] > 0 /\ taken = Take(net, f),
           Retransmit(s, taken)
    PROVE  IInv'
<1> DEFINE keys  == Requested(s)
           gone  == GivenUp(keys)
           again == keys \ gone
           owed  == Owed(gone)
           c     == Refunded(owed)
           q     == IF gone = {} THEN <<>> ELSE sendQueue
           d     == Drained(c, q)
           fresh == DrainedSet(c, q)
           prompt(cut) == {t \in again : t < cut}
           after(cut) == [t \in Outstanding \ gone |->
                            IF t \in again
                              THEN [retries |-> store[t].retries + 1, timer |-> t < cut]
                              ELSE store[t]]
<1>1. PICK cut \in 0..SeqBound :
        /\ creditsReturned' = creditsReturned \cup owed
        /\ lost' = lost \cup gone
        /\ credit' = Spent(c, d)
        /\ sendQueue' = SubSeq(sendQueue, d + 1, Len(sendQueue))
        /\ store' = Stored(after(cut), fresh)
        /\ deferred' = [t \in SeqNum |->
                          IF t \in again \ prompt(cut) THEN deferred[t] + 1 ELSE deferred[t]]
        /\ net' = Put(taken, Frames("PERMANENT_LOSS", gone)
                               \cup Frames("DATA", prompt(cut) \cup fresh))
        /\ UNCHANGED <<nextSeq, gbnNextAck, gbnPending, drops, conf, recvVars>>
  BY DEF Retransmit
<1>2. /\ Outstanding \subseteq SeqNum /\ store \in [Outstanding -> RetryEntry]
      /\ deferred \in [SeqNum -> Nat]
      /\ gbnNextAck \in 0..SeqBound /\ gbnPending \in SUBSET SeqNum
      /\ gbnPending \cup 0..(gbnNextAck - 1) \subseteq Settled
  BY DEF IInv, LinkTypeOK, SenderTypes, Vouched
<1>3. keys \in SUBSET Outstanding /\ gone \in SUBSET Outstanding /\ again \in SUBSET Outstanding
  BY DEF Requested, GivenUp
<1>4. owed \in SUBSET (0..(SentUpTo - 1) \ creditsReturned) /\ owed \subseteq gone
  BY <1>3, OwedIsOut
<1> HIDE DEF keys, gone
<1>5. prompt(cut) \in SUBSET Outstanding
  BY <1>3
<1>6. after(cut) \in [Outstanding \ gone -> RetryEntry]
  <2>1. \A t \in Outstanding : store[t] \in RetryEntry /\ store[t].retries \in Nat
    BY <1>2 DEF RetryEntry
  <2>2. \A t \in Outstanding :
           [retries |-> store[t].retries + 1, timer |-> t < cut] \in RetryEntry
    BY <2>1 DEF RetryEntry
  <2> QED
    BY <2>1, <2>2
<1>7. deferred' \in [SeqNum -> Nat]
  BY <1>1, <1>2
<1>8. \/ q = sendQueue
      \/ q = <<>> /\ (Local /\ sendQueue # <<>> => c.available = 0)
  <2>1. gone = {} => owed = {}
    BY <1>4
  <2>2. gone = {} => c = credit
    BY <2>1 DEF Refunded
  <2>3. Local /\ sendQueue # <<>> => credit.available = 0
    BY DEF IInv, LedgerExact
  <2> HIDE DEF c
  <2> QED
    BY <2>2, <2>3
<1>9. /\ Outstanding \ gone \in SUBSET Outstanding
      /\ Outstanding \subseteq (Outstanding \ gone) \cup Settled \cup gone
      /\ owed \subseteq Settled \cup gone
  BY <1>4
<1>10. /\ gbnNextAck' \in 0..SeqBound /\ gbnPending' \in SUBSET SeqNum
       /\ gbnPending' \cup 0..(gbnNextAck' - 1) \subseteq Settled
       /\ UNCHANGED <<conf, nextSeq, drops, recvVars>>
  BY <1>1, <1>2
<1> HIDE DEF owed, c, q, d, fresh, again, prompt, after
<1> QED
  BY <1>1, <1>3, <1>4, <1>5, <1>6, <1>7, <1>8, <1>9, <1>10, HandlerStep DEF c, d, fresh

\* A retransmission whose source reload completed.
LEMMA SendRetransmissionStep ==
    ASSUME IInv, NEW s \in SeqNum, SendRetransmission(s)
    PROVE  IInv'
<1>1. /\ UNCHANGED <<nextSeq, sendQueue, credit, creditsReturned, gbnNextAck, gbnPending,
                     lost, drops, conf, recvVars>>
      /\ deferred' \in [SeqNum -> Nat]
  BY DEF SendRetransmission, IInv, LinkTypeOK, SenderTypes
<1>2. Outstanding' = Outstanding /\ (store \in [Outstanding -> RetryEntry])'
  <2>1. store \in [Outstanding -> RetryEntry]
    BY DEF IInv, LinkTypeOK, SenderTypes
  <2>2. CASE s \in Outstanding
    <3>1. store' = [store EXCEPT ![s].timer = TRUE]
      BY <2>2 DEF SendRetransmission
    <3>2. store' = [t \in Outstanding |-> IF t = s THEN [store[s] EXCEPT !.timer = TRUE] ELSE store[t]]
      BY <2>1, <2>2, <3>1
    <3>3. store[s] \in RetryEntry /\ [store[s] EXCEPT !.timer = TRUE] \in RetryEntry
      BY <2>1, <2>2 DEF RetryEntry
    <3> QED
      BY <2>1, <3>2, <3>3 DEF Outstanding
  <2>3. CASE s \notin Outstanding
    BY <2>1, <2>3 DEF SendRetransmission, Outstanding
  <2> QED
    BY <2>2, <2>3
<1>3. /\ net' \in [Frame -> Nat]
      /\ \A type \in FrameType :
            InFlight(type)' \subseteq InFlight(type)
               \cup {t \in SeqNum : type = "DATA" /\ t = s /\ s \in Outstanding}
  <2>1. net \in [Frame -> Nat]
    BY DEF IInv, LinkTypeOK
  <2>2. CASE s \in Outstanding
    <3>1. net' = Put(net, {<<"DATA", s>>})
      BY <2>2 DEF SendRetransmission
    <3>2. /\ net' \in [Frame -> Nat]
          /\ \A type \in FrameType :
                InFlight(type)' \subseteq InFlight(type)
                   \cup {t \in SeqNum : <<type, t>> \in {<<"DATA", s>>}}
      BY <2>1, <3>1, WireStep
    <3> QED
      BY <2>2, <3>2
  <2>3. CASE s \notin Outstanding
    BY <2>1, <2>3 DEF SendRetransmission, InFlight
  <2> QED
    BY <2>2, <2>3
<1>4. LinkTypeOK'
  BY <1>1, <1>2, <1>3 DEF IInv, LinkTypeOK, SenderTypes, ReceiverTypes, recvVars
<1>5. QueueInOrder' /\ LedgerExact' /\ SentUpTo' = SentUpTo
  BY <1>1 DEF IInv, QueueInOrder, LedgerExact, SentUpTo, Local
<1>6. SentUpTo \in 0..SeqBound /\ SentUpTo..(SentUpTo' - 1) = {}
  BY <1>5, SentIs DEF IInv
<1>7. /\ InFlight("ACK")' \subseteq InFlight("ACK")
      /\ InFlight("CREDIT")' \subseteq InFlight("CREDIT")
      /\ InFlight("PERMANENT_LOSS")' \subseteq InFlight("PERMANENT_LOSS")
      /\ InFlight("DATA")' \subseteq InFlight("DATA") \cup Outstanding
  BY <1>3 DEF FrameType
<1>8. /\ InFlight("PERMANENT_LOSS") \subseteq lost
      /\ gbnPending \cup 0..(gbnNextAck - 1) \subseteq Received \cup lost
      /\ creditsReturned \subseteq Received \cup lost
  BY DEF IInv, Vouched, Settled
<1>9. /\ OnlySent' /\ Vouched' /\ KeepsCopies'
      /\ ReceiverBacked' /\ TellsInOrder' /\ StrictNeverAwaitsLost'
  BY <1>1, <1>2, <1>5, <1>6, <1>7, <1>8, SenderStep
<1> QED
  BY <1>4, <1>5, <1>9 DEF IInv

\* n packets are submitted of which the first `now' pass the gate and the
\* others join the queue: since packets wait only while there is no credit,
\* none overtakes another.
Submitted(n, now, fresh) ==
    /\ now = Admits(credit, n)
    /\ fresh = nextSeq..(nextSeq + now - 1)
    /\ nextSeq + n <= conf.load
    /\ nextSeq' = nextSeq + n
    /\ credit' = Spent(credit, now)
    /\ sendQueue' \in Seq(SeqNum)
    /\ Len(sendQueue') = Len(sendQueue) + n - now
    /\ \A i \in 1..Len(sendQueue) : sendQueue'[i] = sendQueue[i]
    /\ \A i \in 1..(n - now) : sendQueue'[Len(sendQueue) + i] = nextSeq + now + i - 1
    /\ store' = Stored(store, fresh)
    /\ net' = Put(net, Frames("DATA", fresh))
    /\ UNCHANGED <<creditsReturned, gbnNextAck, gbnPending, deferred, lost, drops, conf, recvVars>>

LEMMA SubmitStep ==
    ASSUME IInv, NEW n \in 1..SeqBound, NEW now, NEW fresh, Submitted(n, now, fresh)
    PROVE  IInv'
<1>0. /\ fresh = nextSeq..(nextSeq + now - 1)
      /\ nextSeq + n <= conf.load /\ nextSeq' = nextSeq + n
      /\ sendQueue' \in Seq(SeqNum) /\ Len(sendQueue') = Len(sendQueue) + n - now
      /\ UNCHANGED <<creditsReturned, gbnNextAck, gbnPending, deferred, lost, drops, conf, recvVars>>
  BY DEF Submitted
<1>1. /\ LinkTypeOK /\ QueueInOrder /\ SenderTypes /\ LedgerExact
      /\ SentUpTo \in 0..SeqBound /\ SeqBound \in Nat
  BY SentIs, ReorderAssumption DEF IInv, LinkTypeOK
<1>2. /\ nextSeq \in Nat /\ Len(sendQueue) \in Nat /\ n \in Nat /\ conf.load \in 0..SeqBound
      /\ credit.available \in Nat /\ credit \in CreditEntry
      /\ Len(sendQueue) <= nextSeq
  BY <1>1 DEF LinkTypeOK, SenderTypes, Configuration, CreditEntry, QueueInOrder
<1>3. /\ now \in 0..n
      /\ Local => now <= credit.available /\ (now < n => credit.available = now)
      /\ ~Local => now = n
  BY <1>2 DEF Submitted, Admits, CappedAt
<1>4. now > 0 => Len(sendQueue) = 0
  <2>1. Local /\ sendQueue # <<>> => credit.available = 0
    BY <1>1 DEF LedgerExact
  <2>2. ~Local => sendQueue = <<>>
    BY <1>1 DEF QueueInOrder
  <2>3. sendQueue = <<>> => Len(sendQueue) = 0
    OBVIOUS
  <2> QED
    BY <1>2, <1>3, <2>1, <2>2, <2>3
<1>5. SentUpTo' = SentUpTo + now
  BY <1>0, <1>2, <1>3 DEF SentUpTo
<1>6. fresh = SentUpTo..(SentUpTo' - 1)
  <2>1. CASE now = 0
    BY <1>0, <1>1, <1>2, <1>5, <2>1
  <2>2. CASE now > 0
    BY <1>0, <1>2, <1>3, <1>4, <1>5, <2>2 DEF SentUpTo
  <2> QED
    BY <1>3, <2>1, <2>2
<1>7. nextSeq' \in 0..SeqBound
  BY <1>0, <1>1, <1>2
<1>8. QueueInOrder'
  <2>1. Len(sendQueue') <= nextSeq'
    BY <1>0, <1>2, <1>3
  <2>2. ASSUME NEW i \in 1..Len(sendQueue') PROVE sendQueue'[i] = SentUpTo' + i - 1
    <3>1. CASE i <= Len(sendQueue)
      <4>1. now = 0 /\ i \in 1..Len(sendQueue)
        BY <1>2, <1>3, <1>4, <3>1
      <4>2. sendQueue'[i] = SentUpTo + i - 1
        BY <1>1, <4>1 DEF QueueInOrder, Submitted
      <4> QED
        BY <1>1, <1>5, <4>1, <4>2
    <3>2. CASE i > Len(sendQueue)
      <4>1. i - Len(sendQueue) \in 1..(n - now) /\ Len(sendQueue) + (i - Len(sendQueue)) = i
        BY <1>0, <1>2, <1>3, <3>2
      <4>2. sendQueue'[i] = nextSeq + now + (i - Len(sendQueue)) - 1
        BY <4>1 DEF Submitted
      <4>3. SentUpTo' = nextSeq - Len(sendQueue) + now
        BY <1>5 DEF SentUpTo
      <4> QED
        BY <1>2, <1>3, <4>2, <4>3
    <3> QED
      BY <1>0, <1>2, <1>3, <3>1, <3>2
  <2>3. ~Local' => sendQueue' = <<>>
    <3>1. CASE ~Local
      <4>1. Len(sendQueue) = 0
        BY <1>1, <3>1 DEF QueueInOrder
      <4>2. Len(sendQueue') = 0
        BY <1>0, <1>2, <1>3, <3>1, <4>1
      <4> QED
        BY <1>0, <4>2, NoElements, Zenon
    <3> QED
      BY <1>0, <3>1 DEF Local
  <2> QED
    BY <2>1, <2>2, <2>3 DEF QueueInOrder
<1>9. credit' \in CreditEntry /\ LedgerExact'
  <2>1. CASE ~Local
    BY <1>0, <1>2, <2>1 DEF Submitted, Local, LedgerExact, Spent
  <2>2. CASE Local
    <3>1. credit' = [available |-> credit.available - now, total |-> credit.total,
                     pending |-> credit.pending + now]
      BY <2>2 DEF Submitted, Spent
    <3>2. /\ credit.total = Credits /\ Balanced(credit)
          /\ credit.pending = Cardinality(0..(SentUpTo - 1) \ creditsReturned)
          /\ credit.pending \in Nat /\ credit.total \in Nat
      BY <1>1, <1>2, <2>2 DEF LedgerExact, CreditEntry
    <3>3. creditsReturned \in SUBSET (0..(SentUpTo - 1))
      BY DEF IInv, Vouched, OnlySent
    <3>4. Cardinality(0..(SentUpTo + now - 1) \ creditsReturned) = credit.pending + now
      <4>1. SentUpTo \in Nat /\ now \in Nat
        BY <1>1, <1>3
      <4>2. Cardinality(0..(SentUpTo + now - 1) \ creditsReturned)
              = Cardinality(0..(SentUpTo - 1) \ creditsReturned) + now
        BY <3>3, <4>1, OutGrows
      <4> QED
        BY <3>2, <4>2
    <3>5. credit' \in CreditEntry
      <4>1. credit.available - now \in Nat /\ credit.pending + now \in Nat
        BY <1>2, <1>3, <2>2, <3>2
      <4> QED
        BY <3>1, <3>2, <4>1 DEF CreditEntry
    <3>6. /\ credit'.total = Credits /\ Balanced(credit')
          /\ credit'.pending = credit.pending + now
          /\ credit'.available = credit.available - now
      <4>1. credit.available + credit.pending = Credits
        BY <3>2 DEF Balanced
      <4>2. (credit.available - now) + (credit.pending + now) = Credits
        BY <1>2, <1>3, <3>2, <4>1
      <4> QED
        BY <3>1, <3>2, <4>2 DEF Balanced
    <3>7. sendQueue' # <<>> => credit'.available = 0
      <4>1. sendQueue' # <<>> => Len(sendQueue') # 0
        BY <1>0, NoElements
      <4>2. sendQueue # <<>> => credit.available = 0
        BY <1>1, <2>2 DEF LedgerExact
      <4>3. Len(sendQueue') # 0 => now < n \/ sendQueue # <<>>
        <5>1. sendQueue = <<>> => Len(sendQueue) = 0
          OBVIOUS
        <5> QED
          BY <1>0, <1>2, <1>3, <5>1
      <4> QED
        BY <1>2, <1>3, <2>2, <3>6, <4>1, <4>2, <4>3
    <3>8. credit'.pending = Cardinality(0..(SentUpTo' - 1) \ creditsReturned')
      <4>1. SentUpTo' - 1 = SentUpTo + now - 1 /\ creditsReturned' = creditsReturned
        BY <1>0, <1>1, <1>3, <1>5
      <4> QED
        BY <3>4, <3>6, <4>1, Zenon
    <3>9. LedgerExact'
      BY <3>6, <3>7, <3>8, Zenon DEF LedgerExact
    <3> QED
      BY <3>5, <3>9
  <2> QED
    BY <2>1, <2>2
<1>10. /\ SentUpTo' \in 0..SeqBound /\ SentUpTo <= SentUpTo'
       /\ fresh \subseteq SeqNum
  <2>1. SentUpTo' \in 0..SeqBound /\ SentUpTo..(SentUpTo' - 1) \subseteq SeqNum
    BY <1>0, <1>1, <1>7, <1>8, FreshInRange
  <2>2. SentUpTo <= SentUpTo'
    BY <1>1, <1>3, <1>5
  <2>3. fresh \subseteq SeqNum
    BY <1>6, <2>1
  <2> QED
    BY <2>1, <2>2, <2>3
<1>11. Outstanding' = Outstanding \cup fresh /\ store' \in [Outstanding' -> RetryEntry]
  <2>1. Outstanding \in SUBSET SeqNum /\ store \in [Outstanding -> RetryEntry]
    BY <1>1 DEF SenderTypes
  <2>2. /\ DOMAIN Stored(store, fresh) = Outstanding \cup fresh
        /\ Stored(store, fresh) \in [Outstanding \cup fresh -> RetryEntry]
    BY <1>10, <2>1, StoredType
  <2>3. store' = Stored(store, fresh)
    BY DEF Submitted
  <2> QED
    BY <2>2, <2>3 DEF Outstanding
<1>12. /\ net' \in [Frame -> Nat]
       /\ \A type \in FrameType :
             InFlight(type)' \subseteq InFlight(type)
                \cup {t \in SeqNum : <<type, t>> \in Frames("DATA", fresh)}
  <2>1. net' = Put(net, Frames("DATA", fresh)) /\ net \in [Frame -> Nat]
    BY <1>1 DEF Submitted, LinkTypeOK
  <2> QED
    BY <2>1, WireStep
<1>13. LinkTypeOK'
  <2>1. SenderTypes'
    BY <1>0, <1>1, <1>7, <1>9, <1>10, <1>11 DEF SenderTypes
  <2>2. ReceiverTypes'
    BY <1>0, <1>1 DEF LinkTypeOK, ReceiverTypes, recvVars
  <2> QED
    BY <1>0, <1>1, <1>12, <2>1, <2>2 DEF LinkTypeOK
<1>14. /\ InFlight("ACK")' \subseteq InFlight("ACK")
       /\ InFlight("CREDIT")' \subseteq InFlight("CREDIT")
       /\ InFlight("PERMANENT_LOSS")' \subseteq InFlight("PERMANENT_LOSS")
       /\ InFlight("DATA")' \subseteq InFlight("DATA") \cup Outstanding \cup SentUpTo..(SentUpTo' - 1)
  BY <1>6, <1>12 DEF FrameType, Frames
<1>15. /\ InFlight("PERMANENT_LOSS") \subseteq lost
       /\ gbnPending \cup 0..(gbnNextAck - 1) \subseteq Received \cup lost
       /\ creditsReturned \subseteq Received \cup lost
  BY DEF IInv, Vouched, Settled
<1>16. /\ OnlySent' /\ Vouched' /\ KeepsCopies'
       /\ ReceiverBacked' /\ TellsInOrder' /\ StrictNeverAwaitsLost'
  BY <1>0, <1>6, <1>10, <1>11, <1>14, <1>15, SenderStep
<1> QED
  BY <1>8, <1>9, <1>13, <1>16 DEF IInv

\* One packet goes through the queue, which has the same effect.
LEMMA SendDataStep ==
    ASSUME IInv, SendData
    PROVE  IInv'
<1> DEFINE q == Append(sendQueue, nextSeq)
           d == Drained(credit, q)
<1>1. /\ nextSeq < conf.load /\ nextSeq' = nextSeq + 1
      /\ credit' = Spent(credit, d)
      /\ sendQueue' = SubSeq(q, d + 1, Len(q))
      /\ store' = Stored(store, DrainedSet(credit, q))
      /\ net' = Put(net, Frames("DATA", DrainedSet(credit, q)))
      /\ UNCHANGED <<creditsReturned, gbnNextAck, gbnPending, deferred, lost, drops, conf, recvVars>>
  BY DEF SendData, TrySendQueuedPackets, AfterDrain
<1>2. /\ nextSeq \in Nat /\ sendQueue \in Seq(SeqNum) /\ Len(sendQueue) \in Nat
      /\ credit.available \in Nat /\ conf.load \in 0..SeqBound /\ SeqBound \in Nat
  BY ReorderAssumption DEF IInv, LinkTypeOK, SenderTypes, CreditEntry, Configuration
<1>3. nextSeq \in SeqNum
  BY <1>1, <1>2 DEF SeqNum
<1>4. /\ q \in Seq(SeqNum) /\ Len(q) = Len(sendQueue) + 1
      /\ \A i \in 1..Len(sendQueue) : q[i] = sendQueue[i]
      /\ q[Len(sendQueue) + 1] = nextSeq
  BY <1>2, <1>3
<1> HIDE DEF q
<1>5. d = Admits(credit, 1) /\ d \in 0..1 /\ (Len(sendQueue) # 0 => d = 0)
  <2>1. CASE Len(sendQueue) = 0
    BY <1>2, <1>4, <2>1 DEF Drained, Admits, CappedAt
  <2>2. CASE Len(sendQueue) # 0
    <3>1. sendQueue # <<>>
      BY <2>2
    <3>2. Local /\ credit.available = 0
      BY <3>1 DEF IInv, LedgerExact, QueueInOrder
    <3> QED
      BY <1>2, <1>4, <2>2, <3>2 DEF Drained, Admits, CappedAt
  <2> QED
    BY <2>1, <2>2
<1>6. DrainedSet(credit, q) = nextSeq..(nextSeq + d - 1)
  <2>1. DrainedSet(credit, q) = {q[i] : i \in 1..d}
    BY DEF DrainedSet
  <2> HIDE DEF d
  <2>2. CASE d = 0
    BY <1>2, <2>1, <2>2
  <2>3. CASE d = 1
    <3>1. Len(sendQueue) = 0 /\ q[1] = nextSeq
      BY <1>4, <1>5, <2>3
    <3>2. {q[i] : i \in 1..1} = {nextSeq}
      BY <3>1
    <3>3. nextSeq..(nextSeq + 1 - 1) = {nextSeq}
      BY <1>2
    <3> QED
      BY <2>1, <2>3, <3>2, <3>3
  <2> QED
    BY <1>5, <2>2, <2>3
<1> HIDE DEF d
<1>7. d \in 0..Len(q)
  BY <1>2, <1>4, <1>5
<1>8. /\ sendQueue' \in Seq(SeqNum)
      /\ Len(sendQueue') = Len(q) - d
      /\ \A i \in 1..(Len(q) - d) : sendQueue'[i] = q[d + i]
  BY <1>1, <1>2, <1>4, <1>7, SubSeqElements
<1>9. Len(sendQueue') = Len(sendQueue) + 1 - d
  BY <1>2, <1>4, <1>5, <1>8
<1>10. ASSUME NEW i \in 1..Len(sendQueue) PROVE sendQueue'[i] = sendQueue[i]
  <2>1. d = 0 /\ i \in 1..(Len(q) - d)
    BY <1>2, <1>4, <1>5
  <2>2. sendQueue'[i] = q[i]
    BY <1>8, <2>1
  <2> QED
    BY <1>4, <2>2
<1>11. ASSUME NEW i \in 1..(1 - d) PROVE sendQueue'[Len(sendQueue) + i] = nextSeq + d + i - 1
  <2>1. d = 0 /\ i = 1 /\ Len(sendQueue) + 1 \in 1..(Len(q) - d)
    BY <1>2, <1>4, <1>5
  <2>2. sendQueue'[Len(sendQueue) + 1] = q[Len(sendQueue) + 1]
    BY <1>2, <1>8, <2>1
  <2> QED
    BY <1>2, <1>4, <2>1, <2>2
<1>12. 1 \in 1..SeqBound /\ nextSeq + 1 <= conf.load
  BY <1>1, <1>2
<1>13. Submitted(1, d, DrainedSet(credit, q))
  BY <1>1, <1>5, <1>6, <1>8, <1>9, <1>10, <1>11, <1>12 DEF Submitted, d
<1> QED
  BY <1>12, <1>13, SubmitStep

LEMMA SendFragmentsStep ==
    ASSUME IInv, NEW n \in 2..SeqBound, SendFragments(n)
    PROVE  IInv'
<1> DEFINE now == Admits(credit, n)
           fresh == nextSeq..(nextSeq + now - 1)
           rest == [i \in 1..(n - now) |-> nextSeq + now + i - 1]
<1>1. /\ nextSeq + n <= conf.load
      /\ nextSeq' = nextSeq + n
      /\ credit' = Spent(credit, now)
      /\ sendQueue' = sendQueue \o rest
      /\ store' = Stored(store, fresh)
      /\ net' = Put(net, Frames("DATA", fresh))
      /\ UNCHANGED <<creditsReturned, gbnNextAck, gbnPending, deferred, lost, drops, conf, recvVars>>
  BY DEF SendFragments
<1>2. /\ nextSeq \in Nat /\ sendQueue \in Seq(SeqNum) /\ Len(sendQueue) \in Nat /\ n \in Nat
      /\ credit.available \in Nat /\ conf.load \in 0..SeqBound /\ SeqBound \in Nat
  BY ReorderAssumption DEF IInv, LinkTypeOK, SenderTypes, CreditEntry, Configuration
<1>3. now \in 0..n
  BY <1>2 DEF Admits, CappedAt
<1> HIDE DEF now
<1>4. \A i \in 1..(n - now) : nextSeq + now + i - 1 \in SeqNum
  BY <1>1, <1>2, <1>3 DEF SeqNum
<1>5. rest \in Seq(SeqNum) /\ Len(rest) = n - now
  BY <1>2, <1>3, <1>4
<1>6. \A i \in 1..(n - now) : rest[i] = nextSeq + now + i - 1
  OBVIOUS
<1> HIDE DEF rest
<1>7. /\ sendQueue' \in Seq(SeqNum)
      /\ Len(sendQueue') = Len(sendQueue) + Len(rest)
      /\ \A i \in 1..Len(sendQueue) : sendQueue'[i] = sendQueue[i]
      /\ \A i \in 1..Len(rest) : sendQueue'[Len(sendQueue) + i] = rest[i]
  <2>0. rest \in Seq(SeqNum) /\ sendQueue \in Seq(SeqNum)
    BY <1>2, <1>5
  <2>1. /\ sendQueue \o rest \in Seq(SeqNum)
        /\ Len(sendQueue \o rest) = Len(sendQueue) + Len(rest)
        /\ \A i \in 1..Len(sendQueue) : (sendQueue \o rest)[i] = sendQueue[i]
        /\ \A i \in 1..Len(rest) : (sendQueue \o rest)[Len(sendQueue) + i] = rest[i]
    BY <2>0, ConcatElements
  <2> QED
    BY <1>1, <2>1, Zenon
<1>8. /\ Len(sendQueue') = Len(sendQueue) + n - now
      /\ \A i \in 1..(n - now) : sendQueue'[Len(sendQueue) + i] = nextSeq + now + i - 1
  BY <1>2, <1>3, <1>5, <1>6, <1>7
<1>9. n \in 1..SeqBound
  BY <1>2
<1>10. Submitted(n, now, fresh)
  BY <1>1, <1>7, <1>8 DEF Submitted, now
<1> QED
  BY <1>9, <1>10, SubmitStep

-----------------------------------------------------------------------------
(* Steps of the receiver and of the fabric.                                *)

\* What the receiver does keeps the rest of the invariant if it only
\* acknowledges and credits settled packets and takes no number that was
\* never on the wire.
LEMMA ReceiverStep ==
    ASSUME IInv, UNCHANGED <<conf, sendVars>>, drops' \in Nat,
           NEW f \in Frame, NEW F, Exchange(f, F),
           \A t : /\ <<"DATA", t>> \notin F /\ <<"PERMANENT_LOSS", t>> \notin F
                  /\ <<"ACK", t>> \in F \/ <<"CREDIT", t>> \in F => t \in Received' \cup lost,
           Received \subseteq Received', Received' \subseteq 0..(SentUpTo - 1),
           ReceiverTypes', ReceiverBacked', TellsInOrder', StrictNeverAwaitsLost'
    PROVE  IInv'
<1>1. lost' = lost /\ Outstanding' = Outstanding /\ SentUpTo' = SentUpTo
  BY DEF sendVars, Outstanding, SentUpTo
<1>2. Settled \subseteq Settled' /\ Settled' = Received' \cup lost
  BY <1>1 DEF Settled
<1>3. /\ net' \in [Frame -> Nat]
      /\ \A type \in FrameType :
            InFlight(type)' \subseteq InFlight(type) \cup {t \in SeqNum : <<type, t>> \in F}
  <2>1. net \in [Frame -> Nat] /\ net[f] > 0 /\ net' = Put(Take(net, f), F)
    BY DEF IInv, LinkTypeOK, Exchange
  <2> QED
    BY <2>1, WireStep
<1>4. /\ InFlight("DATA")' \subseteq InFlight("DATA")
      /\ InFlight("PERMANENT_LOSS")' \subseteq InFlight("PERMANENT_LOSS")
      /\ InFlight("ACK")' \subseteq InFlight("ACK") \cup Settled'
      /\ InFlight("CREDIT")' \subseteq InFlight("CREDIT") \cup Settled'
  <2>1. {"ACK", "CREDIT", "PERMANENT_LOSS", "DATA"} \subseteq FrameType
    BY DEF FrameType
  <2> QED
    BY <1>2, <1>3, <2>1
<1>5. LinkTypeOK'
  BY <1>1, <1>3 DEF IInv, LinkTypeOK, SenderTypes, sendVars
<1>6. QueueInOrder' /\ LedgerExact'
  BY <1>1 DEF IInv, QueueInOrder, LedgerExact, sendVars, Local
<1>7. OnlySent'
  BY <1>1, <1>2, <1>4 DEF IInv, OnlySent, Settled
<1>8. Vouched'
  BY <1>1, <1>2, <1>4 DEF IInv, Vouched, sendVars
<1>9. KeepsCopies'
  BY <1>1, <1>2 DEF IInv, KeepsCopies
<1> QED
  BY <1>5, <1>6, <1>7, <1>8, <1>9 DEF IInv

\* What the reorder buffer reports: the numbers from the counter on, up to
\* where the drain loop stops.
LEMMA ReportElements ==
    ASSUME NEW b \in BufferType
    PROVE  /\ Report(b) \in Seq(Telling)
           /\ Len(Report(b)) = StopsAt(b) - b.expected
           /\ \A i \in 1..(StopsAt(b) - b.expected) :
                 Report(b)[i] = <<b.expected + i - 1,
                                  IF b.expected + i - 1 \in Skips(b) THEN "lost" ELSE "data">>
<1> DEFINE n == StopsAt(b) - b.expected
<1>1. /\ StopsAt(b) \in b.expected .. SeqBound /\ b.expected \in 0..SeqBound /\ SeqBound \in Nat
      /\ n \in Nat
  <2>1. StopsAt(b) \in b.expected .. SeqBound
    BY StopsAtFirst
  <2>2. b.expected \in 0..SeqBound /\ SeqBound \in Nat
    BY ReorderAssumption DEF BufferType
  <2> QED
    BY <2>1, <2>2
<1>2. Cardinality(Passed(b)) = n
  <2>1. b.expected \in Int /\ StopsAt(b) - 1 \in Int
    BY <1>1
  <2>2. Cardinality(b.expected .. (StopsAt(b) - 1))
          = IF b.expected > StopsAt(b) - 1 THEN 0 ELSE StopsAt(b) - 1 - b.expected + 1
    BY <2>1, FS_Interval
  <2> QED
    BY <1>1, <2>2 DEF Passed
<1>3. Report(b) = [i \in 1..n |-> <<b.expected + i - 1,
                                    IF b.expected + i - 1 \in Skips(b) THEN "lost" ELSE "data">>]
  BY <1>2 DEF Report
<1>4. \A i \in 1..n : b.expected + i - 1 \in SeqNum
  BY <1>1 DEF SeqNum
<1>5. \A i \in 1..n : <<b.expected + i - 1,
                        IF b.expected + i - 1 \in Skips(b) THEN "lost" ELSE "data">> \in Telling
  BY <1>4 DEF Telling
<1> HIDE DEF n
<1>6. Report(b) \in Seq(Telling) /\ Len(Report(b)) = n
  BY <1>1, <1>3, <1>5
<1> QED
  BY <1>3, <1>6 DEF n

\* What the application has been told of.
ToldData == {s \in SeqNum : \E i \in DOMAIN told : told[i][1] = s /\ told[i][2] = "data"}

LEMMA ReceivedIs ==
    ASSUME LinkTypeOK
    PROVE  Received = ToldData \cup Parked(rb)
  BY DEF LinkTypeOK, ReceiverTypes, BufferType, Received, ToldOf, ToldData, Parked

\* Telling more keeps what was told.
LEMMA ToldGrows ==
    ASSUME told \in Seq(Telling), NEW r \in Seq(Telling), told' = told \o r
    PROVE  /\ told' \in Seq(Telling)
           /\ Len(told') = Len(told) + Len(r)
           /\ \A i \in 1..Len(told) : told'[i] = told[i]
           /\ \A i \in 1..Len(r) : told'[Len(told) + i] = r[i]
           /\ \A i \in DOMAIN told' : i \in DOMAIN told
                                      \/ \E k \in 1..Len(r) : i = Len(told) + k
<1>1. Len(told) \in Nat /\ Len(r) \in Nat
  OBVIOUS
<1>2. /\ told' \in Seq(Telling)
      /\ Len(told') = Len(told) + Len(r)
      /\ \A i \in 1..Len(told) : told'[i] = told[i]
      /\ \A i \in 1..Len(r) : told'[Len(told) + i] = r[i]
  BY ConcatElements
<1>3. ASSUME NEW i \in DOMAIN told', i \notin DOMAIN told
      PROVE  \E k \in 1..Len(r) : i = Len(told) + k
  <2>1. DOMAIN told' = 1..(Len(told) + Len(r)) /\ DOMAIN told = 1..Len(told)
    BY <1>2
  <2>2. i - Len(told) \in 1..Len(r) /\ i = Len(told) + (i - Len(told))
    BY <1>1, <1>3, <2>1
  <2> QED
    BY <2>2
<1> QED
  BY <1>2, <1>3

\* A drain of the reorder buffer b, which is the receiver's buffer with the
\* packets x inserted or a number given up marked: the receiver keeps what it
\* had, gains at most x, delivers only what it has, and reports in order.
LEMMA DrainStep ==
    ASSUME IInv, ~IsStrictGbnFlow,
           NEW b \in BufferType, NEW x \in SUBSET SeqNum,
           b.expected = rb.expected, b.done = rb.done,
           rb.held \subseteq b.held, b.held \subseteq rb.held \cup x,
           b.gaps \subseteq lost,
           rb' = DeliverReady(b), told' = told \o Report(b),
           UNCHANGED <<conf, sendVars, bypassDelivered, strictExpected, strictLost, strictNak>>
    PROVE  /\ ReceiverTypes' /\ ReceiverBacked' /\ TellsInOrder' /\ StrictNeverAwaitsLost'
           /\ Received \subseteq Received' /\ Received' \subseteq Received \cup x
           /\ Delivers(b) \subseteq Received'
           /\ DeliverReady(b).held \subseteq Received' \cup lost
<1> DEFINE stop == StopsAt(b)
           r == Report(b)
<1>1. /\ stop \in b.expected .. SeqBound
      /\ \A m \in b.expected .. (stop - 1) : m \in Parked(b) \cup b.gaps
  BY StopsAtFirst
<1>2. rb' \in BufferType /\ rb'.expected = stop /\ rb'.gaps \subseteq b.gaps
  BY DrainedBuffer DEF DeliverReady
<1>3. b.expected \in 0..SeqBound /\ SeqBound \in Nat /\ stop \in Nat /\ b.expected <= stop
  BY <1>1, ReorderAssumption DEF BufferType
<1>4. /\ told \in Seq(Telling) /\ Len(told) \in Nat /\ DOMAIN told = 1..Len(told)
      /\ rb \in BufferType
  BY DEF IInv, LinkTypeOK, ReceiverTypes
<1>5. /\ r \in Seq(Telling) /\ Len(r) = stop - b.expected
      /\ \A i \in 1..Len(r) :
            r[i] = <<b.expected + i - 1, IF b.expected + i - 1 \in Skips(b) THEN "lost" ELSE "data">>
  <2>1. /\ r \in Seq(Telling) /\ Len(r) = stop - b.expected
        /\ \A i \in 1..(stop - b.expected) :
              r[i] = <<b.expected + i - 1, IF b.expected + i - 1 \in Skips(b) THEN "lost" ELSE "data">>
    BY ReportElements
  <2> QED
    BY <2>1
<1>6. Len(r) \in Nat
  BY <1>3, <1>5
<1>7. Passed(b) = b.expected .. (stop - 1)
  BY DEF Passed
<1> HIDE DEF stop, r
<1>8. /\ told' \in Seq(Telling)
      /\ Len(told') = Len(told) + Len(r)
      /\ \A i \in 1..Len(told) : told'[i] = told[i]
      /\ \A i \in 1..Len(r) : told'[Len(told) + i] = r[i]
      /\ \A i \in DOMAIN told' : i \in DOMAIN told \/ \E k \in 1..Len(r) : i = Len(told) + k
  <2>1. told' = told \o r
    BY DEF r
  <2> QED
    BY <1>4, <1>5, <2>1, ToldGrows
<1>9. DOMAIN told' = 1..(Len(told) + Len(r)) /\ DOMAIN told \subseteq DOMAIN told'
  BY <1>4, <1>6, <1>8
<1>10. ReceiverTypes'
  BY <1>2, <1>8 DEF IInv, LinkTypeOK, ReceiverTypes
<1>11. LinkTypeOK
  BY DEF IInv
<1>12. Received = ToldData \cup Parked(rb) /\ Received' = ToldData' \cup Parked(rb')
  <2>1. Received' = ToldData' \cup Parked(rb')
    BY <1>2, <1>10 DEF ReceiverTypes, BufferType, Received, ToldOf, ToldData, Parked
  <2> QED
    BY <1>11, <2>1, ReceivedIs
<1>13. ToldData \subseteq ToldData'
  BY <1>4, <1>8, <1>9 DEF ToldData
<1>14. Delivers(b) \subseteq ToldData' /\ Delivers(b) \subseteq Parked(b)
  <2>1. ASSUME NEW s \in Delivers(b) PROVE s \in ToldData'
    <3>1. s \in b.expected .. (stop - 1) /\ s \notin Skips(b)
      BY <1>7 DEF Delivers, Skips
    <3>2. s - b.expected + 1 \in 1..Len(r) /\ b.expected + (s - b.expected + 1) - 1 = s
      BY <1>3, <1>5, <3>1
    <3>3. r[s - b.expected + 1] = <<s, "data">>
      BY <1>5, <3>1, <3>2
    <3>4. told'[Len(told) + (s - b.expected + 1)] = <<s, "data">>
      BY <1>8, <3>2, <3>3
    <3>5. Len(told) + (s - b.expected + 1) \in DOMAIN told'
      BY <1>4, <1>6, <1>9, <3>2
    <3>6. s \in SeqNum
      BY <1>1, <1>3, <3>1 DEF SeqNum
    <3> QED
      BY <3>4, <3>5, <3>6 DEF ToldData
  <2> QED
    BY <1>1, <1>7, <2>1 DEF Delivers, stop
<1>15. ToldData' \subseteq ToldData \cup Delivers(b)
  <2>1. ASSUME NEW s \in ToldData' PROVE s \in ToldData \cup Delivers(b)
    <3>1. PICK i \in DOMAIN told' : told'[i][1] = s /\ told'[i][2] = "data"
      BY <2>1 DEF ToldData
    <3>2. CASE i \in DOMAIN told
      <4>1. told[i][1] = s /\ told[i][2] = "data"
        BY <1>4, <1>8, <3>1, <3>2
      <4>2. s \in SeqNum
        BY <2>1 DEF ToldData
      <4> QED
        BY <3>2, <4>1, <4>2 DEF ToldData
    <3>3. CASE \E k \in 1..Len(r) : i = Len(told) + k
      <4>1. PICK k \in 1..Len(r) : i = Len(told) + k
        BY <3>3
      <4>2. told'[i] = r[k]
        BY <1>8, <4>1
      <4>3. s = b.expected + k - 1 /\ s \notin Skips(b)
        BY <1>5, <3>1, <4>2
      <4>4. s \in Passed(b)
        BY <1>3, <1>5, <1>7, <4>3
      <4> QED
        BY <4>3, <4>4 DEF Delivers, Skips
    <3> QED
      BY <1>8, <3>2, <3>3
  <2> QED
    BY <2>1
<1>16. /\ Parked(b) \subseteq Delivers(b) \cup Parked(rb') /\ Parked(rb') \subseteq Parked(b)
       /\ Parked(rb) \subseteq Parked(b) /\ Parked(b) \subseteq Parked(rb) \cup x
  <2>1. Parked(b) \subseteq Delivers(b) \cup Parked(rb') /\ Parked(rb') \subseteq Parked(b)
    BY DEF DeliverReady, Parked
  <2> QED
    BY <2>1 DEF Parked
<1>17. Received \subseteq Received' /\ Received' \subseteq Received \cup x
       /\ Delivers(b) \subseteq Received' /\ Parked(b) \subseteq Received'
  BY <1>12, <1>13, <1>14, <1>15, <1>16
<1>18. DoneIsPast(b)
  BY DEF IInv, ReceiverBacked, DoneIsPast
<1>19. DoneIsPast(rb')
  BY <1>18, DrainKeepsSafe
<1>20. 0..(stop - 1) \subseteq Received' \cup lost
  <2>1. 0..(b.expected - 1) \subseteq Received \cup lost
    BY DEF IInv, ReceiverBacked, Settled
  <2>2. b.expected .. (stop - 1) \subseteq Received' \cup lost
    BY <1>1, <1>17 DEF stop
  <2>3. 0..(stop - 1) = 0..(b.expected - 1) \cup b.expected .. (stop - 1)
    BY <1>3
  <2> QED
    BY <1>17, <2>1, <2>2, <2>3
<1>21. rb'.held \subseteq Received' \cup lost
  <2>1. rb'.held \subseteq Parked(rb') \cup rb'.done
    BY DEF Parked
  <2>2. \A s \in rb'.done : s \in 0..(stop - 1)
    BY <1>2, <1>3, <1>19 DEF DoneIsPast, BufferType, SeqNum
  <2> QED
    BY <1>12, <1>20, <2>1, <2>2
<1>22. lost' = lost /\ IsStrictGbnFlow' = IsStrictGbnFlow /\ Bypass' = Bypass
  BY DEF sendVars, IsStrictGbnFlow, Bypass, LlrMode, Local
<1>23. ReceiverBacked'
  <2>1. Settled' = Received' \cup lost
    BY <1>22 DEF Settled
  <2>2. bypassDelivered' \subseteq Received' /\ strictLost' \subseteq lost
    BY <1>17 DEF IInv, ReceiverBacked
  <2> QED
    BY <1>2, <1>19, <1>20, <1>21, <1>22, <2>1, <2>2 DEF ReceiverBacked
<1>24. TellsInOrder'
  <2>1. CASE Bypass
    BY <1>22, <2>1 DEF TellsInOrder, ToldInOrder
  <2>2. CASE ~Bypass
    <3>1. \A i \in DOMAIN told : told[i][1] < b.expected /\ told[i][1] \in Nat
      <4>1. \A i \in DOMAIN told : told[i] \in Telling
        BY <1>4
      <4> QED
        BY <2>2, <4>1 DEF IInv, TellsInOrder, Telling, SeqNum
    <3>2. \A i \in DOMAIN told, j \in DOMAIN told : i < j => told[i][1] < told[j][1]
      BY <2>2 DEF IInv, TellsInOrder, ToldInOrder
    <3>3. \A i \in DOMAIN told : told'[i] = told[i]
      BY <1>4, <1>8
    <3>4. \A k \in 1..Len(r) : told'[Len(told) + k][1] = b.expected + k - 1
      BY <1>5, <1>8
    <3>5. ASSUME NEW i \in DOMAIN told' PROVE told'[i][1] < stop
      <4>1. CASE i \in DOMAIN told
        BY <1>3, <3>1, <3>3, <4>1
      <4>2. ASSUME NEW k \in 1..Len(r), i = Len(told) + k PROVE told'[i][1] < stop
        BY <1>3, <1>5, <3>4, <4>2
      <4> QED
        BY <1>8, <4>1, <4>2
    <3>6. ASSUME NEW i \in DOMAIN told', NEW j \in DOMAIN told', i < j
          PROVE  told'[i][1] < told'[j][1]
      <4>1. CASE i \in DOMAIN told /\ j \in DOMAIN told
        BY <3>2, <3>3, <3>6, <4>1
      <4>2. ASSUME i \in DOMAIN told, NEW k \in 1..Len(r), j = Len(told) + k
            PROVE  told'[i][1] < told'[j][1]
        BY <1>3, <3>1, <3>3, <3>4, <4>2
      <4>3. ASSUME NEW m \in 1..Len(r), NEW k \in 1..Len(r), i = Len(told) + m, j = Len(told) + k
            PROVE  told'[i][1] < told'[j][1]
        BY <1>3, <1>4, <3>4, <3>6, <4>3
      <4>4. ASSUME NEW m \in 1..Len(r), i = Len(told) + m, j \in DOMAIN told
            PROVE  FALSE
        BY <1>4, <3>6, <4>4
      <4> QED
        BY <1>8, <4>1, <4>2, <4>3, <4>4
    <3> QED
      BY <1>2, <1>22, <3>5, <3>6 DEF TellsInOrder, ToldInOrder
  <2> QED
    BY <2>1, <2>2
<1>25. StrictNeverAwaitsLost'
  BY DEF IInv, StrictNeverAwaitsLost
<1> QED
  BY <1>10, <1>17, <1>21, <1>23, <1>24, <1>25

\* What OnPacketDelivered answers.
LEMMA ReceiptFrames ==
    ASSUME NEW seqs, NEW t
    PROVE  /\ <<"DATA", t>> \notin Receipts(seqs) /\ <<"PERMANENT_LOSS", t>> \notin Receipts(seqs)
           /\ <<"ACK", t>> \in Receipts(seqs) \/ <<"CREDIT", t>> \in Receipts(seqs) => t \in seqs
  BY DEF Receipts, Frames

\* A data frame on the wire was sent.
LEMMA DataWasSent ==
    ASSUME IInv, NEW s \in SeqNum, NEW F, Exchange(<<"DATA", s>>, F)
    PROVE  s \in 0..(SentUpTo - 1) /\ <<"DATA", s>> \in Frame
  BY DEF IInv, OnlySent, InFlight, Exchange, Frame, FrameType

LEMMA ReceiveReorderedStep ==
    ASSUME IInv, NEW s \in SeqNum, ReceiveReordered(s)
    PROVE  IInv'
<1> DEFINE b == Inserted(rb, s)
           F == Receipts(Delivers(b)) \cup (IF ReAck(s) THEN {<<"ACK", s>>} ELSE {})
           x == {s}
<1>1. /\ ~Bypass /\ Exchange(<<"DATA", s>>, F)
      /\ rb' = DeliverReady(b) /\ told' = told \o Report(b)
      /\ UNCHANGED <<sendVars, drops, conf, bypassDelivered, strictExpected, strictLost, strictNak>>
  BY DEF ReceiveReordered
<1>2. rb \in BufferType /\ ~IsStrictGbnFlow /\ drops' \in Nat
  BY <1>1 DEF IInv, LinkTypeOK, ReceiverTypes, IsStrictGbnFlow
<1>3. /\ b \in BufferType
      /\ b.expected = rb.expected /\ b.done = rb.done
      /\ rb.held \subseteq b.held /\ b.held \subseteq rb.held \cup x
      /\ b.gaps \subseteq lost
  BY <1>2 DEF Inserted, BufferType, IInv, ReceiverBacked
<1>4. /\ ReceiverTypes' /\ ReceiverBacked' /\ TellsInOrder' /\ StrictNeverAwaitsLost'
      /\ Received \subseteq Received' /\ Received' \subseteq Received \cup x
      /\ Delivers(b) \subseteq Received'
  <2>1. x \in SUBSET SeqNum
    OBVIOUS
  <2> HIDE DEF b, x
  <2> QED
    BY <1>1, <1>2, <1>3, <2>1, DrainStep
<1>5. Received' \subseteq 0..(SentUpTo - 1)
  BY <1>1, <1>4, DataWasSent DEF IInv, OnlySent, Settled
<1>6. ReAck(s) => s \in Received' \cup lost
  <2>1. IsDuplicate(rb, s) => s \in Settled
    <3>1. s < rb.expected => s \in 0..(rb.expected - 1)
      BY <1>2 DEF BufferType, SeqNum
    <3> QED
      BY <3>1 DEF IsDuplicate, IInv, ReceiverBacked
  <2> QED
    BY <1>4, <2>1 DEF ReAck, Settled
<1> HIDE DEF b
<1>7. \A t : /\ <<"DATA", t>> \notin F /\ <<"PERMANENT_LOSS", t>> \notin F
             /\ <<"ACK", t>> \in F \/ <<"CREDIT", t>> \in F => t \in Received' \cup lost
  BY <1>4, <1>6, ReceiptFrames
<1>8. <<"DATA", s>> \in Frame
  BY <1>1, DataWasSent
<1> HIDE DEF F
<1> QED
  BY <1>1, <1>2, <1>4, <1>5, <1>7, <1>8, ReceiverStep

LEMMA NoticeReorderedStep ==
    ASSUME IInv, NEW s \in SeqNum, NoticeReordered(s)
    PROVE  IInv'
<1> DEFINE b == GapMarked(rb, s)
           F == Receipts(Delivers(b))
           x == {}
<1>1. /\ ~IsStrictGbnFlow /\ Exchange(<<"PERMANENT_LOSS", s>>, F)
      /\ rb' = DeliverReady(b) /\ told' = told \o Report(b)
      /\ UNCHANGED <<sendVars, drops, conf, bypassDelivered, strictExpected, strictLost, strictNak>>
  BY DEF NoticeReordered
<1>2. rb \in BufferType /\ drops' \in Nat /\ <<"PERMANENT_LOSS", s>> \in Frame
  BY <1>1 DEF IInv, LinkTypeOK, ReceiverTypes, Frame, FrameType
<1>3. s \in lost
  BY <1>1 DEF IInv, Vouched, InFlight, Exchange
<1>4. /\ b \in BufferType
      /\ b.expected = rb.expected /\ b.done = rb.done
      /\ rb.held \subseteq b.held /\ b.held \subseteq rb.held \cup x
      /\ b.gaps \subseteq lost
  BY <1>2, <1>3 DEF GapMarked, BufferType, IInv, ReceiverBacked
<1>5. /\ ReceiverTypes' /\ ReceiverBacked' /\ TellsInOrder' /\ StrictNeverAwaitsLost'
      /\ Received \subseteq Received' /\ Received' \subseteq Received \cup x
      /\ Delivers(b) \subseteq Received'
  <2> HIDE DEF b
  <2> QED
    BY <1>1, <1>4, DrainStep
<1>6. Received' \subseteq 0..(SentUpTo - 1)
  BY <1>5 DEF IInv, OnlySent, Settled
<1> HIDE DEF b
<1>7. \A t : /\ <<"DATA", t>> \notin F /\ <<"PERMANENT_LOSS", t>> \notin F
             /\ <<"ACK", t>> \in F \/ <<"CREDIT", t>> \in F => t \in Received' \cup lost
  BY <1>5, ReceiptFrames
<1> HIDE DEF F
<1> QED
  BY <1>1, <1>2, <1>5, <1>6, <1>7, ReceiverStep

\* One packet is passed on.
LEMMA PassedOn ==
    ASSUME IInv, NEW s \in SeqNum, told' = Append(told, <<s, "data">>), rb' = rb
    PROVE  /\ told' \in Seq(Telling)
           /\ Len(told') = Len(told) + 1 /\ DOMAIN told' = 1..(Len(told) + 1)
           /\ \A i \in DOMAIN told : told'[i] = told[i]
           /\ told'[Len(told) + 1] = <<s, "data">>
           /\ Received' = Received \cup {s}
<1>1. told \in Seq(Telling) /\ <<s, "data">> \in Telling /\ Len(told) \in Nat
      /\ DOMAIN told = 1..Len(told)
  BY DEF IInv, LinkTypeOK, ReceiverTypes, Telling
<1>2. /\ told' \in Seq(Telling)
      /\ Len(told') = Len(told) + 1 /\ DOMAIN told' = 1..(Len(told) + 1)
      /\ \A i \in 1..Len(told) : told'[i] = told[i]
      /\ told'[Len(told) + 1] = <<s, "data">>
  BY <1>1
<1>3. Received = ToldData \cup Parked(rb)
  BY ReceivedIs DEF IInv
<1>4. Received' = ToldData' \cup Parked(rb')
  <2>1. rb' \in BufferType
    BY DEF IInv, LinkTypeOK, ReceiverTypes
  <2> QED
    BY <2>1 DEF BufferType, Received, ToldOf, ToldData, Parked
<1>5. ToldData' = ToldData \cup {s}
  <2>1. ASSUME NEW t \in ToldData' PROVE t \in ToldData \cup {s}
    <3>1. PICK i \in DOMAIN told' : told'[i][1] = t /\ told'[i][2] = "data"
      BY <2>1 DEF ToldData
    <3>2. i \in DOMAIN told \/ i = Len(told) + 1
      BY <1>1, <1>2
    <3>3. t \in SeqNum
      BY <2>1 DEF ToldData
    <3>4. CASE i \in DOMAIN told
      BY <1>1, <1>2, <3>1, <3>3, <3>4 DEF ToldData
    <3>5. CASE i = Len(told) + 1
      BY <1>2, <3>1, <3>5
    <3> QED
      BY <3>2, <3>4, <3>5
  <2>2. ToldData \subseteq ToldData'
    <3>1. \A i \in DOMAIN told : i \in DOMAIN told' /\ told'[i] = told[i]
      BY <1>1, <1>2
    <3> QED
      BY <3>1 DEF ToldData
  <2>3. s \in ToldData'
    <3>1. Len(told) + 1 \in DOMAIN told'
      BY <1>1, <1>2
    <3>2. told'[Len(told) + 1][1] = s /\ told'[Len(told) + 1][2] = "data"
      BY <1>2
    <3> QED
      BY <3>1, <3>2 DEF ToldData
  <2> QED
    BY <2>1, <2>2, <2>3
<1> QED
  BY <1>1, <1>2, <1>3, <1>4, <1>5

LEMMA ReceiveBypassedStep ==
    ASSUME IInv, NEW s \in SeqNum, ReceiveBypassed(s)
    PROVE  IInv'
<1> DEFINE F == Receipts({s})
<1>1. /\ Bypass /\ ~IsStrictGbnFlow /\ Exchange(<<"DATA", s>>, F)
      /\ bypassDelivered' = bypassDelivered \cup {s}
      /\ told' = IF s \in bypassDelivered THEN told ELSE Append(told, <<s, "data">>)
      /\ UNCHANGED <<sendVars, drops, conf, rb, strictExpected, strictLost, strictNak>>
  BY DEF ReceiveBypassed
<1>2. told' \in Seq(Telling) /\ Received' = Received \cup {s}
  <2>1. CASE s \in bypassDelivered
    <3>1. told' = told /\ s \in Received
      BY <1>1, <2>1 DEF IInv, ReceiverBacked
    <3>2. Received' = Received
      BY <1>1, <3>1 DEF Received, ToldOf, Parked
    <3> QED
      BY <3>1, <3>2 DEF IInv, LinkTypeOK, ReceiverTypes
  <2>2. CASE s \notin bypassDelivered
    <3>1. told' = Append(told, <<s, "data">>) /\ rb' = rb
      BY <1>1, <2>2
    <3> QED
      BY <3>1, PassedOn
  <2> QED
    BY <2>1, <2>2
<1>3. ReceiverTypes' /\ drops' \in Nat
  BY <1>1, <1>2 DEF IInv, LinkTypeOK, ReceiverTypes
<1>4. /\ lost' = lost /\ Bypass' /\ ~IsStrictGbnFlow'
  BY <1>1 DEF sendVars, IsStrictGbnFlow, Bypass, LlrMode, Local
<1>5. ReceiverBacked'
  BY <1>1, <1>2, <1>4 DEF IInv, ReceiverBacked, DoneIsPast, Settled
<1>6. TellsInOrder' /\ StrictNeverAwaitsLost'
  BY <1>1, <1>4 DEF IInv, TellsInOrder, ToldInOrder, StrictNeverAwaitsLost
<1>7. Received' \subseteq 0..(SentUpTo - 1) /\ <<"DATA", s>> \in Frame
  BY <1>1, <1>2, DataWasSent DEF IInv, OnlySent, Settled
<1>8. \A t : /\ <<"DATA", t>> \notin F /\ <<"PERMANENT_LOSS", t>> \notin F
             /\ <<"ACK", t>> \in F \/ <<"CREDIT", t>> \in F => t \in Received' \cup lost
  BY <1>2, ReceiptFrames
<1> HIDE DEF F
<1> QED
  BY <1>1, <1>2, <1>3, <1>5, <1>6, <1>7, <1>8, ReceiverStep

\* A strict flow's counter moves past its number n and the losses parked
\* behind it; what it leaves behind is settled.
LEMMA SettleStep ==
    ASSUME IInv, IsStrictGbnFlow, strictExpected \in SeqNum, SettleStrict(strictExpected)
    PROVE  /\ strictExpected' \in (strictExpected + 1)..SeqBound
           /\ strictLost' \in SUBSET SeqNum /\ strictLost' \subseteq lost
           /\ strictNak' \in 0..SeqBound
           /\ strictExpected' \notin strictLost'
           /\ 0..(strictExpected' - 1) \subseteq Settled \cup {strictExpected} \cup lost
<1> DEFINE e == strictExpected
           m == RunFrom(e + 1, strictLost)
<1>1. /\ e \in Nat /\ e < SeqBound /\ SeqBound \in Nat /\ e + 1 \in 0..SeqBound
      /\ strictLost \in SUBSET SeqNum /\ strictLost \subseteq lost
      /\ 0..(e - 1) \subseteq Settled
  BY ReorderAssumption DEF SeqNum, IInv, LinkTypeOK, ReceiverTypes, ReceiverBacked
<1>2. /\ strictExpected' = m
      /\ strictLost' \subseteq strictLost
      /\ strictNak' = SeqBound
  BY DEF SettleStrict, StrictNext
<1>3. /\ m \in (e + 1)..SeqBound
      /\ \A s \in (e + 1)..(m - 1) : s \in strictLost
      /\ m \notin strictLost
  BY <1>1, RunEnds
<1> HIDE DEF m, e
<1>4. 0..(m - 1) = 0..(e - 1) \cup {e} \cup (e + 1)..(m - 1)
  BY <1>1, <1>3
<1>5. 0..(m - 1) \subseteq Settled \cup {e} \cup lost
  BY <1>1, <1>3, <1>4
<1>6. strictNak' \in 0..SeqBound
  BY <1>1, <1>2
<1> QED
  BY <1>1, <1>2, <1>3, <1>5, <1>6 DEF e

LEMMA ReceiveStrictStep ==
    ASSUME IInv, NEW s \in SeqNum, ReceiveStrict(s)
    PROVE  IInv'
<1>1. IsStrictGbnFlow /\ UNCHANGED <<sendVars, drops, conf, rb, bypassDelivered>>
  BY DEF ReceiveStrict
<1>2. /\ lost' = lost /\ IsStrictGbnFlow' /\ Bypass' /\ Bypass /\ drops' \in Nat
      /\ rb' = rb
  BY <1>1 DEF sendVars, IsStrictGbnFlow, Bypass, LlrMode, Local, IInv, LinkTypeOK
<1>3. /\ strictExpected \in Nat /\ s \in Nat /\ strictExpected \in 0..SeqBound /\ SeqBound \in Nat
      /\ told \in Seq(Telling) /\ Len(told) \in Nat /\ DOMAIN told = 1..Len(told)
      /\ 0..(strictExpected - 1) \subseteq Settled
      /\ \A i \in DOMAIN told : told[i][1] < strictExpected
      /\ \A i, j \in DOMAIN told : i < j => told[i][1] < told[j][1]
  BY <1>1, ReorderAssumption
  DEF IInv, LinkTypeOK, ReceiverTypes, ReceiverBacked, TellsInOrder, ToldInOrder, SeqNum
<1>4. CASE /\ s = strictExpected
           /\ Exchange(<<"DATA", s>>, Receipts({s}))
           /\ SettleStrict(s)
           /\ told' = Append(told, <<s, "data">>)
  <2>1. /\ strictExpected' \in (s + 1)..SeqBound
        /\ strictLost' \in SUBSET SeqNum /\ strictLost' \subseteq lost
        /\ strictNak' \in 0..SeqBound
        /\ strictExpected' \notin strictLost'
        /\ 0..(strictExpected' - 1) \subseteq Settled \cup {s} \cup lost
    BY <1>1, <1>4, SettleStep
  <2>2. /\ told' \in Seq(Telling)
        /\ DOMAIN told' = 1..(Len(told) + 1)
        /\ \A i \in DOMAIN told : told'[i] = told[i]
        /\ told'[Len(told) + 1] = <<s, "data">>
        /\ Received' = Received \cup {s}
    BY <1>2, <1>4, PassedOn
  <2>3. strictExpected' \in 0..SeqBound /\ s < strictExpected'
    BY <1>3, <2>1
  <2>4. ReceiverTypes'
    BY <1>1, <1>2, <2>1, <2>2, <2>3 DEF IInv, LinkTypeOK, ReceiverTypes
  <2>5. ReceiverBacked'
    BY <1>1, <1>2, <2>1, <2>2 DEF IInv, ReceiverBacked, DoneIsPast, Settled
  <2>6. TellsInOrder'
    <3>1. \A i \in DOMAIN told : told[i][1] \in Nat
      <4>1. \A i \in DOMAIN told : told[i] \in Telling
        BY <1>3
      <4> QED
        BY <4>1 DEF Telling, SeqNum
    <3>2. \A i \in DOMAIN told' : i \in DOMAIN told \/ i = Len(told) + 1
      BY <1>3, <2>2
    <3>3. \A i \in DOMAIN told : told'[i][1] < s
      BY <1>3, <1>4, <2>2
    <3>4. told'[Len(told) + 1][1] = s
      BY <2>2
    <3>5. \A i \in DOMAIN told' : told'[i][1] < strictExpected'
      BY <1>3, <1>4, <2>1, <2>2, <2>3, <3>1, <3>2, <3>3, <3>4
    <3>6. ASSUME NEW i \in DOMAIN told', NEW j \in DOMAIN told', i < j
          PROVE  told'[i][1] < told'[j][1]
      <4>1. i \in DOMAIN told
        BY <1>3, <2>2, <3>2, <3>6
      <4>2. CASE j \in DOMAIN told
        BY <1>3, <2>2, <3>6, <4>1, <4>2
      <4>3. CASE j = Len(told) + 1
        BY <3>3, <3>4, <4>1, <4>3
      <4> QED
        BY <3>2, <4>2, <4>3
    <3> QED
      BY <1>2, <3>5, <3>6 DEF TellsInOrder, ToldInOrder
  <2>7. StrictNeverAwaitsLost'
    BY <2>1 DEF StrictNeverAwaitsLost
  <2>8. Received' \subseteq 0..(SentUpTo - 1) /\ <<"DATA", s>> \in Frame
    BY <1>4, <2>2, DataWasSent DEF IInv, OnlySent, Settled
  <2>9. \A t : /\ <<"DATA", t>> \notin Receipts({s}) /\ <<"PERMANENT_LOSS", t>> \notin Receipts({s})
               /\ <<"ACK", t>> \in Receipts({s}) \/ <<"CREDIT", t>> \in Receipts({s})
                     => t \in Received' \cup lost
    BY <2>2, ReceiptFrames
  <2> QED
    BY <1>1, <1>2, <1>4, <2>2, <2>4, <2>5, <2>6, <2>7, <2>8, <2>9, ReceiverStep
<1>5. CASE s < strictExpected /\ Exchange(<<"DATA", s>>, {<<"ACK", s>>})
           /\ UNCHANGED <<strictExpected, strictLost, strictNak, told>>
  <2>1. Received' = Received
    BY <1>2, <1>5 DEF Received, ToldOf, Parked
  <2>2. ReceiverTypes' /\ ReceiverBacked' /\ TellsInOrder' /\ StrictNeverAwaitsLost'
    BY <1>1, <1>2, <1>5, <2>1
    DEF IInv, LinkTypeOK, ReceiverTypes, ReceiverBacked, DoneIsPast, Settled, TellsInOrder,
        ToldInOrder, StrictNeverAwaitsLost
  <2>3. Received' \subseteq 0..(SentUpTo - 1) /\ <<"DATA", s>> \in Frame
    BY <1>5, <2>1, DataWasSent DEF IInv, OnlySent, Settled
  <2>4. s \in Received' \cup lost
    BY <1>3, <1>5, <2>1 DEF Settled
  <2> QED
    BY <1>1, <1>2, <1>5, <2>1, <2>2, <2>3, <2>4, ReceiverStep
<1>6. CASE /\ s > strictExpected
           /\ Exchange(<<"DATA", s>>,
                       IF strictNak # strictExpected THEN {<<"NACK", strictExpected>>} ELSE {})
           /\ strictNak' = strictExpected
           /\ UNCHANGED <<strictExpected, strictLost, told>>
  <2> DEFINE F == IF strictNak # strictExpected THEN {<<"NACK", strictExpected>>} ELSE {}
  <2>1. Received' = Received
    BY <1>2, <1>6 DEF Received, ToldOf, Parked
  <2>2. ReceiverTypes' /\ ReceiverBacked' /\ TellsInOrder' /\ StrictNeverAwaitsLost'
    BY <1>1, <1>2, <1>3, <1>6, <2>1
    DEF IInv, LinkTypeOK, ReceiverTypes, ReceiverBacked, DoneIsPast, Settled, TellsInOrder,
        ToldInOrder, StrictNeverAwaitsLost
  <2>3. Received' \subseteq 0..(SentUpTo - 1) /\ <<"DATA", s>> \in Frame
    BY <1>6, <2>1, DataWasSent DEF IInv, OnlySent, Settled
  <2>4. \A t : /\ <<"DATA", t>> \notin F /\ <<"PERMANENT_LOSS", t>> \notin F
               /\ <<"ACK", t>> \notin F /\ <<"CREDIT", t>> \notin F
    OBVIOUS
  <2>5. Exchange(<<"DATA", s>>, F)
    BY <1>6
  <2> HIDE DEF F
  <2> QED
    BY <1>1, <1>2, <2>1, <2>2, <2>3, <2>4, <2>5, ReceiverStep
<1> QED
  BY <1>4, <1>5, <1>6 DEF ReceiveStrict

LEMMA NoticeStrictStep ==
    ASSUME IInv, NEW s \in SeqNum, NoticeStrict(s)
    PROVE  IInv'
<1>1. /\ IsStrictGbnFlow /\ Exchange(<<"PERMANENT_LOSS", s>>, {})
      /\ UNCHANGED <<sendVars, drops, conf, rb, bypassDelivered, told>>
  BY DEF NoticeStrict
<1>2. /\ lost' = lost /\ IsStrictGbnFlow' /\ Bypass' /\ Bypass /\ drops' \in Nat
  BY <1>1 DEF sendVars, IsStrictGbnFlow, Bypass, LlrMode, Local, IInv, LinkTypeOK
<1>3. s \in lost /\ <<"PERMANENT_LOSS", s>> \in Frame
  BY <1>1 DEF IInv, Vouched, InFlight, Exchange, Frame, FrameType
<1>4. Received' = Received
  BY <1>1 DEF Received, ToldOf, Parked
<1>5. /\ strictExpected \in 0..SeqBound /\ SeqBound \in Nat /\ s \in Nat
      /\ strictLost \in SUBSET SeqNum /\ strictNak \in 0..SeqBound
      /\ strictLost \subseteq lost /\ strictExpected \notin strictLost
      /\ 0..(strictExpected - 1) \subseteq Settled
      /\ \A i \in DOMAIN told : told[i][1] < strictExpected /\ told[i][1] \in Nat
  <2>1. \A i \in DOMAIN told : told[i][1] \in Nat
    <3>1. \A i \in DOMAIN told : told[i] \in Telling
      BY DEF IInv, LinkTypeOK, ReceiverTypes
    <3> QED
      BY <3>1 DEF Telling, SeqNum
  <2> QED
    BY <1>1, <2>1, ReorderAssumption
    DEF IInv, LinkTypeOK, ReceiverTypes, ReceiverBacked, TellsInOrder, StrictNeverAwaitsLost, SeqNum
<1>6. /\ strictExpected' \in 0..SeqBound /\ strictExpected <= strictExpected'
      /\ strictLost' \in SUBSET SeqNum /\ strictLost' \subseteq lost
      /\ strictNak' \in 0..SeqBound
      /\ strictExpected' \notin strictLost'
      /\ 0..(strictExpected' - 1) \subseteq Settled
  <2>1. CASE s = strictExpected /\ SettleStrict(s)
    <3>1. /\ strictExpected' \in (strictExpected + 1)..SeqBound
          /\ strictLost' \in SUBSET SeqNum /\ strictLost' \subseteq lost
          /\ strictNak' \in 0..SeqBound
          /\ strictExpected' \notin strictLost'
          /\ 0..(strictExpected' - 1) \subseteq Settled \cup {strictExpected} \cup lost
      BY <1>1, <2>1, SettleStep
    <3>2. strictExpected' \in 0..SeqBound /\ strictExpected <= strictExpected'
      BY <1>5, <3>1
    <3> QED
      BY <1>3, <2>1, <3>1, <3>2 DEF Settled
  <2>2. CASE /\ s > strictExpected
             /\ strictLost' = strictLost \cup {s}
             /\ UNCHANGED <<strictExpected, strictNak>>
    BY <1>3, <1>5, <2>2
  <2>3. CASE s < strictExpected /\ UNCHANGED <<strictExpected, strictLost, strictNak>>
    BY <1>5, <2>3
  <2> QED
    BY <2>1, <2>2, <2>3 DEF NoticeStrict
<1>7. ReceiverTypes'
  BY <1>1, <1>6 DEF IInv, LinkTypeOK, ReceiverTypes
<1>8. ReceiverBacked'
  BY <1>1, <1>2, <1>4, <1>6 DEF IInv, ReceiverBacked, DoneIsPast, Settled
<1>9. TellsInOrder'
  <2>1. \A i \in DOMAIN told' : told'[i][1] < strictExpected'
    BY <1>1, <1>5, <1>6
  <2> QED
    BY <1>1, <1>2, <2>1 DEF IInv, TellsInOrder, ToldInOrder
<1>10. StrictNeverAwaitsLost'
  BY <1>6 DEF StrictNeverAwaitsLost
<1>11. Received' \subseteq 0..(SentUpTo - 1)
  BY <1>4 DEF IInv, OnlySent, Settled
<1> QED
  BY <1>1, <1>2, <1>3, <1>4, <1>7, <1>8, <1>9, <1>10, <1>11, ReceiverStep

\* The fabric loses or corrupts a frame: nobody's state changes.
LEMMA FabricStep ==
    ASSUME IInv, NEW f \in Frame, NEW F, Exchange(f, F), drops' \in Nat,
           UNCHANGED <<sendVars, conf, recvVars>>,
           \A t : /\ <<"DATA", t>> \notin F /\ <<"PERMANENT_LOSS", t>> \notin F
                  /\ <<"ACK", t>> \notin F /\ <<"CREDIT", t>> \notin F
    PROVE  IInv'
<1>1. Received' = Received
  BY DEF Received, ToldOf, Parked, recvVars
<1>2. ReceiverTypes' /\ ReceiverBacked' /\ TellsInOrder' /\ StrictNeverAwaitsLost'
  BY <1>1
  DEF IInv, LinkTypeOK, ReceiverTypes, ReceiverBacked, DoneIsPast, Settled, TellsInOrder,
      ToldInOrder, StrictNeverAwaitsLost, recvVars, sendVars, IsStrictGbnFlow, Bypass, LlrMode, Local
<1>3. Received' \subseteq 0..(SentUpTo - 1)
  BY <1>1 DEF IInv, OnlySent, Settled
<1> QED
  BY <1>1, <1>2, <1>3, ReceiverStep

-----------------------------------------------------------------------------
(* The theorems.                                                           *)

LEMMA InitEstablishesIInv == Init => IInv
<1> SUFFICES ASSUME Init PROVE IInv
  OBVIOUS
<1>1. SeqBound \in Nat /\ Credits \in Nat /\ Confs \subseteq Configuration
  BY ReorderAssumption, LinkAssumption
<1>2. Len(sendQueue) = 0 /\ SentUpTo = 0 /\ 0..(SentUpTo - 1) = {}
  <2>1. nextSeq = 0
    BY DEF Init
  <2>2. Len(sendQueue) = 0
    BY DEF Init
  <2>3. SentUpTo = 0
    BY <2>1, <2>2 DEF SentUpTo
  <2> QED
    BY <2>2, <2>3
<1>3. /\ rb \in BufferType /\ Parked(rb) = {} /\ rb.held = {} /\ rb.gaps = {}
      /\ rb.expected = 0 /\ rb.done = {}
  BY <1>1 DEF Init, EmptyBuffer, BufferType, Parked
<1>4. Outstanding = {} /\ store \in [Outstanding -> RetryEntry]
  BY DEF Init, Outstanding
<1>5. LinkTypeOK
  <2>1. SenderTypes
    BY <1>1, <1>4 DEF Init, SenderTypes, FreshVc, CreditEntry
  <2>2. ReceiverTypes
    BY <1>1, <1>3 DEF Init, ReceiverTypes
  <2> QED
    BY <1>1, <2>1, <2>2 DEF Init, LinkTypeOK
<1>6. Received = {} /\ Settled = {}
  <2>1. DOMAIN told = {}
    BY DEF Init
  <2>2. Received = {}
    BY <1>3, <2>1 DEF Received, ToldOf
  <2> QED
    BY <2>2 DEF Settled, Init
<1>7. \A type \in FrameType : InFlight(type) = {}
  BY DEF Init, InFlight, Frame
<1>8. QueueInOrder
  BY <1>2 DEF Init, QueueInOrder
<1>9. LedgerExact
  <2>1. Cardinality(0..(SentUpTo - 1) \ creditsReturned) = 0
    BY <1>2, FS_EmptySet
  <2> QED
    BY <1>1, <2>1 DEF Init, LedgerExact, FreshVc, Balanced
<1>10. OnlySent /\ Vouched /\ KeepsCopies
  BY <1>2, <1>4, <1>6, <1>7 DEF Init, OnlySent, Vouched, KeepsCopies, FrameType
<1>11. ReceiverBacked
  BY <1>3, <1>6 DEF Init, ReceiverBacked, DoneIsPast
<1>12. TellsInOrder /\ StrictNeverAwaitsLost
  <2>1. DOMAIN told = {}
    BY DEF Init
  <2> QED
    BY <2>1 DEF Init, TellsInOrder, ToldInOrder, StrictNeverAwaitsLost
<1> QED
  BY <1>5, <1>8, <1>9, <1>10, <1>11, <1>12 DEF IInv

LEMMA NextPreservesIInv == IInv /\ [Next]_vars => IInv'
<1> SUFFICES ASSUME IInv, [Next]_vars PROVE IInv'
  OBVIOUS
<1>1. CASE Submit
  <2>1. CASE SendData
    BY <2>1, SendDataStep
  <2>2. ASSUME NEW n \in 2..SeqBound, SendFragments(n) PROVE IInv'
    BY <2>2, SendFragmentsStep
  <2> QED
    BY <1>1, <2>1, <2>2 DEF Submit
<1>2. ASSUME NEW s \in SeqNum, Handle(s) PROVE IInv'
  <2>1. CASE ProcessAckPacket(s)
    BY <2>1, ProcessAckPacketStep
  <2>2. CASE ProcessCreditPacket(s)
    BY <2>2, ProcessCreditPacketStep
  <2>3. CASE ProcessNackPacket(s)
    <3>1. /\ Retransmit(s, Take(net, <<"NACK", s>>))
          /\ <<"NACK", s>> \in Frame /\ net[<<"NACK", s>>] > 0
      BY <2>3 DEF ProcessNackPacket, Frame, FrameType
    <3> QED
      BY <3>1, RetransmitStep
  <2>4. CASE ReceiveReordered(s)
    BY <2>4, ReceiveReorderedStep
  <2>5. CASE ReceiveBypassed(s)
    BY <2>5, ReceiveBypassedStep
  <2>6. CASE ReceiveStrict(s)
    BY <2>6, ReceiveStrictStep
  <2>7. CASE NoticeStrict(s)
    BY <2>7, NoticeStrictStep
  <2>8. CASE NoticeReordered(s)
    BY <2>8, NoticeReorderedStep
  <2> QED
    BY <1>2, <2>1, <2>2, <2>3, <2>4, <2>5, <2>6, <2>7, <2>8 DEF Handle
<1>3. ASSUME NEW s \in SeqNum, OnLlrRetryTimeout(s) PROVE IInv'
  BY <1>3, RetransmitStep DEF OnLlrRetryTimeout
<1>4. ASSUME NEW s \in SeqNum, SendRetransmission(s) PROVE IInv'
  BY <1>4, SendRetransmissionStep
<1>5. ASSUME NEW s \in SeqNum, CorruptData(s) PROVE IInv'
  <2>1. /\ Exchange(<<"DATA", s>>, {<<"NACK", s>>}) /\ drops' \in Nat
        /\ UNCHANGED <<sendVars, conf, recvVars>> /\ <<"DATA", s>> \in Frame
    BY <1>5 DEF CorruptData, IInv, LinkTypeOK, Frame, FrameType
  <2> QED
    BY <2>1, FabricStep
<1>6. ASSUME NEW f \in Frame, DropSilently(f) PROVE IInv'
  <2>1. Exchange(f, {}) /\ drops' \in Nat /\ UNCHANGED <<sendVars, conf, recvVars>>
    BY <1>6 DEF DropSilently, IInv, LinkTypeOK
  <2> QED
    BY <2>1, FabricStep
<1>7. CASE UNCHANGED vars
  <2>1. UNCHANGED <<sendVars, conf, recvVars, net, drops>>
    BY <1>7 DEF vars
  <2>2. Received' = Received /\ Outstanding' = Outstanding /\ SentUpTo' = SentUpTo
        /\ \A type \in FrameType : InFlight(type)' = InFlight(type)
    BY <2>1 DEF Received, ToldOf, Parked, recvVars, sendVars, Outstanding, SentUpTo, InFlight
  <2>3. LinkTypeOK' /\ QueueInOrder' /\ LedgerExact'
    BY <2>1, <2>2 DEF IInv, LinkTypeOK, SenderTypes, ReceiverTypes, QueueInOrder, LedgerExact, Local,
                      sendVars, recvVars
  <2>4. OnlySent' /\ Vouched' /\ KeepsCopies'
    BY <2>1, <2>2 DEF IInv, OnlySent, Vouched, KeepsCopies, Settled, sendVars, FrameType
  <2>5. ReceiverBacked' /\ TellsInOrder' /\ StrictNeverAwaitsLost'
    BY <2>1, <2>2
    DEF IInv, ReceiverBacked, DoneIsPast, Settled, TellsInOrder, ToldInOrder,
        StrictNeverAwaitsLost, recvVars, sendVars, IsStrictGbnFlow, Bypass, LlrMode, Local
  <2> QED
    BY <2>3, <2>4, <2>5 DEF IInv
<1> QED
  BY <1>1, <1>2, <1>3, <1>4, <1>5, <1>6, <1>7 DEF Next

\* The inductive invariant holds of every behaviour of the flow.
THEOREM LinkInvariant == Spec => []IInv
  BY InitEstablishesIInv, NextPreservesIInv, PTL DEF Spec

\* The flow's variables keep their types.
THEOREM LinkTypes == Spec => []LinkTypeOK
<1>1. IInv => LinkTypeOK
  BY DEF IInv
<1> QED
  BY <1>1, LinkInvariant, PTL

\* ProcessAckPacket, ProcessCreditPacket and NotifyPermanentLoss return the
\* credit of a packet once between them: the credits out are those of the
\* packets sent and not yet credited, whatever is lost, repeated or reordered.
THEOREM CreditsOnce == Spec => []CreditExactlyOnce
<1>1. IInv => CreditExactlyOnce
  BY SentIs DEF IInv, LedgerExact, CreditExactlyOnce
<1> QED
  BY <1>1, LinkInvariant, PTL

\* No packet waits in m_sendQueue beside a free credit, although the ACK path
\* drains the queue only through OnCreditAvailable.
THEOREM NoWakeupLost == Spec => []NoLostWakeup
<1>1. IInv => NoLostWakeup
  BY DEF IInv, LedgerExact, NoLostWakeup
<1> QED
  BY <1>1, LinkInvariant, PTL

\* A credit comes back only for a packet that has arrived or was given up.
THEOREM CreditsNotEarly == Spec => []CreditNotEarly
<1>1. IInv => CreditNotEarly
  BY DEF IInv, Vouched, Settled, CreditNotEarly
<1> QED
  BY <1>1, LinkInvariant, PTL

\* The retry store drops a copy only once the packet has arrived or was given
\* up, also when go-back-N drops a whole run of them.
THEOREM NothingForgotten == Spec => []NeverForgotten
<1>1. IInv => NeverForgotten
  BY SentIs DEF IInv, KeepsCopies, Settled, NeverForgotten
<1> QED
  BY <1>1, LinkInvariant, PTL

\* m_strictNextExpected never rests on a number whose loss was announced.
THEOREM StrictMovesOn == Spec => []StrictNeverAwaitsLost
<1>1. IInv => StrictNeverAwaitsLost
  BY DEF IInv
<1> QED
  BY <1>1, LinkInvariant, PTL

\* A flow with a reorder buffer and a strict flow report every number at most
\* once and in order.
THEOREM ReportsInOrder == Spec => []ToldInOrder
<1>1. IInv => ToldInOrder
  BY DEF IInv, TellsInOrder
<1> QED
  BY <1>1, LinkInvariant, PTL

\* Packets leave for the first time in the order of their numbers: what waits
\* is exactly the numbers behind the ones that were on the wire.
THEOREM SendsInOrder == Spec => []QueueInOrder
<1>1. IInv => QueueInOrder
  BY DEF IInv
<1> QED
  BY <1>1, LinkInvariant, PTL
=============================================================================
