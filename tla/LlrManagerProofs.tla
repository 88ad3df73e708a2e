-------------------------- MODULE LlrManagerProofs ---------------------------
(***************************************************************************)
(* What holds of the retry store for any number of flows, packets and      *)
(* retries, any size of the retry buffer and both retry modes: the types,  *)
(* the exact retry budget, the accounting of fast copies, that no          *)
(* operation on one flow touches the packets of another, and that with the *)
(* timeout backstop nothing outstanding is left without a next event.      *)
(***************************************************************************)
EXTENDS LlrManager, FiniteSetTheorems, TLAPS

-----------------------------------------------------------------------------
(* The retry buffer.                                                       *)

\* There are finitely many packets.
LEMMA KeysFinite == IsFiniteSet(Key)
<1>1. IsFiniteSet(0..LastSeq)
  BY LlrAssumption, FS_Interval
<1> QED
  BY <1>1, LlrAssumption, FS_Product DEF Key

\* Whichever policy StorePacket follows, it adds at most the packet it stores
\* and keeps the buffer within its limit.
LEMMA StoreKeepsLimit ==
    ASSUME NEW c, NEW k, NEW d \in CopiesAfterStore(c, k),
           IsFiniteSet(c), MaxBufferSize > 0 => Cardinality(c) <= MaxBufferSize
    PROVE  /\ d \subseteq c \cup {k}
           /\ MaxBufferSize > 0 => Cardinality(d) <= MaxBufferSize
<1> DEFINE others == c \ {k}
<1>1. /\ IsFiniteSet(others)
      /\ Cardinality(others) \in Nat /\ Cardinality(c) \in Nat
      /\ Cardinality(others) <= Cardinality(c)
  <2>1. IsFiniteSet(others) /\ Cardinality(others) <= Cardinality(c)
    BY FS_Subset
  <2> QED
    BY <2>1, FS_CardinalityType
<1>2. MaxBufferSize \in Nat
  BY LlrAssumption
<1>3. CASE d = others \cup {k} /\ (MaxBufferSize = 0 \/ Cardinality(others) < MaxBufferSize)
  <2>1. Cardinality(d) = Cardinality(others) + 1
    BY <1>1, <1>3, FS_AddElement
  <2> QED
    BY <1>1, <1>2, <1>3, <2>1
<1>4. CASE d = others
  BY <1>1, <1>2, <1>4
<1>5. CASE \E victim \in Oldest(others) : d = (others \ {victim}) \cup {k}
  <2>1. PICK victim \in Oldest(others) : d = (others \ {victim}) \cup {k}
    BY <1>5
  <2>2. victim \in others
    BY DEF Oldest
  <2>3. /\ IsFiniteSet(others \ {victim})
        /\ Cardinality(others \ {victim}) = Cardinality(others) - 1
    BY <1>1, <2>2, FS_RemoveElement
  <2>4. Cardinality(d) = Cardinality(others \ {victim}) + 1
    BY <2>1, <2>3, FS_AddElement
  <2>5. d \subseteq c \cup {k}
    BY <2>1
  <2> QED
    BY <1>1, <1>2, <2>3, <2>4, <2>5
<1> QED
  BY <1>3, <1>4, <1>5 DEF CopiesAfterStore

-----------------------------------------------------------------------------
(* The inductive invariant.                                                *)

\* A packet that was not sent yet has no entry, no repair and no verdict.
NotSentYet ==
    \A k \in Key : k[2] >= nextSeq[k[1]] =>
        k \notin Outstanding /\ k \notin lost /\ repairs[k] = 0

IInv == TypeOK /\ RetryBudget /\ CopiesAccounted /\ NotSentYet

LEMMA InitIInv == Init => IInv
<1> SUFFICES ASSUME Init PROVE IInv
  OBVIOUS
<1>1. TypeOK
  BY LlrAssumption DEF Init, TypeOK, Outstanding, Entry, Key
<1>2. RetryBudget /\ NotSentYet
  BY DEF Init, RetryBudget, NotSentYet, Outstanding
<1>3. CopiesAccounted
  BY LlrAssumption, FS_EmptySet DEF Init, CopiesAccounted
<1> QED
  BY <1>1, <1>2, <1>3 DEF IInv

\* A subset of the copies keeps the limit.
LEMMA FewerCopies ==
    ASSUME IInv, NEW d, d \subseteq copies
    PROVE  MaxBufferSize > 0 => Cardinality(d) <= MaxBufferSize
<1>1. IsFiniteSet(copies)
  BY KeysFinite, FS_Subset DEF IInv, TypeOK
<1>2. Cardinality(d) <= Cardinality(copies) /\ IsFiniteSet(d)
  BY <1>1, FS_Subset
<1>3. Cardinality(d) \in Nat /\ Cardinality(copies) \in Nat
  BY <1>1, <1>2, FS_CardinalityType
<1> QED
  BY <1>2, <1>3, LlrAssumption DEF IInv, CopiesAccounted

\* Removing packets that were acknowledged.
LEMMA RemoveKeeps ==
    ASSUME IInv, NEW keys, Remove(keys), NEW k \in Key, Answered(k),
           arrived' = arrived \cup {k},
           UNCHANGED <<conf, egress, reloads, nextSeq, repairs, lost>>
    PROVE  IInv'
<1> USE DEF IInv
<1>1. TypeOK'
  BY DEF TypeOK, Remove, Without, Answered, Outstanding
<1>2. RetryBudget'
  BY DEF RetryBudget, Remove, Without, Outstanding
<1>3. NotSentYet'
  BY DEF NotSentYet, Remove, Without, Outstanding
<1>4. CopiesAccounted'
  <2>1. copies' = copies \ keys
    BY DEF Remove
  <2>2. MaxBufferSize > 0 => Cardinality(copies') <= MaxBufferSize
    BY <2>1, FewerCopies
  <2>3. copies' \subseteq Outstanding'
    BY DEF CopiesAccounted, Remove, Without, Outstanding
  <2> QED
    BY <2>2, <2>3 DEF CopiesAccounted
<1> QED
  BY <1>1, <1>2, <1>3, <1>4

LEMMA HandleKeeps ==
    ASSUME IInv, NEW k \in Key, Handle(k), inNet' \in [Key -> Nat]
    PROVE  IInv'
<1> DEFINE gone == GivenUp(Requested(k))
           again == Requested(k) \ gone
<1> USE DEF IInv
<1>1. /\ store' = [j \in Outstanding \ gone |->
                     IF j \in again THEN Retried(store[j]) ELSE store[j]]
      /\ copies' = copies \ gone
      /\ lost' = lost \cup gone
      /\ repairs' = [j \in Key |-> IF j \in again THEN repairs[j] + 1 ELSE repairs[j]]
      /\ UNCHANGED <<conf, nextSeq, arrived>>
  BY DEF Handle
<1>2. gone \subseteq Outstanding /\ again \subseteq Outstanding
  BY DEF Requested, GivenUp
<1>3. \A j \in gone : store[j].retries = RetryLimit /\ repairs[j] = RetryLimit
  <2>1. \A j \in gone : j \in Outstanding /\ store[j].retries + 1 > RetryLimit
    BY <1>2 DEF GivenUp
  <2>2. \A j \in Outstanding : store[j].retries \in 0..RetryLimit /\ repairs[j] = store[j].retries
    BY DEF TypeOK, Entry, RetryBudget
  <2> QED
    BY <2>1, <2>2, LlrAssumption
<1>4. \A j \in again : /\ store[j].retries \in 0..RetryLimit
                       /\ store[j].retries + 1 <= RetryLimit
                       /\ repairs[j] = store[j].retries
  <2>1. \A j \in again : j \in Requested(k) /\ ~(store[j].retries + 1 > RetryLimit)
    BY DEF GivenUp
  <2>2. \A j \in Outstanding : store[j].retries \in 0..RetryLimit /\ repairs[j] = store[j].retries
    BY DEF TypeOK, Entry, RetryBudget
  <2> QED
    BY <1>2, <2>1, <2>2, LlrAssumption
<1> HIDE DEF gone, again
<1>5. TypeOK'
  <2>1. store' \in [DOMAIN store' -> Entry] /\ DOMAIN store' \subseteq Key
    BY <1>1, <1>2, <1>4, LlrAssumption DEF TypeOK, Entry, Retried, Outstanding
  <2>2. repairs' \in [Key -> 0..RetryLimit]
    BY <1>1, <1>4, LlrAssumption DEF TypeOK
  <2> QED
    BY <1>1, <1>2, <2>1, <2>2 DEF TypeOK, Outstanding
<1>6. RetryBudget'
  <2>1. DOMAIN store' = Outstanding \ gone
    BY <1>1
  <2>2. \A j \in lost' : repairs'[j] = RetryLimit /\ j \notin DOMAIN store'
    <3> SUFFICES ASSUME NEW j \in lost'
                 PROVE  repairs'[j] = RetryLimit /\ j \notin DOMAIN store'
      OBVIOUS
    <3>1. j \in Key /\ j \notin again
      BY <1>1, <1>2 DEF TypeOK, RetryBudget, again
    <3> QED
      BY <1>1, <1>3, <2>1, <3>1 DEF RetryBudget
  <2>3. \A j \in DOMAIN store' : repairs'[j] = store'[j].retries
    BY <1>1, <1>4, <2>1 DEF RetryBudget, Retried, TypeOK
  <2> QED
    BY <2>2, <2>3 DEF RetryBudget, Outstanding
<1>7. NotSentYet'
  BY <1>1, <1>2 DEF NotSentYet, Outstanding
<1>8. CopiesAccounted'
  <2>1. MaxBufferSize > 0 => Cardinality(copies') <= MaxBufferSize
    BY <1>1, FewerCopies
  <2>2. copies' \subseteq Outstanding'
    BY <1>1 DEF CopiesAccounted, Outstanding
  <2> QED
    BY <2>1, <2>2 DEF CopiesAccounted
<1> QED
  BY <1>5, <1>6, <1>7, <1>8

LEMMA SendKeeps ==
    ASSUME IInv, NEW f \in Flow, Send(f)
    PROVE  IInv'
<1> DEFINE k == <<f, nextSeq[f]>>
           fresh == [retries |-> 0, wireArmed |-> FALSE, timer |-> FALSE]
<1> USE DEF IInv
<1>1. /\ nextSeq[f] < conf.load[f]
      /\ nextSeq' = [nextSeq EXCEPT ![f] = @ + 1]
      /\ store' = [j \in Outstanding \cup {k} |-> IF j = k THEN fresh ELSE store[j]]
      /\ copies' \in CopiesAfterStore(copies, k)
      /\ UNCHANGED <<conf, inNet, arrived, repairs, lost>>
  BY DEF Send
<1>2. nextSeq[f] \in 0..LastSeq /\ k \in Key
  <2>1. conf.load[f] \in 0..(LastSeq + 1) /\ nextSeq[f] \in 0..(LastSeq + 1)
    BY LlrAssumption DEF TypeOK, Configuration
  <2> QED
    BY <1>1, <2>1, LlrAssumption DEF Key
<1>3. k \notin Outstanding /\ k \notin lost /\ repairs[k] = 0
  BY <1>2, LlrAssumption DEF NotSentYet
<1>4. fresh \in Entry
  BY LlrAssumption DEF Entry
<1>5. copies' \subseteq copies \cup {k} /\ (MaxBufferSize > 0 => Cardinality(copies') <= MaxBufferSize)
  <2>1. IsFiniteSet(copies)
    BY KeysFinite, FS_Subset DEF TypeOK
  <2> QED
    BY <1>1, <2>1, StoreKeepsLimit DEF CopiesAccounted
<1>6. TypeOK'
  <2>1. nextSeq' \in [Flow -> 0..(LastSeq + 1)]
    BY <1>1, <1>2, LlrAssumption DEF TypeOK
  <2> QED
    BY <1>1, <1>2, <1>4, <1>5, <2>1 DEF TypeOK, Outstanding
<1>7. RetryBudget'
  BY <1>1, <1>3 DEF RetryBudget, Outstanding
<1>8. NotSentYet'
  <2> SUFFICES ASSUME NEW j \in Key, j[2] >= nextSeq'[j[1]]
               PROVE  j \notin DOMAIN store' /\ j \notin lost' /\ repairs'[j] = 0
    BY DEF NotSentYet, Outstanding
  <2>1. j[1] \in Flow /\ j[2] \in Nat /\ nextSeq \in [Flow -> 0..(LastSeq + 1)]
    BY LlrAssumption DEF Key, TypeOK
  <2>2. j[2] >= nextSeq[j[1]] /\ j # k
    BY <1>1, <2>1, LlrAssumption
  <2> QED
    BY <1>1, <2>2 DEF NotSentYet, Outstanding
<1>9. CopiesAccounted'
  BY <1>1, <1>5 DEF CopiesAccounted, Outstanding
<1> QED
  BY <1>6, <1>7, <1>8, <1>9

\* A step that only moves timers.
LEMMA TimersKeep ==
    ASSUME IInv, inNet' \in [Key -> Nat],
           store' \in [DOMAIN store -> Entry],
           \A j \in DOMAIN store : store'[j].retries = store[j].retries,
           copies' \subseteq DOMAIN store,
           MaxBufferSize > 0 => Cardinality(copies') <= MaxBufferSize,
           UNCHANGED <<conf, nextSeq, arrived, repairs, lost>>
    PROVE  IInv'
<1> USE DEF IInv
<1>1. DOMAIN store' = DOMAIN store
  OBVIOUS
<1>2. TypeOK'
  BY <1>1 DEF TypeOK, Outstanding
<1>3. RetryBudget'
  BY <1>1 DEF RetryBudget, Outstanding
<1>4. NotSentYet' /\ CopiesAccounted'
  BY <1>1 DEF NotSentYet, CopiesAccounted, Outstanding
<1> QED
  BY <1>2, <1>3, <1>4

LEMMA OnWireKeeps ==
    ASSUME IInv, NEW f \in Flow, OnWire(f)
    PROVE  IInv'
<1> DEFINE k == <<f, Head(egress[f])>>
<1>1. /\ store' = ArmRetryTimeoutAtTransmission(k)
      /\ inNet' = [inNet EXCEPT ![k] = @ + 1]
      /\ UNCHANGED <<conf, copies, nextSeq, arrived, repairs, lost>>
  BY DEF OnWire
<1> HIDE DEF k
<1>2. inNet' \in [Key -> Nat]
  <2>1. inNet \in [Key -> Nat]
    BY DEF IInv, TypeOK
  <2>2. inNet' = [x \in Key |-> IF x = k THEN inNet[k] + 1 ELSE inNet[x]]
    BY <1>1, <2>1
  <2> QED
    BY <2>1, <2>2
<1>3. /\ store' \in [DOMAIN store -> Entry]
      /\ \A j \in DOMAIN store : store'[j].retries = store[j].retries
  BY <1>1 DEF IInv, TypeOK, ArmRetryTimeoutAtTransmission, Entry, Outstanding
<1> QED
  BY <1>1, <1>2, <1>3, TimersKeep DEF IInv, CopiesAccounted, Outstanding

LEMMA TimeoutKeeps ==
    ASSUME IInv, NEW k \in Key, Timeout(k)
    PROVE  IInv'
<1>1. inNet' \in [Key -> Nat]
  BY DEF IInv, TypeOK, Timeout, OnRetryTimeout
<1>2. CASE Handle(k)
  BY <1>1, <1>2, HandleKeeps
<1>3. CASE /\ store' = [store EXCEPT ![k].timer = FALSE]
           /\ UNCHANGED <<conf, copies, egress, reloads, nextSeq, arrived, repairs, lost>>
  <2>1. /\ store' \in [DOMAIN store -> Entry]
        /\ \A j \in DOMAIN store : store'[j].retries = store[j].retries
    BY <1>3 DEF IInv, TypeOK, Entry, Outstanding
  <2> QED
    BY <1>1, <1>3, <2>1, TimersKeep DEF IInv, CopiesAccounted, Outstanding
<1> QED
  BY <1>2, <1>3 DEF Timeout, OnRetryTimeout

LEMMA ReloadKeeps ==
    ASSUME IInv, Reload
    PROVE  IInv'
<1> DEFINE k == Head(reloads)[1]
           sourceReload == Head(reloads)[2]
<1>1. inNet' \in [Key -> Nat] /\ UNCHANGED <<conf, nextSeq, arrived, repairs, lost>>
  BY DEF IInv, TypeOK, Reload
<1>2. CASE UNCHANGED <<store, copies>>
  BY <1>1, <1>2, TimersKeep DEF IInv, TypeOK, CopiesAccounted, Outstanding
<1>3. CASE /\ k \in Outstanding
           /\ store' = [store EXCEPT ![k].timer = @ \/ store[k].wireArmed]
           /\ copies' \in CopiesAfterStore(copies, k)
  <2> HIDE DEF k
  <2>1. /\ store' \in [DOMAIN store -> Entry]
        /\ \A j \in DOMAIN store : store'[j].retries = store[j].retries
    BY <1>3 DEF IInv, TypeOK, Entry, Outstanding
  <2>2. IsFiniteSet(copies)
    BY KeysFinite, FS_Subset DEF IInv, TypeOK
  <2>3. copies' \subseteq copies \cup {k} /\ (MaxBufferSize > 0 => Cardinality(copies') <= MaxBufferSize)
    BY <1>3, <2>2, StoreKeepsLimit DEF IInv, CopiesAccounted
  <2> QED
    BY <1>1, <1>3, <2>1, <2>3, TimersKeep DEF IInv, CopiesAccounted, Outstanding
<1> QED
  BY <1>2, <1>3 DEF Reload

LEMMA NextIInv == IInv /\ [Next]_vars => IInv'
<1> SUFFICES ASSUME IInv, [Next]_vars PROVE IInv'
  OBVIOUS
<1>1. ASSUME NEW f \in Flow, Send(f) PROVE IInv'
  BY <1>1, SendKeeps
<1>2. ASSUME NEW f \in Flow, OnWire(f) PROVE IInv'
  BY <1>2, OnWireKeeps
<1>3. ASSUME NEW k \in Key, Ack(k) PROVE IInv'
  BY <1>3, RemoveKeeps DEF Ack
<1>4. ASSUME NEW k \in Key, AckUpTo(k) PROVE IInv'
  BY <1>4, RemoveKeeps DEF AckUpTo
<1>5. ASSUME NEW k \in Key, Nack(k) PROVE IInv'
  <2>1. inNet' \in [Key -> Nat]
    BY <1>5 DEF Nack, Answered, IInv, TypeOK
  <2> QED
    BY <1>5, <2>1, HandleKeeps DEF Nack
<1>6. ASSUME NEW k \in Key, Timeout(k) PROVE IInv'
  BY <1>6, TimeoutKeeps
<1>7. CASE Reload
  BY <1>7, ReloadKeeps
<1>8. CASE UNCHANGED vars
  BY <1>8 DEF vars, IInv, TypeOK, RetryBudget, CopiesAccounted, NotSentYet, Outstanding
<1> QED
  BY <1>1, <1>2, <1>3, <1>4, <1>5, <1>6, <1>7, <1>8 DEF Next

LEMMA InvariantHolds == Spec => []IInv
  BY InitIInv, NextIInv, PTL DEF Spec

-----------------------------------------------------------------------------

\* The store, the retry buffer and the verdicts stay well-formed; retry counts
\* never exceed m_retryLimit.
THEOREM LlrTypes == Spec => []TypeOK
  BY InvariantHolds, PTL DEF IInv

\* For any retry limit, HandleRetryRequest and HandleSackRequest give a packet
\* up after exactly that many retransmissions, whatever acknowledgements,
\* requests, timeouts and reloads precede.
THEOREM BudgetIsExact == Spec => []RetryBudget
  BY InvariantHolds, PTL DEF IInv

\* The retry buffer never outgrows its limit and holds copies of outstanding
\* packets only, under both overflow policies (EnforceBufferLimit).
THEOREM CopiesStayAccounted == Spec => []CopiesAccounted
  BY InvariantHolds, PTL DEF IInv

\* No step changes the entries of two flows.
LEMMA StepIsolated ==
    ASSUME IInv, Next, NEW j \in Key, NEW i \in Key, Touched(j), Touched(i)
    PROVE  j[1] = i[1]
<1>1. ASSUME NEW f \in Flow, Send(f) PROVE j[1] = i[1]
  <2>1. \A x \in Key : Touched(x) => x = <<f, nextSeq[f]>>
    BY <1>1 DEF Send, Touched, Outstanding
  <2> QED
    BY <2>1
<1>2. ASSUME NEW f \in Flow, OnWire(f) PROVE j[1] = i[1]
  <2>1. \A x \in Key : Touched(x) => x = <<f, Head(egress[f])>>
    BY <1>2 DEF OnWire, ArmRetryTimeoutAtTransmission, Touched, Outstanding
  <2> QED
    BY <2>1
<1>3. ASSUME NEW k \in Key, Ack(k) PROVE j[1] = i[1]
  <2>1. \A x \in Key : Touched(x) => x = k
    BY <1>3 DEF Ack, Remove, Without, Touched, Outstanding
  <2> QED
    BY <2>1
<1>4. ASSUME NEW k \in Key, AckUpTo(k) PROVE j[1] = i[1]
  <2>1. \A x \in Key : Touched(x) => x[1] = k[1]
    BY <1>4 DEF AckUpTo, Remove, Without, UpTo, Touched, Outstanding
  <2> QED
    BY <2>1
<1>5. ASSUME NEW k \in Key, Handle(k) PROVE j[1] = i[1]
  <2>1. \A x \in Requested(k) : x[1] = k[1]
    BY DEF Requested
  <2>2. \E gone, again \in SUBSET Requested(k) :
          store' = [x \in Outstanding \ gone |-> IF x \in again THEN Retried(store[x]) ELSE store[x]]
    <3>1. GivenUp(Requested(k)) \subseteq Requested(k)
      BY DEF GivenUp
    <3> QED
      BY <1>5, <3>1 DEF Handle
  <2>3. \A x \in Key : Touched(x) => x \in Requested(k)
    BY <2>2 DEF Touched, Outstanding
  <2> QED
    BY <2>1, <2>3
<1>6. ASSUME NEW k \in Key, Timeout(k) PROVE j[1] = i[1]
  <2>1. CASE store' = [store EXCEPT ![k].timer = FALSE]
    <3>1. \A x \in Key : Touched(x) => x = k
      BY <2>1 DEF Touched, Outstanding
    <3> QED
      BY <3>1
  <2> QED
    BY <1>5, <1>6, <2>1 DEF Timeout, OnRetryTimeout
<1>7. CASE Reload
  <2>1. \A x \in Key : Touched(x) => x = Head(reloads)[1]
    BY <1>7 DEF Reload, Touched, Outstanding
  <2> QED
    BY <2>1
<1> QED
  BY <1>1, <1>2, <1>3, <1>4, <1>5, <1>6, <1>7 DEF Next, Nack

\* The flows that share a retry manager are isolated from each other: no
\* acknowledgement, cumulative or not, no retry request and no timeout of one
\* flow changes an entry of another.
THEOREM FlowsStayIsolated == Spec => FlowsIsolated
<1>1. IInv /\ [Next]_vars =>
        [\A j, k \in Key : Touched(j) /\ Touched(k) => j[1] = k[1]]_vars
  BY StepIsolated
<1> QED
  BY <1>1, InvariantHolds, PTL DEF Spec, FlowsIsolated

-----------------------------------------------------------------------------
(* Nothing that is outstanding is forgotten: the queues before the wire.   *)

\* x stands somewhere in the queue q.
In(q, x) == \E i \in DOMAIN q : q[i] = x

LEMMA AppendHas ==
    ASSUME NEW S, NEW q \in Seq(S), NEW y \in S
    PROVE  /\ Append(q, y) \in Seq(S)
           /\ In(Append(q, y), y)
           /\ \A x : In(q, x) => In(Append(q, y), x)
<1>1. Append(q, y) \in Seq(S)
  OBVIOUS
<1>2. /\ Len(Append(q, y)) = Len(q) + 1 /\ Len(q) \in Nat
      /\ Append(q, y)[Len(q) + 1] = y
      /\ \A i \in 1..Len(q) : Append(q, y)[i] = q[i]
      /\ DOMAIN q = 1..Len(q) /\ DOMAIN Append(q, y) = 1..(Len(q) + 1)
  OBVIOUS
<1>3. Len(q) + 1 \in 1..(Len(q) + 1) /\ \A i \in 1..Len(q) : i \in 1..(Len(q) + 1)
  BY <1>2
<1> QED
  BY <1>1, <1>2, <1>3 DEF In

LEMMA TailHas ==
    ASSUME NEW S, NEW q \in Seq(S), q # <<>>
    PROVE  /\ Tail(q) \in Seq(S) /\ Head(q) \in S
           /\ \A x : In(q, x) => x = Head(q) \/ In(Tail(q), x)
<1>1. Tail(q) \in Seq(S) /\ Head(q) \in S /\ Head(q) = q[1]
  OBVIOUS
<1>2. /\ Len(q) \in Nat /\ Len(q) > 0 /\ Len(Tail(q)) = Len(q) - 1
      /\ \A i \in 1..(Len(q) - 1) : Tail(q)[i] = q[i + 1]
      /\ DOMAIN q = 1..Len(q) /\ DOMAIN Tail(q) = 1..(Len(q) - 1)
  OBVIOUS
<1>3. ASSUME NEW x, NEW i \in 1..Len(q), q[i] = x, x # Head(q)
      PROVE  In(Tail(q), x)
  <2>1. i - 1 \in 1..(Len(q) - 1) /\ (i - 1) + 1 = i
    BY <1>1, <1>2, <1>3
  <2> QED
    BY <1>2, <1>3, <2>1 DEF In
<1> QED
  BY <1>1, <1>2, <1>3 DEF In

LEMMA ConcatHas ==
    ASSUME NEW S, NEW p \in Seq(S), NEW q \in Seq(S)
    PROVE  /\ p \o q \in Seq(S)
           /\ \A x : In(p, x) \/ In(q, x) => In(p \o q, x)
<1>1. p \o q \in Seq(S)
  OBVIOUS
<1>2. /\ Len(p) \in Nat /\ Len(q) \in Nat
      /\ DOMAIN p = 1..Len(p) /\ DOMAIN q = 1..Len(q)
      /\ DOMAIN (p \o q) = 1..(Len(p) + Len(q))
      /\ \A i \in 1..Len(p) : (p \o q)[i] = p[i]
      /\ \A i \in 1..Len(q) : (p \o q)[Len(p) + i] = q[i]
  OBVIOUS
<1>3. ASSUME NEW x, In(p, x) PROVE In(p \o q, x)
  <2>1. PICK i \in 1..Len(p) : p[i] = x
    BY <1>2, <1>3 DEF In
  <2>2. i \in 1..(Len(p) + Len(q))
    BY <1>2
  <2> QED
    BY <1>2, <2>1, <2>2 DEF In
<1>4. ASSUME NEW x, In(q, x) PROVE In(p \o q, x)
  <2>1. PICK i \in 1..Len(q) : q[i] = x
    BY <1>2, <1>4 DEF In
  <2>2. Len(p) + i \in 1..(Len(p) + Len(q))
    BY <1>2
  <2> QED
    BY <1>2, <2>1, <2>2 DEF In
<1> QED
  BY <1>1, <1>3, <1>4

\* The packets of one flow can be listed in increasing order of their
\* numbers, and InOrder lists each of them.  (The rank of a packet among them
\* is a bijection to the positions.)
LEMMA InOrderLists ==
    ASSUME NEW keys \in SUBSET Key, NEW f, \A k \in keys : k[1] = f
    PROVE  /\ InOrder(keys) \in [1..Cardinality(keys) -> keys]
           /\ Cardinality(keys) \in Nat
           /\ \A k \in keys : \E i \in 1..Cardinality(keys) : InOrder(keys)[i] = k
<1> DEFINE n == Cardinality(keys)
           Below(k) == {j \in keys : j[2] < k[2]}
           rank == [k \in keys |-> Cardinality(Below(k)) + 1]
           Sorted(q) == \A i, j \in DOMAIN q : i < j => q[i][2] < q[j][2]
<1>1. IsFiniteSet(keys) /\ n \in Nat
  <2>1. IsFiniteSet(keys)
    BY KeysFinite, FS_Subset
  <2> QED
    BY <2>1, FS_CardinalityType
<1>2. \A k \in keys : k[2] \in Nat
  BY LlrAssumption DEF Key
<1>3. \A j, k \in keys : j[2] = k[2] => j = k
  BY DEF Key
<1>4. \A k \in keys : IsFiniteSet(Below(k)) /\ Cardinality(Below(k)) \in Nat
  <2> SUFFICES ASSUME NEW k \in keys
               PROVE  IsFiniteSet(Below(k)) /\ Cardinality(Below(k)) \in Nat
    OBVIOUS
  <2>1. Below(k) \in SUBSET keys
    OBVIOUS
  <2>2. IsFiniteSet(Below(k))
    BY <1>1, <2>1, FS_Subset
  <2> QED
    BY <2>2, FS_CardinalityType
<1>5. ASSUME NEW j \in keys, NEW k \in keys, j[2] < k[2]
      PROVE  rank[j] < rank[k]
  <2>1. Below(j) \cup {j} \in SUBSET Below(k)
    BY <1>2, <1>5
  <2>2. j \notin Below(j)
    BY <1>2
  <2>3. Cardinality(Below(j) \cup {j}) = Cardinality(Below(j)) + 1
    BY <1>4, <2>2, FS_AddElement
  <2>4. Cardinality(Below(j) \cup {j}) <= Cardinality(Below(k))
    BY <1>4, <2>1, FS_Subset
  <2> HIDE DEF Below
  <2>5. /\ rank[j] = Cardinality(Below(j)) + 1
        /\ rank[k] = Cardinality(Below(k)) + 1
    OBVIOUS
  <2> QED
    BY <1>4, <2>3, <2>4, <2>5
<1>6. ASSUME NEW k \in keys PROVE rank[k] \in 1..n
  <2>1. Below(k) \in SUBSET (keys \ {k})
    BY <1>2
  <2>2. IsFiniteSet(keys \ {k}) /\ Cardinality(keys \ {k}) = n - 1
    BY <1>1, FS_RemoveElement
  <2>3. Cardinality(Below(k)) <= Cardinality(keys \ {k})
    BY <2>1, <2>2, FS_Subset
  <2>4. rank[k] = Cardinality(Below(k)) + 1
    OBVIOUS
  <2> HIDE DEF Below, n, rank
  <2> QED
    BY <1>1, <1>4, <2>2, <2>3, <2>4
<1> HIDE DEF n, Below
<1>7. rank \in [keys -> 1..n]
  BY <1>6
<1> HIDE DEF rank
<1>8. \A j, k \in keys : rank[j] = rank[k] => j = k
  <2> SUFFICES ASSUME NEW j \in keys, NEW k \in keys, rank[j] = rank[k]
               PROVE  j = k
    OBVIOUS
  <2>1. rank[j] \in Int /\ rank[k] \in Int
    BY <1>6
  <2>2. ~(j[2] < k[2]) /\ ~(k[2] < j[2])
    BY <1>5, <2>1
  <2>3. j[2] = k[2]
    BY <1>2, <2>2
  <2> QED
    BY <1>3, <2>3
<1>9. IsFiniteSet(1..n) /\ Cardinality(1..n) = n
  BY <1>1, FS_Interval
<1>10. rank \in Surjection(keys, 1..n)
  <2>1. rank \in Injection(keys, 1..n)
    BY <1>7, <1>8 DEF Injection, IsInjective
  <2> QED
    BY <1>9, <2>1, FS_Injection DEF n
<1>11. \A i \in 1..n : \E k \in keys : rank[k] = i
  BY <1>10 DEF Surjection
<1> DEFINE q == [i \in 1..n |-> CHOOSE k \in keys : rank[k] = i]
<1>12. \A i \in 1..n : q[i] \in keys /\ rank[q[i]] = i
  BY <1>11
<1>13. q \in [1..n -> keys] /\ Sorted(q)
  <2>1. q \in [1..n -> keys] /\ DOMAIN q = 1..n
    BY <1>12
  <2> HIDE DEF q
  <2>2. ASSUME NEW i \in 1..n, NEW j \in 1..n, i < j PROVE q[i][2] < q[j][2]
    <3>1. q[i] \in keys /\ q[j] \in keys /\ rank[q[i]] = i /\ rank[q[j]] = j
      BY <1>12
    <3>2. ~(q[j][2] < q[i][2])
      BY <1>1, <1>5, <2>2, <3>1
    <3>3. q[i] # q[j]
      BY <1>1, <2>2, <3>1
    <3>4. q[i][2] # q[j][2]
      BY <1>3, <3>1, <3>3
    <3> QED
      BY <1>2, <3>1, <3>2, <3>4
  <2> QED
    BY <2>1, <2>2
<1> DEFINE r == InOrder(keys)
<1>14. r \in [1..n -> keys] /\ Sorted(r)
  <2> HIDE DEF q, Sorted
  <2>1. \E s \in [1..n -> keys] : Sorted(s)
    BY <1>13
  <2>2. r = CHOOSE s \in [1..n -> keys] : Sorted(s)
    BY DEF InOrder, n, Sorted
  <2> QED
    BY <2>1, <2>2
<1> HIDE DEF r
<1>15. r \in Injection(1..n, keys)
  <2>1. ASSUME NEW i \in 1..n, NEW j \in 1..n, r[i] = r[j] PROVE i = j
    <3>1. r[i] \in keys /\ DOMAIN r = 1..n
      BY <1>14
    <3>2. r[i][2] \in Nat
      BY <1>2, <3>1
    <3>3. ~(i < j) /\ ~(j < i)
      BY <1>14, <2>1, <3>1, <3>2
    <3> QED
      BY <1>1, <3>3
  <2> QED
    BY <1>14, <2>1 DEF Injection, IsInjective
<1>16. r \in Surjection(1..n, keys)
  BY <1>1, <1>9, <1>15, FS_Injection DEF n
<1> QED
  BY <1>1, <1>14, <1>16 DEF Surjection, r, n

QueueTypes ==
    /\ egress \in [Flow -> Seq(0..LastSeq)]
    /\ reloads \in Seq(Key \X BOOLEAN)

\* Something will act on k.
Watched(k) ==
    \/ store[k].timer
    \/ In(egress[k[1]], k[2])
    \/ \E b \in BOOLEAN : In(reloads, <<k, b>>)

AllWatched ==
    TimeoutRetransmit => \A k \in Outstanding : Watched(k)

WatchInv == QueueTypes /\ AllWatched

\* What was watched stays so while the queues only grow.
LEMMA QueuesGrow ==
    ASSUME NEW k,
           \A x : In(egress[k[1]], x) => In(egress'[k[1]], x),
           \A x : In(reloads, x) => In(reloads', x),
           store'[k] = store[k], Watched(k)
    PROVE  Watched(k)'
  BY DEF Watched

LEMMA SendWatches ==
    ASSUME IInv, WatchInv, NEW f \in Flow, Send(f)
    PROVE  WatchInv'
<1> DEFINE n == nextSeq[f]
           k == <<f, n>>
<1>1. /\ n < conf.load[f]
      /\ DOMAIN store' = Outstanding \cup {k}
      /\ \A j \in Outstanding : j # k => store'[j] = store[j]
      /\ egress' = [egress EXCEPT ![f] = Append(@, n)]
      /\ reloads' = reloads /\ conf' = conf
  BY DEF Send
<1>2. n \in 0..LastSeq
  <2>1. conf.load[f] \in 0..(LastSeq + 1) /\ n \in 0..(LastSeq + 1)
    BY LlrAssumption DEF IInv, TypeOK, Configuration
  <2> QED
    BY <1>1, <2>1, LlrAssumption
<1>3. /\ egress \in [Flow -> Seq(0..LastSeq)] /\ egress[f] \in Seq(0..LastSeq)
      /\ reloads \in Seq(Key \X BOOLEAN)
  BY DEF WatchInv, QueueTypes
<1> HIDE DEF n
<1>4. /\ Append(egress[f], n) \in Seq(0..LastSeq)
      /\ In(Append(egress[f], n), n)
      /\ \A x : In(egress[f], x) => In(Append(egress[f], n), x)
  BY <1>2, <1>3, AppendHas
<1>5. /\ egress'[f] = Append(egress[f], n)
      /\ \A g \in Flow : g # f => egress'[g] = egress[g]
      /\ egress' \in [Flow -> Seq(0..LastSeq)]
  BY <1>1, <1>3, <1>4
<1>6. QueueTypes'
  BY <1>1, <1>3, <1>5 DEF QueueTypes
<1>7. ASSUME TimeoutRetransmit', NEW j \in DOMAIN store' PROVE Watched(j)'
  <2>1. CASE j = k
    <3>1. j[1] = f /\ j[2] = n
      BY <2>1
    <3> QED
      BY <1>4, <1>5, <3>1 DEF Watched
  <2>2. CASE j # k
    <3>1. j \in Outstanding /\ j[1] \in Flow
      BY <1>1, <2>2 DEF IInv, TypeOK, Key
    <3>2. Watched(j)
      BY <1>1, <1>7, <3>1 DEF WatchInv, AllWatched, TimeoutRetransmit
    <3>3. \A x : In(egress[j[1]], x) => In(egress'[j[1]], x)
      BY <1>4, <1>5, <3>1
    <3>4. store'[j] = store[j] /\ reloads' = reloads
      BY <1>1, <2>2, <3>1
    <3> QED
      BY <3>2, <3>3, <3>4, QueuesGrow
  <2> QED
    BY <2>1, <2>2
<1> QED
  BY <1>6, <1>7 DEF WatchInv, AllWatched, Outstanding

LEMMA OnWireWatches ==
    ASSUME IInv, WatchInv, NEW f \in Flow, OnWire(f)
    PROVE  WatchInv'
<1> DEFINE n == Head(egress[f])
           k == <<f, n>>
<1>1. /\ egress[f] # <<>>
      /\ egress' = [egress EXCEPT ![f] = Tail(@)]
      /\ store' = ArmRetryTimeoutAtTransmission(k)
      /\ reloads' = reloads /\ conf' = conf
  BY DEF OnWire
<1>2. /\ egress \in [Flow -> Seq(0..LastSeq)] /\ egress[f] \in Seq(0..LastSeq)
      /\ reloads \in Seq(Key \X BOOLEAN)
  BY DEF WatchInv, QueueTypes
<1>3. /\ Tail(egress[f]) \in Seq(0..LastSeq) /\ n \in 0..LastSeq
      /\ \A x : In(egress[f], x) => x = n \/ In(Tail(egress[f]), x)
  BY <1>1, <1>2, TailHas
<1> HIDE DEF n
<1>4. /\ egress'[f] = Tail(egress[f])
      /\ \A g \in Flow : g # f => egress'[g] = egress[g]
      /\ egress' \in [Flow -> Seq(0..LastSeq)]
  BY <1>1, <1>2, <1>3
<1>5. /\ DOMAIN store' = DOMAIN store
      /\ \A j \in DOMAIN store : j # k => store'[j] = store[j]
      /\ k \in DOMAIN store => store'[k].timer
  BY <1>1 DEF IInv, TypeOK, Entry, ArmRetryTimeoutAtTransmission, Outstanding
<1>6. QueueTypes'
  BY <1>1, <1>2, <1>4 DEF QueueTypes
<1>7. ASSUME TimeoutRetransmit', NEW j \in DOMAIN store' PROVE Watched(j)'
  <2>1. CASE j = k
    BY <1>5, <2>1 DEF Watched
  <2>2. CASE j # k
    <3>1. j \in Outstanding /\ j[1] \in Flow /\ j = <<j[1], j[2]>>
      BY <1>5 DEF IInv, TypeOK, Key, Outstanding
    <3>2. Watched(j)
      BY <1>1, <1>7, <3>1 DEF WatchInv, AllWatched, TimeoutRetransmit
    <3>3. In(egress[j[1]], j[2]) => In(egress'[j[1]], j[2])
      <4>1. CASE j[1] = f
        <5>1. j[2] # n
          BY <2>2, <3>1, <4>1
        <5> QED
          BY <1>3, <1>4, <4>1, <5>1
      <4>2. CASE j[1] # f
        BY <1>4, <3>1, <4>2
      <4> QED
        BY <4>1, <4>2
    <3>4. store'[j] = store[j] /\ reloads' = reloads
      BY <1>1, <1>5, <2>2, <3>1 DEF Outstanding
    <3> QED
      BY <3>2, <3>3, <3>4 DEF Watched
  <2> QED
    BY <2>1, <2>2
<1> QED
  BY <1>6, <1>7 DEF WatchInv, AllWatched, Outstanding

\* An acknowledgement takes entries away and leaves the queues alone.
LEMMA RemoveWatches ==
    ASSUME WatchInv, NEW keys, Remove(keys), UNCHANGED <<conf, egress, reloads>>
    PROVE  WatchInv'
<1>1. /\ DOMAIN store' \subseteq Outstanding
      /\ \A j \in DOMAIN store' : store'[j] = store[j]
  BY DEF Remove, Without, Outstanding
<1>2. QueueTypes'
  BY DEF WatchInv, QueueTypes
<1>3. ASSUME TimeoutRetransmit', NEW j \in DOMAIN store' PROVE Watched(j)'
  <2>1. Watched(j)
    BY <1>1, <1>3 DEF WatchInv, AllWatched, TimeoutRetransmit
  <2> QED
    BY <1>1, <2>1 DEF Watched
<1> QED
  BY <1>2, <1>3 DEF WatchInv, AllWatched, Outstanding

\* A retry request puts every packet it retransmits into a queue.
LEMMA HandleWatches ==
    ASSUME IInv, WatchInv, NEW k \in Key, Handle(k)
    PROVE  WatchInv'
<1> DEFINE keys    == Requested(k)
           gone    == GivenUp(keys)
           again   == keys \ gone
           prompt  == {j \in again : \A i \in again : i[2] <= j[2] => i \in copies}
           rest    == again \ prompt
           late    == InOrder(rest)
           numbers == [i \in 1..Cardinality(prompt) |-> InOrder(prompt)[i][2]]
           held    == [i \in DOMAIN late |-> <<late[i], late[i] \notin copies>>]
           f       == k[1]
<1>1. /\ store' = [j \in Outstanding \ gone |->
                     IF j \in again THEN Retried(store[j]) ELSE store[j]]
      /\ egress' = [egress EXCEPT ![f] = @ \o numbers]
      /\ reloads' = reloads \o held
      /\ conf' = conf
  BY DEF Handle
<1>2. again \in SUBSET Key /\ \A j \in again : j[1] = f
  BY DEF Requested, IInv, TypeOK
<1> HIDE DEF keys, gone, again
<1>3. /\ prompt \in SUBSET Key /\ rest \in SUBSET Key
      /\ \A j \in prompt : j[1] = f
      /\ \A j \in rest : j[1] = f
  BY <1>2
<1>4. again = prompt \cup rest
  OBVIOUS
<1> HIDE DEF prompt, rest
<1>5. /\ numbers \in Seq(0..LastSeq)
      /\ \A j \in prompt : In(numbers, j[2])
  <2> DEFINE q == InOrder(prompt)
             n == Cardinality(prompt)
  <2>1. /\ q \in [1..n -> prompt] /\ n \in Nat
        /\ \A j \in prompt : \E i \in 1..n : q[i] = j
    BY <1>3, InOrderLists
  <2>2. numbers = [i \in 1..n |-> q[i][2]]
    OBVIOUS
  <2> HIDE DEF q, n, numbers
  <2>3. \A i \in 1..n : q[i][2] \in 0..LastSeq
    BY <1>3, <2>1 DEF Key
  <2>4. numbers \in Seq(0..LastSeq) /\ DOMAIN numbers = 1..n
    BY <2>1, <2>2, <2>3
  <2> QED
    BY <2>1, <2>2, <2>4 DEF In
<1>6. /\ held \in Seq(Key \X BOOLEAN)
      /\ \A j \in rest : \E b \in BOOLEAN : In(held, <<j, b>>)
  <2> DEFINE n == Cardinality(rest)
  <2>1. /\ late \in [1..n -> rest] /\ n \in Nat
        /\ \A j \in rest : \E i \in 1..n : late[i] = j
    BY <1>3, InOrderLists
  <2> HIDE DEF late, n
  <2>2. \A i \in 1..n : <<late[i], late[i] \notin copies>> \in Key \X BOOLEAN
    BY <1>3, <2>1
  <2>3. held \in [1..n -> Key \X BOOLEAN] /\ DOMAIN held = 1..n
    BY <2>1, <2>2
  <2>4. held \in Seq(Key \X BOOLEAN)
    BY <2>1, <2>3
  <2>5. ASSUME NEW j \in rest PROVE \E b \in BOOLEAN : In(held, <<j, b>>)
    <3>1. PICK i \in 1..n : late[i] = j
      BY <2>1
    <3>2. held[i] = <<j, j \notin copies>> /\ (j \notin copies) \in BOOLEAN
      BY <2>1, <3>1
    <3> QED
      BY <2>3, <3>2 DEF In
  <2> QED
    BY <2>4, <2>5
<1> HIDE DEF numbers, held
<1>7. /\ egress \in [Flow -> Seq(0..LastSeq)] /\ f \in Flow
      /\ egress[f] \in Seq(0..LastSeq)
      /\ reloads \in Seq(Key \X BOOLEAN)
  BY DEF WatchInv, QueueTypes, Key
<1> HIDE DEF f
<1>8. /\ egress[f] \o numbers \in Seq(0..LastSeq)
      /\ \A x : In(egress[f], x) \/ In(numbers, x) => In(egress[f] \o numbers, x)
  BY <1>5, <1>7, ConcatHas
<1>9. /\ reloads \o held \in Seq(Key \X BOOLEAN)
      /\ \A x : In(reloads, x) \/ In(held, x) => In(reloads \o held, x)
  BY <1>6, <1>7, ConcatHas
<1>10. /\ egress'[f] = egress[f] \o numbers
       /\ \A g \in Flow : g # f => egress'[g] = egress[g]
       /\ egress' \in [Flow -> Seq(0..LastSeq)]
  BY <1>1, <1>7, <1>8
<1>11. QueueTypes'
  BY <1>1, <1>9, <1>10 DEF QueueTypes
<1>12. ASSUME TimeoutRetransmit', NEW j \in DOMAIN store' PROVE Watched(j)'
  <2>1. CASE j \in prompt
    <3>1. j[1] = f /\ In(numbers, j[2])
      BY <1>3, <1>5, <2>1
    <3> QED
      BY <1>8, <1>10, <3>1 DEF Watched
  <2>2. CASE j \in rest
    <3>1. PICK b \in BOOLEAN : In(held, <<j, b>>)
      BY <1>6, <2>2
    <3>2. In(reloads', <<j, b>>)
      BY <1>1, <1>9, <3>1
    <3> QED
      BY <3>2 DEF Watched
  <2>3. CASE j \notin again
    <3>1. j \in Outstanding /\ j[1] \in Flow /\ store'[j] = store[j]
      BY <1>1, <2>3 DEF IInv, TypeOK, Key
    <3>2. Watched(j)
      BY <1>1, <1>12, <3>1 DEF WatchInv, AllWatched, TimeoutRetransmit
    <3>3. \A x : In(egress[j[1]], x) => In(egress'[j[1]], x)
      BY <1>8, <1>10, <3>1
    <3>4. \A x : In(reloads, x) => In(reloads', x)
      BY <1>1, <1>9
    <3> QED
      BY <3>1, <3>2, <3>3, <3>4, QueuesGrow
  <2> QED
    BY <1>4, <2>1, <2>2, <2>3
<1> QED
  BY <1>11, <1>12 DEF WatchInv, AllWatched, Outstanding

LEMMA TimeoutWatches ==
    ASSUME IInv, WatchInv, NEW k \in Key, Timeout(k)
    PROVE  WatchInv'
<1>1. CASE Handle(k)
  BY <1>1, HandleWatches
<1>2. CASE ~TimeoutRetransmit /\ UNCHANGED <<conf, egress, reloads>>
  BY <1>2 DEF WatchInv, QueueTypes, AllWatched, TimeoutRetransmit
<1> QED
  BY <1>1, <1>2 DEF Timeout, OnRetryTimeout

LEMMA ReloadWatches ==
    ASSUME IInv, WatchInv, Reload
    PROVE  WatchInv'
<1> DEFINE k == Head(reloads)[1]
<1>1. /\ reloads # <<>> /\ reloads' = Tail(reloads) /\ conf' = conf
      /\ egress' = IF k \in Outstanding
                     THEN [egress EXCEPT ![k[1]] = Append(@, k[2])] ELSE egress
      /\ \/ store' = store
         \/ k \in Outstanding /\ store' = [store EXCEPT ![k].timer = @ \/ store[k].wireArmed]
  BY DEF Reload
<1>2. /\ egress \in [Flow -> Seq(0..LastSeq)]
      /\ reloads \in Seq(Key \X BOOLEAN)
  BY DEF WatchInv, QueueTypes
<1>3. /\ Tail(reloads) \in Seq(Key \X BOOLEAN) /\ Head(reloads) \in Key \X BOOLEAN
      /\ \A x : In(reloads, x) => x = Head(reloads) \/ In(Tail(reloads), x)
  BY <1>1, <1>2, TailHas
<1>4. k \in Key /\ \A j, b : <<j, b>> = Head(reloads) => j = k
  BY <1>3
<1>5. \A j, b : In(reloads, <<j, b>>) /\ j # k => In(reloads', <<j, b>>)
  BY <1>1, <1>3, <1>4
<1> HIDE DEF k
<1>6. k[1] \in Flow /\ k[2] \in 0..LastSeq /\ egress[k[1]] \in Seq(0..LastSeq)
  BY <1>2, <1>4 DEF Key
<1>7. /\ Append(egress[k[1]], k[2]) \in Seq(0..LastSeq)
      /\ In(Append(egress[k[1]], k[2]), k[2])
      /\ \A x : In(egress[k[1]], x) => In(Append(egress[k[1]], k[2]), x)
  <2> DEFINE q == egress[k[1]]
             y == k[2]
  <2>1. q \in Seq(0..LastSeq) /\ y \in 0..LastSeq
    BY <1>6
  <2> HIDE DEF q, y
  <2>2. /\ Append(q, y) \in Seq(0..LastSeq)
        /\ In(Append(q, y), y)
        /\ \A x : In(q, x) => In(Append(q, y), x)
    BY <2>1, AppendHas
  <2> QED
    BY <2>2 DEF q, y
<1>8. /\ egress' \in [Flow -> Seq(0..LastSeq)]
      /\ k \in Outstanding => egress'[k[1]] = Append(egress[k[1]], k[2])
      /\ \A g \in Flow : \A x : In(egress[g], x) => In(egress'[g], x)
  <2>1. CASE k \in Outstanding
    <3>1. /\ egress'[k[1]] = Append(egress[k[1]], k[2])
          /\ \A g \in Flow : g # k[1] => egress'[g] = egress[g]
          /\ egress' \in [Flow -> Seq(0..LastSeq)]
      BY <1>1, <1>2, <1>6, <1>7, <2>1
    <3> QED
      BY <1>7, <3>1
  <2>2. CASE k \notin Outstanding
    BY <1>1, <1>2, <2>2
  <2> QED
    BY <2>1, <2>2
<1>9. DOMAIN store' = DOMAIN store /\ \A j \in DOMAIN store : j # k => store'[j] = store[j]
  BY <1>1
<1>10. QueueTypes'
  BY <1>1, <1>3, <1>8 DEF QueueTypes
<1>11. ASSUME TimeoutRetransmit', NEW j \in DOMAIN store' PROVE Watched(j)'
  <2>1. j \in Outstanding /\ j[1] \in Flow
    BY <1>9 DEF IInv, TypeOK, Key, Outstanding
  <2>2. CASE j = k
    BY <1>7, <1>8, <2>1, <2>2 DEF Watched
  <2>3. CASE j # k
    <3>1. Watched(j)
      BY <1>1, <1>11, <2>1 DEF WatchInv, AllWatched, TimeoutRetransmit
    <3>2. store'[j] = store[j]
      BY <1>9, <2>1, <2>3 DEF Outstanding
    <3> QED
      BY <1>5, <1>8, <2>1, <2>3, <3>1, <3>2 DEF Watched
  <2> QED
    BY <2>2, <2>3
<1> QED
  BY <1>10, <1>11 DEF WatchInv, AllWatched, Outstanding

LEMMA NextWatches == IInv /\ WatchInv /\ [Next]_vars => WatchInv'
<1> SUFFICES ASSUME IInv, WatchInv, [Next]_vars PROVE WatchInv'
  OBVIOUS
<1>1. ASSUME NEW f \in Flow, Send(f) \/ OnWire(f) PROVE WatchInv'
  BY <1>1, SendWatches, OnWireWatches
<1>2. ASSUME NEW k \in Key, Ack(k) \/ AckUpTo(k) PROVE WatchInv'
  BY <1>2, RemoveWatches DEF Ack, AckUpTo
<1>3. ASSUME NEW k \in Key, Nack(k) PROVE WatchInv'
  BY <1>3, HandleWatches DEF Nack
<1>4. ASSUME NEW k \in Key, Timeout(k) PROVE WatchInv'
  BY <1>4, TimeoutWatches
<1>5. CASE Reload
  BY <1>5, ReloadWatches
<1>6. CASE UNCHANGED vars
  BY <1>6 DEF vars, WatchInv, QueueTypes, AllWatched, Watched, Outstanding, TimeoutRetransmit
<1> QED
  BY <1>1, <1>2, <1>3, <1>4, <1>5, <1>6 DEF Next

\* With the timeout backstop no outstanding packet is ever without something
\* that will act on it, although its copy may be evicted or refused, its
\* timer is cancelled on each retransmission and acknowledgements race the
\* queues before the wire.
THEOREM NothingStranded == Spec => []NeverStranded
<1>1. Init => WatchInv
  BY DEF Init, WatchInv, QueueTypes, AllWatched, Outstanding
<1>2. WatchInv => NeverStranded
  <2> SUFFICES ASSUME WatchInv, TimeoutRetransmit, NEW k \in Outstanding
               PROVE  \/ store[k].timer
                      \/ \E i \in DOMAIN egress[k[1]] : egress[k[1]][i] = k[2]
                      \/ \E i \in DOMAIN reloads : reloads[i][1] = k
    BY DEF NeverStranded
  <2>1. Watched(k)
    BY DEF WatchInv, AllWatched
  <2>2. ASSUME NEW b \in BOOLEAN, In(reloads, <<k, b>>)
        PROVE  \E i \in DOMAIN reloads : reloads[i][1] = k
    BY <2>2 DEF In
  <2> QED
    BY <2>1, <2>2 DEF Watched, In
<1> QED
  BY <1>1, <1>2, NextWatches, InvariantHolds, PTL DEF Spec
=============================================================================
