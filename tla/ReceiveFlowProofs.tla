-------------------------- MODULE ReceiveFlowProofs --------------------------
(***************************************************************************)
(* For every number of packets and every buffer size the receive side of a *)
(* flow tells the application about each sequence number once and in order *)
(* (ReceiveFlow implements InOrderDelivery), and never waits for a number  *)
(* that was taken or declared lost.                                        *)
(***************************************************************************)
EXTENDS ReceiveFlow, ReorderBufferProofs, FiniteSetTheorems

-----------------------------------------------------------------------------

\* What is parked has arrived and what is marked has been declared.
Provenance == Parked(rb) \subseteq arrived /\ rb.gaps \subseteq declared

\* The drain loop stopped before nothing that is ready.
NothingReadyWaits == rb.expected \notin Parked(rb) \cup rb.gaps

IInv == TypeOK /\ NothingReadyWaits /\ Provenance

\* Every drain of a well-formed buffer whose parked packets have arrived and
\* whose gaps are declared re-establishes the invariant and is a step of the
\* promise.
LEMMA DrainStep ==
    ASSUME TypeOK, Provenance,
           NEW b \in BufferType, b.expected = rb.expected,
           NEW extra \in SUBSET SeqNum,
           Drain(b, extra),
           arrived' \subseteq SeqNum, taken' \subseteq SeqNum, declared' \subseteq SeqNum,
           arrived \subseteq arrived', declared \subseteq declared',
           Parked(b) \subseteq arrived', b.gaps \subseteq declared'
    PROVE  IInv' /\ Promise!Next
<1> DEFINE stop == StopsAt(b)
<1>1. /\ stop \in rb.expected .. SeqBound
      /\ \A m \in rb.expected .. (stop - 1) : m \in Parked(b) \cup b.gaps
  BY StopsAtFirst
<1>2. /\ rb' \in BufferType
      /\ rb'.expected = stop
      /\ rb'.expected \notin Parked(rb') \cup rb'.gaps
  BY DrainedBuffer DEF Drain
<1>3. Passed(b) = rb.expected .. (stop - 1)
  BY DEF Passed
<1>4. rb.expected \in 0..SeqBound /\ DOMAIN told = 0..(rb.expected - 1)
  BY DEF TypeOK, BufferType
<1> HIDE DEF stop
<1>5. DOMAIN told \cup Passed(b) = 0..(stop - 1)
  BY <1>1, <1>3, <1>4, ReorderAssumption
<1>6. told' \in [0..(stop - 1) -> Outcome]
  BY <1>4, <1>5 DEF Drain, TypeOK, Outcome
<1>7. Delivers(b) \subseteq SeqNum
  BY <1>1, <1>3, <1>4, ReorderAssumption DEF Delivers, SeqNum
<1>8. TypeOK'
  BY <1>2, <1>6, <1>7 DEF TypeOK, Drain
<1>9. Provenance'
  <2>1. Parked(rb') \subseteq Parked(b) /\ rb'.gaps \subseteq b.gaps
    BY DEF Drain, DeliverReady, Parked
  <2> QED
    BY <2>1 DEF Provenance
<1>10. Promise!Next
  <2>1. \A s \in DOMAIN told : told'[s] = told[s]
    BY DEF Drain
  <2>2. ASSUME NEW s \in DOMAIN told' \ DOMAIN told
        PROVE  IF told'[s] = "data" THEN s \in arrived' ELSE s \in declared'
    <3>1. s \in Passed(b) /\ told'[s] = IF s \in Skips(b) THEN "lost" ELSE "data"
      BY <2>2 DEF Drain
    <3>2. s \in Parked(b) \cup b.gaps
      BY <3>1, <1>1, <1>3
    <3> QED
      BY <3>1, <3>2 DEF Skips
  <2>3. DOMAIN told' = 0..(stop - 1) /\ DOMAIN told \subseteq DOMAIN told'
    BY <1>5, <1>6
  <2>4. stop \in 0..SeqBound
    BY <1>1, <1>4, ReorderAssumption
  <2> QED
    BY <1>6, <2>1, <2>2, <2>3, <2>4 DEF Promise!Next, Promise!Tell, Promise!Outcome, Outcome
<1> QED
  BY <1>2, <1>8, <1>9, <1>10 DEF IInv, NothingReadyWaits

LEMMA InitIInv == Init => IInv /\ Promise!Init
  BY ReorderAssumption
  DEF Init, IInv, TypeOK, NothingReadyWaits, Provenance, EmptyBuffer, BufferType,
      Parked, Outcome, Promise!Init

\* One step of the flow keeps the invariant and is a step of the promise or
\* leaves what it speaks of unchanged.
LEMMA NextStep ==
    IInv /\ [Next]_vars => IInv' /\ [Promise!Next]_<<arrived, declared, told>>
<1> SUFFICES ASSUME IInv, [Next]_vars
             PROVE  IInv' /\ [Promise!Next]_<<arrived, declared, told>>
  OBVIOUS
<1>1. TypeOK /\ Provenance /\ rb \in BufferType
  BY DEF IInv, TypeOK
<1>2. ASSUME NEW s \in SeqNum, ProcessDataPacket(s)
      PROVE  IInv' /\ Promise!Next
  <2> DEFINE b == Inserted(rb, s)
  <2>1. /\ b \in BufferType
        /\ b.expected = rb.expected
        /\ Parked(b) \subseteq Parked(rb) \cup {s}
        /\ b.gaps = rb.gaps
    BY <1>1 DEF Inserted, BufferType, Parked
  <2>2. Drain(b, Answer(s)) /\ arrived' = arrived \cup {s} /\ declared' = declared
    BY <1>2 DEF ProcessDataPacket
  <2>3. Answer(s) \in SUBSET SeqNum
    BY <1>2 DEF Answer
  <2>4. arrived' \subseteq SeqNum /\ taken' \subseteq SeqNum /\ declared' \subseteq SeqNum
    BY <1>1, <1>2, <2>2 DEF TypeOK, ProcessDataPacket
  <2>5. Parked(b) \subseteq arrived' /\ b.gaps \subseteq declared'
    BY <1>1, <2>1, <2>2 DEF Provenance
  <2> HIDE DEF b
  <2> QED
    BY <1>1, <2>1, <2>2, <2>3, <2>4, <2>5, DrainStep
<1>3. ASSUME NEW s \in SeqNum, ProcessPermanentLossNotice(s)
      PROVE  IInv' /\ Promise!Next
  <2> DEFINE b == GapMarked(rb, s)
  <2>1. /\ b \in BufferType
        /\ b.expected = rb.expected
        /\ Parked(b) = Parked(rb)
        /\ b.gaps = rb.gaps \cup {s}
    BY <1>1 DEF GapMarked, BufferType, Parked
  <2>2. Drain(b, {}) /\ arrived' = arrived /\ declared' = declared \cup {s}
    BY <1>3 DEF ProcessPermanentLossNotice
  <2>3. arrived' \subseteq SeqNum /\ taken' \subseteq SeqNum /\ declared' \subseteq SeqNum
    BY <1>1, <1>3, <2>2 DEF TypeOK, ProcessPermanentLossNotice
  <2>4. Parked(b) \subseteq arrived' /\ b.gaps \subseteq declared'
    BY <1>1, <2>1, <2>2 DEF Provenance
  <2> HIDE DEF b
  <2> QED
    BY <1>1, <2>1, <2>2, <2>3, <2>4, DrainStep
<1>4. CASE UNCHANGED vars
  BY <1>4 DEF vars, IInv, TypeOK, NothingReadyWaits, Provenance
<1> QED
  BY <1>2, <1>3, <1>4 DEF Next

\* The buffer keeps its shape and what the application was told is exactly
\* the numbers below m_expectedSeq.
THEOREM ReceiveTypes == Spec => []TypeOK
<1>1. IInv => TypeOK
  BY DEF IInv
<1> QED
  BY <1>1, InitIInv, NextStep, PTL DEF Spec

\* The receive side of a flow implements InOrderDelivery.
THEOREM FlowKeepsPromise == Spec => DeliversInOrder
  BY InitIInv, NextStep, PTL DEF Spec, DeliversInOrder, Promise!Spec

-----------------------------------------------------------------------------

AckInv == DoneIsPast(rb) /\ AckedIsSafe

LEMMA AckStep == IInv /\ AckInv /\ [Next]_vars => AckInv'
<1> SUFFICES ASSUME IInv, AckInv, [Next]_vars PROVE AckInv'
  OBVIOUS
<1>1. rb \in BufferType /\ acked \subseteq SeqNum /\ DoneIsPast(rb)
      /\ \A s \in acked : Safe(rb, s)
  BY DEF IInv, TypeOK, AckInv, AckedIsSafe, Safe
<1>2. ASSUME NEW b \in BufferType, NEW extra,
             DoneIsPast(b), Drain(b, extra),
             \A s \in acked : Safe(b, s),
             \A s \in extra : Safe(DeliverReady(b), s)
      PROVE  AckInv'
  <2>1. /\ DoneIsPast(rb')
        /\ \A s \in acked : Safe(rb', s)
        /\ \A s \in Delivers(b) : Safe(rb', s)
    BY <1>1, <1>2, DrainKeepsSafe DEF Drain
  <2>2. \A s \in acked' : Safe(rb', s)
    BY <1>2, <2>1 DEF Drain
  <2> QED
    BY <2>1, <2>2 DEF AckInv, AckedIsSafe, DoneIsPast, Safe
<1>3. ASSUME NEW s \in SeqNum, ProcessDataPacket(s) PROVE AckInv'
  <2> DEFINE b == Inserted(rb, s)
  <2>1. b \in BufferType /\ DoneIsPast(b) /\ \A t \in acked : Safe(b, t)
    BY <1>1 DEF Inserted, BufferType, DoneIsPast, Safe, Parked
  <2>2. Drain(b, Answer(s))
    BY <1>3 DEF ProcessDataPacket
  <2>3. ASSUME NEW t \in Answer(s) PROVE Safe(DeliverReady(b), t)
    <3>1. t = s /\ b = rb /\ IsDuplicate(DeliverReady(rb), s)
      BY <2>3 DEF Answer, Inserted
    <3> QED
      BY <1>1, <3>1, DrainKeepsSafe DEF IsDuplicate, Safe
  <2> HIDE DEF b
  <2> QED
    BY <1>2, <2>1, <2>2, <2>3
<1>4. ASSUME NEW s \in SeqNum, ProcessPermanentLossNotice(s) PROVE AckInv'
  <2> DEFINE b == GapMarked(rb, s)
  <2>1. b \in BufferType /\ DoneIsPast(b) /\ \A t \in acked : Safe(b, t)
    BY <1>1 DEF GapMarked, BufferType, DoneIsPast, Safe, Parked
  <2>2. Drain(b, {})
    BY <1>4 DEF ProcessPermanentLossNotice
  <2> HIDE DEF b
  <2> QED
    BY <1>2, <2>1, <2>2
<1>5. CASE UNCHANGED vars
  BY <1>5 DEF vars, AckInv, DoneIsPast, AckedIsSafe
<1> QED
  BY <1>3, <1>4, <1>5 DEF Next

\* The endpoint never acknowledges a packet it has neither passed on, nor
\* holds, nor reported lost, so the sender may drop its copy on the ACK.
THEOREM AcksAreSafe == Spec => []AckedIsSafe
<1>1. Init => AckInv
  BY DEF Init, AckInv, DoneIsPast, AckedIsSafe, EmptyBuffer
<1>2. AckInv => AckedIsSafe
  BY DEF AckInv
<1> QED
  BY <1>1, <1>2, AckStep, InitIInv, NextStep, PTL DEF Spec

-----------------------------------------------------------------------------

\* The buffer forgets nothing it is told: a number Insert took is settled or
\* parked, one declared lost is settled or still marked.
NothingForgotten ==
    /\ DoneIsPast(rb)
    /\ \A s \in taken : Safe(rb, s)
    /\ \A s \in declared : s < rb.expected \/ s \in rb.gaps

LEMMA ForgetsNothing == IInv /\ NothingForgotten /\ [Next]_vars => NothingForgotten'
<1> SUFFICES ASSUME IInv, NothingForgotten, [Next]_vars PROVE NothingForgotten'
  OBVIOUS
<1>1. rb \in BufferType /\ taken \subseteq SeqNum /\ declared \subseteq SeqNum
  BY DEF IInv, TypeOK
<1>2. ASSUME NEW b \in BufferType, NEW extra, DoneIsPast(b), Drain(b, extra),
             taken' \subseteq SeqNum, declared' \subseteq SeqNum,
             \A s \in taken' : Safe(b, s),
             \A s \in declared' : s < b.expected \/ s \in b.gaps
      PROVE  NothingForgotten'
  <2>1. DoneIsPast(rb') /\ \A s \in taken' : Safe(rb', s)
    BY <1>2, DrainKeepsSafe DEF Drain
  <2>2. b.expected \in Int /\ StopsAt(b) \in Int /\ b.expected <= StopsAt(b)
        /\ SeqNum \subseteq Int
    BY StopsAtFirst, ReorderAssumption DEF BufferType, SeqNum
  <2>3. rb'.expected = StopsAt(b) /\ rb'.gaps = {g \in b.gaps : g >= StopsAt(b)}
    BY <1>2 DEF Drain, DeliverReady
  <2>4. \A s \in declared' : s < rb'.expected \/ s \in rb'.gaps
    BY <1>2, <2>2, <2>3
  <2> QED
    BY <2>1, <2>4 DEF NothingForgotten, DoneIsPast, Safe
<1>3. ASSUME NEW s \in SeqNum, ProcessDataPacket(s) PROVE NothingForgotten'
  <2> DEFINE b == Inserted(rb, s)
  <2>1. /\ b \in BufferType /\ b.expected = rb.expected /\ b.gaps = rb.gaps
        /\ b.done = rb.done
        /\ b.held = IF Accepts(rb, s) THEN rb.held \cup {s} ELSE rb.held
    BY <1>1 DEF Inserted, BufferType
  <2>2. DoneIsPast(b) /\ \A t \in taken : Safe(b, t)
    BY <2>1 DEF NothingForgotten, DoneIsPast, Safe, Parked
  <2>3. Accepts(rb, s) => Safe(b, s)
    <3>1. rb.expected \in Int /\ s \in Int
      BY <1>1, ReorderAssumption DEF BufferType, SeqNum
    <3>2. Accepts(rb, s) => s \in b.held /\ s \notin rb.done
      BY <2>1, <3>1 DEF Accepts, IsDuplicate, NothingForgotten, DoneIsPast
    <3> QED
      BY <2>1, <3>2 DEF Safe, Parked
  <2>4. /\ taken' = IF Accepts(rb, s) THEN taken \cup {s} ELSE taken
        /\ declared' = declared /\ Drain(b, Answer(s))
    BY <1>3 DEF ProcessDataPacket
  <2>5. \A t \in taken' : Safe(b, t)
    BY <2>2, <2>3, <2>4
  <2>6. \A t \in declared' : t < b.expected \/ t \in b.gaps
    BY <2>1, <2>4 DEF NothingForgotten
  <2> HIDE DEF b
  <2> QED
    BY <1>1, <1>2, <2>1, <2>2, <2>4, <2>5, <2>6
<1>4. ASSUME NEW s \in SeqNum, ProcessPermanentLossNotice(s) PROVE NothingForgotten'
  <2> DEFINE b == GapMarked(rb, s)
  <2>1. /\ b \in BufferType /\ b.expected = rb.expected /\ b.gaps = rb.gaps \cup {s}
        /\ b.done = rb.done /\ b.held = rb.held
    BY <1>1 DEF GapMarked, BufferType
  <2>2. taken' = taken /\ declared' = declared \cup {s} /\ Drain(b, {})
    BY <1>4 DEF ProcessPermanentLossNotice
  <2>3. DoneIsPast(b) /\ \A t \in taken' : Safe(b, t)
    BY <2>1, <2>2 DEF NothingForgotten, DoneIsPast, Safe, Parked
  <2>4. \A t \in declared' : t < b.expected \/ t \in b.gaps
    BY <2>1, <2>2 DEF NothingForgotten
  <2> HIDE DEF b
  <2> QED
    BY <1>1, <1>2, <2>1, <2>2, <2>3, <2>4
<1>5. CASE UNCHANGED vars
  BY <1>5 DEF vars, NothingForgotten, DoneIsPast, Safe
<1> QED
  BY <1>3, <1>4, <1>5 DEF Next

\* The receive callback waits only for a number that was neither taken nor
\* declared lost: whatever else is in the buffer, once every number up to s is
\* there s has been reported.
THEOREM NothingHeldBack == Spec => []WaitsOnlyForMissing
<1>1. Init => NothingForgotten
  BY DEF Init, NothingForgotten, DoneIsPast, EmptyBuffer
<1>2. IInv /\ NothingForgotten => WaitsOnlyForMissing
  <2> SUFFICES ASSUME IInv, NothingForgotten, NEW s \in SeqNum,
                      0..s \subseteq taken \cup declared
               PROVE  s \in DOMAIN told
    BY DEF WaitsOnlyForMissing
  <2>1. rb.expected \in Nat /\ s \in Nat /\ DOMAIN told = 0..(rb.expected - 1)
    BY ReorderAssumption DEF IInv, TypeOK, BufferType, SeqNum
  <2>2. SUFFICES ASSUME rb.expected <= s PROVE FALSE
    BY <2>1
  <2>3. rb.expected \in taken \cup declared
    BY <2>1, <2>2
  <2>4. rb.expected \in Parked(rb) \cup rb.gaps
    BY <2>1, <2>3 DEF NothingForgotten, Safe
  <2> QED
    BY <2>4 DEF IInv, NothingReadyWaits
<1> QED
  BY <1>1, <1>2, ForgetsNothing, InitIInv, NextStep, PTL DEF Spec

-----------------------------------------------------------------------------

\* While no number both arrived and was declared lost, every entry waits for
\* an earlier number, and there are no more of them than slots.
SlotsClean ==
    arrived \cap declared = {} => AllWait(rb) /\ WithinCapacity

LEMMA SeqNumFinite == \A T \in SUBSET SeqNum : IsFiniteSet(T)
<1>1. 0 \in Int /\ SeqBound - 1 \in Int
  BY ReorderAssumption
<1>2. IsFiniteSet(SeqNum)
  BY <1>1, FS_Interval DEF SeqNum
<1> QED
  BY <1>2, FS_Subset

\* One packet more fits when Insert took it as one of the future.
LEMMA OneMore ==
    ASSUME NEW T \in SUBSET SeqNum, NEW s \in SeqNum, Cardinality(T) < MaxBufferSize
    PROVE  Cardinality(T \cup {s}) <= MaxBufferSize
<1>1. IsFiniteSet(T)
  BY SeqNumFinite
<1>2. Cardinality(T) \in Nat
  BY <1>1, FS_CardinalityType
<1>3. Cardinality(T \cup {s}) = IF s \in T THEN Cardinality(T) ELSE Cardinality(T) + 1
  BY <1>1, FS_AddElement
<1> QED
  BY <1>2, <1>3, ReorderAssumption

\* A drain never adds an entry.
LEMMA FewerEntries ==
    ASSUME NEW T \in SUBSET SeqNum, NEW U \in SUBSET T, Cardinality(T) <= MaxBufferSize
    PROVE  Cardinality(U) <= MaxBufferSize
<1>1. IsFiniteSet(T)
  BY SeqNumFinite
<1>2. IsFiniteSet(U) /\ Cardinality(U) <= Cardinality(T)
  BY <1>1, FS_Subset
<1>3. Cardinality(T) \in Nat /\ Cardinality(U) \in Nat
  BY <1>1, <1>2, FS_CardinalityType
<1> QED
  BY <1>2, <1>3, ReorderAssumption

LEMMA SlotsStep == IInv /\ SlotsClean /\ [Next]_vars => SlotsClean'
<1> SUFFICES ASSUME IInv, SlotsClean, [Next]_vars, arrived' \cap declared' = {}
             PROVE  AllWait(rb') /\ Cardinality(rb'.held) <= MaxBufferSize
  BY DEF SlotsClean, WithinCapacity
<1>1. arrived \subseteq arrived' /\ declared \subseteq declared'
  BY DEF Next, ProcessDataPacket, ProcessPermanentLossNotice, vars
<1>2. /\ rb \in BufferType /\ rb.held \subseteq SeqNum
      /\ rb.expected \in Nat /\ SeqNum \subseteq Nat
  BY ReorderAssumption DEF IInv, TypeOK, BufferType, SeqNum
<1>3. AllWait(rb) /\ Cardinality(rb.held) <= MaxBufferSize
  BY <1>1 DEF SlotsClean, WithinCapacity
<1>4. \A t \in rb.held : t >= rb.expected
  <2>1. rb.expected \in Int /\ rb.held \subseteq Int
    BY ReorderAssumption DEF IInv, TypeOK, BufferType, SeqNum
  <2>2. \A t \in rb.held : t > rb.expected
    BY <1>3 DEF AllWait
  <2> QED
    BY <2>1, <2>2
<1>5. rb.held \subseteq arrived /\ rb.gaps \subseteq declared
  BY <1>3 DEF IInv, Provenance, Parked, AllWait
<1>6. ASSUME NEW s \in SeqNum, ProcessDataPacket(s)
      PROVE  AllWait(rb') /\ Cardinality(rb'.held) <= MaxBufferSize
  <2> DEFINE b == Inserted(rb, s)
  <2>1. /\ rb' = DeliverReady(b)
        /\ arrived' = arrived \cup {s} /\ declared' = declared
    BY <1>6 DEF ProcessDataPacket, Drain
  <2>2. /\ b \in BufferType /\ b.expected = rb.expected
        /\ b.done = {} /\ b.gaps = rb.gaps
        /\ b.held = IF Accepts(rb, s) THEN rb.held \cup {s} ELSE rb.held
    BY <1>2, <1>3 DEF Inserted, BufferType, AllWait
  <2>3. b.held \subseteq arrived'
    BY <1>5, <2>1, <2>2
  <2>4. b.held \cap b.gaps = {}
    BY <1>5, <2>1, <2>2, <2>3
  <2>5. \A t \in b.held : t >= b.expected
    <3>1. Accepts(rb, s) => s >= rb.expected
      BY <1>2 DEF Accepts, IsDuplicate
    <3> QED
      BY <1>4, <2>2, <3>1
  <2> HIDE DEF b
  <2>6. AllWait(rb') /\ rb'.held = b.held \ Passed(b)
    BY <2>1, <2>2, <2>4, <2>5, DrainErases
  <2>7. Cardinality(rb'.held) <= MaxBufferSize
    <3>1. CASE Accepts(rb, s) /\ s # rb.expected
      <4>1. Cardinality(rb.held \cup {s}) <= MaxBufferSize
        BY <1>2, <3>1, OneMore DEF Accepts
      <4>2. rb.held \cup {s} \in SUBSET SeqNum /\ rb'.held \in SUBSET (rb.held \cup {s})
        BY <1>2, <2>2, <2>6, <3>1
      <4> QED
        BY <4>1, <4>2, FewerEntries
    <3>2. CASE Accepts(rb, s) /\ s = rb.expected
      <4>1. s \in Parked(b) /\ s = b.expected
        BY <2>2, <3>2 DEF Parked
      <4>2. s \in Passed(b)
        BY <1>2, <2>2, <4>1, StopsAtFirst, ReorderAssumption DEF Passed, BufferType
      <4>3. rb'.held \in SUBSET rb.held
        BY <2>2, <2>6, <3>2, <4>2
      <4> QED
        BY <1>2, <1>3, <4>3, FewerEntries
    <3>3. CASE ~Accepts(rb, s)
      BY <1>2, <1>3, <2>2, <2>6, <3>3, FewerEntries
    <3> QED
      BY <3>1, <3>2, <3>3
  <2> QED
    BY <2>6, <2>7
<1>7. ASSUME NEW s \in SeqNum, ProcessPermanentLossNotice(s)
      PROVE  AllWait(rb') /\ Cardinality(rb'.held) <= MaxBufferSize
  <2> DEFINE b == GapMarked(rb, s)
  <2>1. /\ rb' = DeliverReady(b)
        /\ arrived' = arrived /\ declared' = declared \cup {s}
    BY <1>7 DEF ProcessPermanentLossNotice, Drain
  <2>2. /\ b \in BufferType /\ b.expected = rb.expected
        /\ b.done = {} /\ b.gaps = rb.gaps \cup {s} /\ b.held = rb.held
    BY <1>2, <1>3 DEF GapMarked, BufferType, AllWait
  <2>3. b.held \cap b.gaps = {}
    BY <1>5, <2>1, <2>2
  <2>4. \A t \in b.held : t >= b.expected
    BY <1>4, <2>2
  <2> HIDE DEF b
  <2>5. AllWait(rb') /\ rb'.held = b.held \ Passed(b)
    BY <2>1, <2>2, <2>3, <2>4, DrainErases
  <2>6. Cardinality(rb'.held) <= MaxBufferSize
    BY <1>2, <1>3, <2>2, <2>5, FewerEntries
  <2> QED
    BY <2>5, <2>6
<1>8. CASE UNCHANGED vars
  BY <1>3, <1>8 DEF vars, AllWait
<1> QED
  BY <1>6, <1>7, <1>8 DEF Next

\* The clean-up of GetNextPacket frees the slot of every delivered packet and
\* Insert's rule keeps to the capacity, as long as no number that arrived is
\* declared lost as well (the run of ReceiveFlowLeak shows what happens then).
THEOREM SlotsStayAccounted == Spec => []SlotsAccounted
<1>1. Init => SlotsClean
  <2>1. Cardinality({}) = 0
    BY FS_EmptySet
  <2> QED
    BY <2>1, ReorderAssumption
    DEF Init, SlotsClean, AllWait, WithinCapacity, EmptyBuffer
<1>2. SlotsClean => SlotsAccounted
  BY DEF SlotsClean, SlotsAccounted, AllWait
<1> QED
  BY <1>1, <1>2, SlotsStep, InitIInv, NextStep, PTL DEF Spec
=============================================================================
