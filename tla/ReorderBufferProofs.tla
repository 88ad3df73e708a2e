------------------------- MODULE ReorderBufferProofs -------------------------
(***************************************************************************)
(* Facts about the operations of the reorder buffer (ReorderBuffer), for   *)
(* every buffer and every bound: the drain loop ends, leaves nothing that  *)
(* is ready, and loses nothing that was safe.  ReceiveFlowProofs and       *)
(* FabricLinkProofs rest on them.                                          *)
(***************************************************************************)
EXTENDS ReorderBuffer, WellFoundedInduction, TLAPS

\* Every nonempty set of natural numbers has a least element.
LEMMA LeastElement ==
    ASSUME NEW T \in SUBSET Nat, T # {}
    PROVE  \E n \in T : \A k \in T : n <= k
<1> DEFINE R == {ss \in Nat \X Nat : ss[1] < ss[2]}
<1>1. IsWellFoundedOn(R, Nat)
  BY NatLessThanWellFounded, Zenon DEF OpToRel
<1>2. \A x, y \in Nat : x < y => <<x, y>> \in R
  OBVIOUS
<1> HIDE DEF R
<1>3. \E n \in T : \A k \in T : ~(<<k, n>> \in R)
  BY <1>1, WFMin
<1>4. PICK n \in T : \A k \in T : ~(<<k, n>> \in R)
  BY <1>3
<1>5. \A k \in T : ~(k < n)
  BY <1>2, <1>4
<1> QED
  BY <1>5

\* The drain loop ends: there is a first number that is neither parked nor
\* given up, and StopsAt names it.
LEMMA StopsAtFirst ==
    ASSUME NEW b \in BufferType
    PROVE  /\ StopsAt(b) \in b.expected .. SeqBound
           /\ \A m \in b.expected .. (StopsAt(b) - 1) : m \in Parked(b) \cup b.gaps
           /\ StopsAt(b) \notin Parked(b) \cup b.gaps
<1> DEFINE ready == Parked(b) \cup b.gaps
           Stop(n) == /\ \A m \in b.expected .. (n - 1) : m \in ready
                      /\ n \notin ready
<1>1. b.expected \in 0..SeqBound /\ ready \subseteq SeqNum /\ SeqBound \in Nat
  BY ReorderAssumption DEF BufferType, Parked
<1>2. \E n \in b.expected .. SeqBound : Stop(n)
  <2> DEFINE T == {n \in Nat : n >= b.expected /\ n \notin ready}
  <2>1. SeqBound \in T
    BY <1>1 DEF SeqNum
  <2>2. PICK n \in T : \A k \in T : n <= k
    <3>1. T \in SUBSET Nat /\ T # {}
      BY <2>1
    <3> QED
      BY <3>1, LeastElement
  <2>3. n <= SeqBound
    BY <1>1, <2>1, <2>2
  <2>4. \A m \in b.expected .. (n - 1) : m \in ready
    BY <1>1, <2>2
  <2> QED
    BY <1>1, <2>2, <2>3, <2>4
<1>3. StopsAt(b) = CHOOSE n \in b.expected .. SeqBound : Stop(n)
  BY DEF StopsAt
<1> HIDE DEF Stop
<1>4. StopsAt(b) \in b.expected .. SeqBound /\ Stop(StopsAt(b))
  BY <1>2, <1>3
<1> QED
  BY <1>4 DEF Stop

\* Draining a buffer leaves a buffer in which nothing is ready.
LEMMA DrainedBuffer ==
    ASSUME NEW b \in BufferType
    PROVE  /\ DeliverReady(b) \in BufferType
           /\ DeliverReady(b).expected = StopsAt(b)
           /\ StopsAt(b) \notin Parked(DeliverReady(b)) \cup DeliverReady(b).gaps
<1>1. /\ StopsAt(b) \in b.expected .. SeqBound
      /\ \A m \in b.expected .. (StopsAt(b) - 1) : m \in Parked(b) \cup b.gaps
      /\ StopsAt(b) \notin Parked(b) \cup b.gaps
  BY StopsAtFirst
<1>2. b.expected \in 0..SeqBound /\ b.held \subseteq SeqNum
      /\ b.done \subseteq SeqNum /\ b.gaps \subseteq SeqNum
  BY DEF BufferType
<1>3. Delivers(b) \subseteq SeqNum
  BY <1>1, <1>2 DEF Delivers, Passed, Parked
<1>4. StopsAt(b) \in 0..SeqBound
  BY <1>1, <1>2, ReorderAssumption
<1>5. DeliverReady(b) \in BufferType
  BY <1>2, <1>3, <1>4 DEF DeliverReady, BufferType
<1>6. Parked(DeliverReady(b)) \subseteq Parked(b)
  BY DEF DeliverReady, Parked
<1>7. DeliverReady(b).gaps \subseteq b.gaps /\ DeliverReady(b).expected = StopsAt(b)
  BY DEF DeliverReady
<1> QED
  BY <1>1, <1>5, <1>6, <1>7

-----------------------------------------------------------------------------

\* Entries marked delivered are of the past.
DoneIsPast(b) == \A s \in b.done : s < b.expected

\* The endpoint has settled s, with buffer b, or still holds it.
Safe(b, s) == s < b.expected \/ s \in Parked(b)

\* A drain settles what it delivers and forgets nothing that is safe; what it
\* leaves in the map is settled or parked.
LEMMA DrainKeepsSafe ==
    ASSUME NEW b \in BufferType, DoneIsPast(b)
    PROVE  /\ DoneIsPast(DeliverReady(b))
           /\ \A s \in SeqNum : Safe(b, s) => Safe(DeliverReady(b), s)
           /\ \A s \in Delivers(b) : Safe(DeliverReady(b), s)
           /\ \A s \in DeliverReady(b).held : Safe(DeliverReady(b), s)
<1> DEFINE d == DeliverReady(b)
<1>1. b.expected \in Nat /\ b.done \subseteq Nat /\ StopsAt(b) \in Nat /\ b.expected <= StopsAt(b)
  BY StopsAtFirst, ReorderAssumption DEF BufferType, SeqNum
<1>2. d.expected = StopsAt(b)
  BY DEF DeliverReady
<1>3. \A s \in Delivers(b) : s < d.expected
  BY <1>1, <1>2 DEF Delivers, Passed
<1>4. d.done \subseteq b.done \cup Delivers(b)
  BY DEF DeliverReady
<1>5. DoneIsPast(d)
  BY <1>1, <1>2, <1>3, <1>4 DEF DoneIsPast
<1>6. Parked(b) \subseteq Delivers(b) \cup Parked(d)
  BY DEF DeliverReady, Parked
<1>7. ASSUME NEW s \in SeqNum, Safe(b, s) PROVE Safe(d, s)
  <2>1. CASE s < b.expected
    BY <1>1, <1>2, <2>1 DEF Safe, SeqNum
  <2>2. CASE s \in Parked(b)
    BY <1>3, <1>6, <2>2 DEF Safe
  <2> QED
    BY <1>7, <2>1, <2>2 DEF Safe
<1>8. \A s \in d.held : Safe(d, s)
  BY <1>5 DEF Safe, Parked, DoneIsPast
<1> QED
  BY <1>3, <1>5, <1>7, <1>8 DEF Safe

\* Every entry is parked and waits for an earlier number.
AllWait(b) == b.done = {} /\ \A s \in b.held : s > b.expected

\* When no entry has a gap's number, a drain erases every entry it delivers
\* (the clean-up of GetNextPacket leaves none behind) and what is left waits.
LEMMA DrainErases ==
    ASSUME NEW b \in BufferType, b.done = {}, b.held \cap b.gaps = {},
           \A s \in b.held : s >= b.expected
    PROVE  AllWait(DeliverReady(b)) /\ DeliverReady(b).held = b.held \ Passed(b)
<1> DEFINE d == DeliverReady(b)
<1>1. /\ b.expected \in Nat /\ b.held \subseteq Nat
      /\ StopsAt(b) \in Nat /\ StopsAt(b) >= b.expected
  BY StopsAtFirst, ReorderAssumption DEF BufferType, SeqNum
<1>2. /\ \A m \in Passed(b) : m \in b.held \cup b.gaps
      /\ StopsAt(b) \notin b.held
  BY StopsAtFirst DEF Parked, Passed
<1>3. \A s \in b.held : s \in Passed(b) <=> s < StopsAt(b)
  BY <1>1 DEF Passed
<1>4. Delivers(b) = b.held \cap Passed(b)
  BY <1>2 DEF Delivers
<1>5. \A s \in b.held \ Delivers(b) : s > StopsAt(b)
  BY <1>1, <1>2, <1>3, <1>4
<1>6. \A s \in Delivers(b), t \in b.held \ Delivers(b) : s < t
  BY <1>1, <1>3, <1>4, <1>5
<1>7. {s \in Delivers(b) : \A t \in b.held \ Delivers(b) : s < t} = Delivers(b)
  BY <1>6
<1>8. d.held = b.held \ Delivers(b) /\ d.done = {} /\ d.expected = StopsAt(b)
  BY <1>7 DEF DeliverReady
<1> QED
  BY <1>4, <1>5, <1>8 DEF AllWait
=============================================================================
