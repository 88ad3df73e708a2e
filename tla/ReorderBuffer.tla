---------------------------- MODULE ReorderBuffer ----------------------------
(***************************************************************************)
(* The receive-side reorder buffer of one flow (reorder-buffer.cc) as a    *)
(* record and the operations on it:                                        *)
(*                                                                         *)
(*   expected  m_expectedSeq, the next sequence number to pass on          *)
(*   held      the keys of m_buffer                                        *)
(*   done      the keys whose entry is marked delivered but not yet erased *)
(*   gaps      m_permanentGaps, the numbers the sender gave up on          *)
(***************************************************************************)
EXTENDS Integers, FiniteSets

CONSTANTS
    SeqBound,      \* sequence numbers are 0..SeqBound-1 (the code wraps at 2^32)
    MaxBufferSize  \* m_maxBufferSize

ASSUME ReorderAssumption ==
    /\ SeqBound \in Nat
    /\ MaxBufferSize \in Nat

SeqNum == 0 .. (SeqBound - 1)

EmptyBuffer == [expected |-> 0, held |-> {}, done |-> {}, gaps |-> {}]

BufferType ==
    [expected : 0..SeqBound, held : SUBSET SeqNum,
     done : SUBSET SeqNum, gaps : SUBSET SeqNum]

\* Entries that still wait for delivery.
Parked(rb) == rb.held \ rb.done

IsDuplicate(rb, s) == s < rb.expected \/ s \in rb.held

\* Mutant of Accepts: one slot too many.
AcceptsOneMore(rb, s) ==
    ~IsDuplicate(rb, s) /\ (s = rb.expected \/ Cardinality(rb.held) <= MaxBufferSize)

\* Insert: the expected packet is taken even when the buffer is full, one
\* from the future only while there is room.
Accepts(rb, s) ==
    ~IsDuplicate(rb, s) /\ (s = rb.expected \/ Cardinality(rb.held) < MaxBufferSize)

Inserted(rb, s) == IF Accepts(rb, s) THEN [rb EXCEPT !.held = @ \cup {s}] ELSE rb

GapMarked(rb, s) == [rb EXCEPT !.gaps = @ \cup {s}]

\* Mutant of StopsAt: the loop does not skip gaps.
StopsAtGap(rb) ==
    CHOOSE n \in rb.expected .. SeqBound :
        /\ \A m \in rb.expected .. (n - 1) : m \in Parked(rb)
        /\ n \notin Parked(rb)

\* Where the loop of DeliverReadyPackets ends: at the first number that is
\* neither parked nor given up.
StopsAt(rb) ==
    CHOOSE n \in rb.expected .. SeqBound :
        /\ \A m \in rb.expected .. (n - 1) : m \in Parked(rb) \cup rb.gaps
        /\ n \notin Parked(rb) \cup rb.gaps

\* The numbers one run of DeliverReadyPackets passes on, in order; a gap wins
\* over an entry, for AdvancePastPermanentGaps runs first.
Passed(rb) == rb.expected .. (StopsAt(rb) - 1)
Delivers(rb) == Passed(rb) \ rb.gaps

\* Mutant of Skips: a gap is passed to the delivery callback.
SkipsNothing(rb) == {}

Skips(rb) == Passed(rb) \cap rb.gaps

\* Mutant of DeliverReady: the marks of later gaps go with those passed over.
DeliverReadyForgetsGaps(rb) ==
    LET done   == rb.done \cup Delivers(rb)
        parked == rb.held \ done
        erased == {s \in done : \A t \in parked : s < t}
    IN  [expected |-> StopsAt(rb),
         held     |-> rb.held \ erased,
         done     |-> done \ erased,
         gaps     |-> {}]

\* DeliverReadyPackets.  GetNextPacket erases delivered entries from the
\* front of the map and stops at the first entry that is not delivered.
DeliverReady(rb) ==
    LET done   == rb.done \cup Delivers(rb)
        parked == rb.held \ done
        erased == {s \in done : \A t \in parked : s < t}
    IN  [expected |-> StopsAt(rb),
         held     |-> rb.held \ erased,
         done     |-> done \ erased,
         gaps     |-> {g \in rb.gaps : g >= StopsAt(rb)}]
=============================================================================
