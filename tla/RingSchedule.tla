---------------------------- MODULE RingSchedule -----------------------------
(***************************************************************************)
(* Who sends what to whom in a ring all-reduce (ring-allreduce.cc).  A     *)
(* ring is a record:                                                       *)
(*                                                                         *)
(*   next            GetRingNext of each rank: the clockwise neighbour the *)
(*                   topology embeds (rank arithmetic if it embeds none)   *)
(*   dataSize        m_dataSize                                            *)
(*   useTransaction  m_useTransactionModel                                 *)
(*                                                                         *)
(* The first N-1 steps reduce and scatter, clockwise; the other N-1 gather *)
(* counterclockwise.                                                       *)
(***************************************************************************)
EXTENDS Integers, FiniteSets

Ranks(ring) == DOMAIN ring.next
NumGpus(ring) == Cardinality(Ranks(ring))
TotalSteps(ring) == 2 * (NumGpus(ring) - 1)
IsReduceScatterStep(ring, s) == s < NumGpus(ring) - 1

GetSendTarget(ring, gpu, s) ==
    IF IsReduceScatterStep(ring, s) THEN ring.next[gpu]
    ELSE CHOOSE h \in Ranks(ring) : ring.next[h] = gpu

\* Mutant of RingPos: the position is the rank.
RingPosIsRank(ring, gpu) == gpu

\* ComputeRingPositions: the walk along next from rank 0, which the topology
\* helpers make a single cycle.
RingPos(ring, gpu) ==
    LET Walk[i \in Nat] == IF i = 0 THEN 0 ELSE ring.next[Walk[i - 1]]
    IN  CHOOSE i \in 0..(NumGpus(ring) - 1) : Walk[i] = gpu

\* SegmentSizeOf's idx: the segment gpu sends in step s.
SegmentOf(ring, gpu, s) ==
    LET n == NumGpus(ring) IN
    IF s < n - 1 THEN (RingPos(ring, gpu) + n - (s % n)) % n
    ELSE (RingPos(ring, gpu) + s + 2) % n

\* The segment grid of Initialize: the first dataSize % n segments are one
\* byte longer; with less than a byte each, every segment is the whole data.
SegmentSizeOf(ring, gpu, s) ==
    LET n == NumGpus(ring) IN
    IF ring.dataSize \div n = 0 THEN ring.dataSize
    ELSE ring.dataSize \div n
           + (IF SegmentOf(ring, gpu, s) < ring.dataSize % n THEN 1 ELSE 0)

\* The rank whose step s send targets dest.
SenderTo(ring, dest, s) == CHOOSE g \in Ranks(ring) : GetSendTarget(ring, g, s) = dest

\* What dest must receive in step s.
StepExpectedBytes(ring, dest, s) == SegmentSizeOf(ring, SenderTo(ring, dest, s), s)
=============================================================================
