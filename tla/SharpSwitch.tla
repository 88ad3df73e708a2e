----------------------------- MODULE SharpSwitch -----------------------------
(***************************************************************************)
(* In-network collectives of NvSwitch: the ranks upload their data in      *)
(* fragments, the switch counts each rank's effective bytes and multicasts *)
(* the reduced (SHARP all-reduce) or gathered (NVLS all-gather) result     *)
(* when every rank's share is there, and repairs lost results on NACK.     *)
(*                                                                         *)
(* Fragments take different lanes, so they arrive in any order; one whose  *)
(* ACK is lost is sent again by the endpoint's retry manager and arrives a *)
(* second time, at any later time.  A padding fragment has no effective    *)
(* bytes.  Sizes are effective bytes; the wire bytes that only time a      *)
(* packet are left out, and the packets into which a partition is sprayed  *)
(* are one packet.                                                         *)
(***************************************************************************)
EXTENDS Integers, Sequences, FiniteSets, SequencesExt, FiniteSetsExt

CONSTANTS Confs,             \* the collectives
          ResultWindow,      \* SHARP_RESULT_WINDOW
          ResultGenerations, \* SHARP_RESULT_GENERATIONS
          ResultRetryLimit   \* SHARP_RESULT_RETRY_LIMIT

ASSUME ResultBounds ==
    /\ ResultWindow \in Nat \ {0}
    /\ ResultGenerations \in Nat \ {0}
    /\ ResultRetryLimit \in Nat

VARIABLES conf,     \* kind, flows, data size, partitions, fragments and faults
          m,        \* the switch
          uploads,  \* fragments on the way: [flow, rank, seq]
          rounds,   \* collectives each rank has started on each flow
          held,     \* result bytes each rank has received of each flow
          missing,  \* result packets lost, whose NACK is on the way
          faults,   \* packets lost so far
          arrived,  \* fragments that ever reached the switch
          output,   \* result bytes multicast on each flow
          finished  \* flows in the order their results were complete

vars == <<conf, m, uploads, rounds, held, missing, faults, arrived, output, finished>>

Ranks == 0 .. conf.threshold - 1

Flows == conf.flows

\* Fragment seq of a rank: its fragments repeat in every round.
EffectiveSize(r, seq) == conf.fragments[r][((seq - 1) % Len(conf.fragments[r])) + 1]

Init ==
    /\ conf \in Confs
    /\ m = [seen      |-> [f \in Flows |-> [r \in Ranks |-> {}]],     \* m_seenUploadSeqs
            known     |-> conf.registered,                            \* BuildRankPorts
            received  |-> [f \in Flows |-> [r \in {} |-> 0]],         \* m_all*ReceivedBytes
            chunks    |-> [f \in Flows |-> [r \in {} |-> <<>>]],      \* m_all*Buffer
            completed |-> [f \in Flows |-> 0],          \* m_allReduceCompletedPartitions
            done      |-> {},                           \* m_allReduceLegacyMulticastDone
            events    |-> <<>>,                         \* results being aggregated
            nextSeq   |-> [d \in Ranks \X Flows |-> 0], \* m_multicastSeqNums
            store     |-> [d \in {} |-> <<>>],          \* m_sharpResultStore
            order     |-> [d \in Ranks |-> <<>>]]       \* m_sharpCompletedFlows
    /\ uploads = {}
    /\ rounds = [f \in Flows |-> [r \in Ranks |-> 0]]
    /\ held = [d \in Ranks \X Flows |-> 0]
    /\ missing = {}
    /\ faults = 0
    /\ arrived = {}
    /\ output = [f \in Flows |-> 0]
    /\ finished = <<>>

-----------------------------------------------------------------------------
(* Uploads.                                                                *)

\* A retransmitted upload is no new contribution.
RegisterUploadSeq(s, u) == u.seq \notin s.seen[u.flow][u.rank]

\* An accepted upload enters the ledger and the chunk list of its rank.
Contributed(s, u) ==
    LET f == u.flow
        r == u.rank
        Old(g, none) == IF r \in DOMAIN g THEN g[r] ELSE none
    IN  [s EXCEPT !.seen[f][r] = @ \cup {u.seq},
                  !.known = @ \cup {r},
                  !.received[f] = [q \in DOMAIN @ \cup {r} |->
                      IF q = r THEN Old(@, 0) + EffectiveSize(r, u.seq) ELSE @[q]],
                  !.chunks[f] = [q \in DOMAIN @ \cup {r} |->
                      IF q = r THEN Append(Old(@, <<>>), EffectiveSize(r, u.seq)) ELSE @[q]]]

Scheduled(s, f, parts) == [s EXCEPT !.events = @ \o [i \in DOMAIN parts |->
                                        [flow |-> f, part |-> parts[i]]]]

Pipelined == conf.partitions >= 2 /\ conf.dataSize > 0

PartitionSize(k) ==
    LET size == conf.dataSize \div conf.partitions
    IN  IF k < conf.partitions THEN size ELSE conf.dataSize - size * (conf.partitions - 1)

\* The bytes every rank must have sent before partition k is reduced.
Required(k) == IF k < conf.partitions THEN k * (conf.dataSize \div conf.partitions)
                                      ELSE conf.dataSize

\* ProcessAllReduce, pipelined: each partition is scheduled when it completes.
ReducePartitions(s, f) ==
    LET complete == Max({k \in 0 .. conf.partitions :
                          \A j \in 1 .. k, r \in DOMAIN s.received[f] :
                            s.received[f][r] >= Required(j)})
    IN  [Scheduled(s, f, [i \in 1 .. Max({0, complete - s.completed[f]}) |-> s.completed[f] + i])
           EXCEPT !.completed[f] = complete]

\* Mutant of ReduceOnce: late padding repeats the multicast.
ReduceAgain(s, f) ==
    IF \A r \in DOMAIN s.received[f] : s.received[f][r] >= conf.dataSize
    THEN Scheduled(s, f, <<1>>) ELSE s

\* ProcessAllReduce, one multicast, which late padding must not repeat.
ReduceOnce(s, f) ==
    IF /\ \A r \in DOMAIN s.received[f] : s.received[f][r] >= conf.dataSize
       /\ f \notin s.done
    THEN [Scheduled(s, f, <<1>>) EXCEPT !.done = @ \cup {f}]
    ELSE s

\* The all-gather chunk of a rank, the first ones one byte longer.
Expected(r) ==
    conf.dataSize \div conf.threshold + (IF r < conf.dataSize % conf.threshold THEN 1 ELSE 0)

\* ProcessAllGather: ranks past the data size owe nothing and never upload.
Gather(s, f) ==
    LET sources   == DOMAIN s.received[f]
        satisfied == Cardinality(sources) + Max({0, conf.threshold - conf.dataSize})
    IN  IF /\ satisfied >= conf.threshold
           /\ conf.dataSize >= conf.threshold =>
                \A r \in sources : s.received[f][r] >= Expected(r)
        THEN Scheduled(s, f, <<1>>)
        ELSE s

Aggregated(s, f) ==
    IF conf.kind = "allgather" THEN Gather(s, f)
    ELSE IF Cardinality(DOMAIN s.received[f]) < conf.threshold THEN s
    ELSE IF Pipelined THEN ReducePartitions(s, f) ELSE ReduceOnce(s, f)

\* A rank starts a collective when it has the result of the one before.
StartRound(f, r) ==
    /\ rounds[f][r] < conf.rounds
    /\ held[r, f] >= rounds[f][r] * conf.dataSize
    /\ uploads' = uploads \cup
         {[flow |-> f, rank |-> r, seq |-> rounds[f][r] * Len(conf.fragments[r]) + i] :
            i \in DOMAIN conf.fragments[r]}
    /\ rounds' = [rounds EXCEPT ![f][r] = @ + 1]
    /\ UNCHANGED <<conf, m, held, missing, faults, arrived, output, finished>>

\* An upload arrives and is acknowledged; if the ACK is lost it comes again.
ReceiveUpload(u, ackLost) ==
    /\ ackLost => faults < conf.maxFaults
    /\ faults' = IF ackLost THEN faults + 1 ELSE faults
    /\ uploads' = IF ackLost THEN uploads ELSE uploads \ {u}
    /\ arrived' = arrived \cup {u}
    /\ m' = IF RegisterUploadSeq(m, u) THEN Aggregated(Contributed(m, u), u.flow) ELSE m
    /\ UNCHANGED <<conf, rounds, held, missing, output, finished>>

-----------------------------------------------------------------------------
(* Results.                                                                *)

\* StoreMulticastResult: the newest results of a destination and flow.
Stored(window, packets) ==
    LET all == window \o [i \in DOMAIN packets |->
                            [seq |-> packets[i].seq, size |-> packets[i].size, retransmits |-> 0]]
    IN  SubSeq(all, Max({1, Len(all) - ResultWindow + 1}), Len(all))

\* Mutant of Retained: the lowest flow is evicted, not the first to complete.
RetainedByNumber(order, f) ==
    LET all == SetToSortSeq(ToSet(order) \cup {f}, <)
    IN  SubSeq(all, Max({1, Len(all) - ResultGenerations + 1}), Len(all))

\* The flows whose windows a destination keeps, by completion, f the latest.
Retained(order, f) ==
    LET all == Append(SelectSeq(order, LAMBDA g : g # f), f)
    IN  SubSeq(all, Max({1, Len(all) - ResultGenerations + 1}), Len(all))

\* RetireSharpResultFlow: for each destination that has results of flow f.
Retired(s, f) ==
    LET order   == [d \in Ranks |-> IF <<d, f>> \in DOMAIN s.store
                                    THEN Retained(s.order[d], f) ELSE s.order[d]]
        Evicted(d) == (ToSet(s.order[d]) \cup {f}) \ ToSet(order[d])
        kept    == {k \in DOMAIN s.store : <<k[1], f>> \in DOMAIN s.store => k[2] \notin Evicted(k[1])}
    IN  [s EXCEPT !.order = order, !.store = [k \in kept |-> @[k]]]

\* Mutant of Forgotten: the record of the uploads is cleared too.
ForgottenWithSeen(s, f) ==
    [s EXCEPT !.received[f] = [r \in {} |-> 0], !.chunks[f] = [r \in {} |-> <<>>],
              !.completed[f] = 0, !.seen[f] = [r \in Ranks |-> {}]]

\* The flow's ledgers are cleared; the record of its uploads stays.
Forgotten(s, f) ==
    [s EXCEPT !.received[f] = [r \in {} |-> 0], !.chunks[f] = [r \in {} |-> <<>>],
              !.completed[f] = 0]

\* The sizes of the packets a result event may send, one sequence per choice of
\* the rank whose chunks shape the result (the first of an unordered map; an
\* empty one is dereferenced, so that the event has no outcome).
ResultSizes(e) ==
    LET buffer == m.chunks[e.flow]
    IN  IF conf.kind = "allgather"
        THEN {FlattenSeq([i \in 1 .. conf.threshold |->
                IF i - 1 \in DOMAIN buffer THEN buffer[i - 1] ELSE <<>>])}
        ELSE IF Pipelined THEN {SelectSeq(<<PartitionSize(e.part)>>, LAMBDA n : n > 0)}
        ELSE {buffer[r] : r \in DOMAIN buffer}

\* MulticastAllReducePartition, MulticastAllReduceResult and
\* MulticastAllGatherResult: to every rank whose ports are known, a packet of
\* each of the sizes.  The packets <<rank, index>> in lost do not arrive.
Multicast(sizes, lost) ==
    LET e         == Head(m.events)
        f         == e.flow
        Packet(d, i) == [dest |-> d, flow |-> f, seq |-> m.nextSeq[d, f] + i - 1, size |-> sizes[i]]
        To(k)     == k \in m.known \X {f}
        windows   == IF sizes = <<>> THEN {} ELSE m.known \X {f}
        Old(k)    == IF k \in DOMAIN m.store THEN m.store[k] ELSE <<>>
        last      == conf.kind = "allgather" \/ ~Pipelined \/ e.part = conf.partitions
        s         == [m EXCEPT
                       !.events  = Tail(@),
                       !.nextSeq = [k \in DOMAIN @ |-> IF To(k) THEN @[k] + Len(sizes) ELSE @[k]],
                       !.store   = [k \in DOMAIN @ \cup windows |->
                           IF To(k) THEN Stored(Old(k), [i \in DOMAIN sizes |-> Packet(k[1], i)])
                                    ELSE Old(k)]]
        Bytes(d)  == MapThenSumSet(LAMBDA i : sizes[i], {i \in DOMAIN sizes : <<d, i>> \notin lost})
    IN  /\ m' = IF last THEN Retired(Forgotten(s, f), f) ELSE s
        /\ missing' = missing \cup {Packet(p[1], p[2]) : p \in lost}
        /\ held' = [k \in DOMAIN held |-> IF To(k) THEN held[k] + Bytes(k[1]) ELSE held[k]]
        /\ output' = [output EXCEPT ![f] = @ + FoldSeq(+, 0, sizes)]
        /\ finished' = IF last THEN Append(finished, f) ELSE finished

SendResult ==
    /\ m.events # <<>>
    /\ \E sizes \in ResultSizes(Head(m.events)), n \in 0 .. conf.maxFaults - faults :
         \E lost \in kSubset(n, m.known \X DOMAIN sizes) :
           /\ Multicast(sizes, lost)
           /\ faults' = faults + n
    /\ UNCHANGED <<conf, uploads, rounds, arrived>>

\* The window of the flow that the NACK names still has the result.
InWindow(x) ==
    /\ <<x.dest, x.flow>> \in DOMAIN m.store
    /\ \E e \in ToSet(m.store[x.dest, x.flow]) : e.seq = x.seq

\* HandleSwitchNack: the stored result is sent again, and may be lost again.
\* A NACK whose window is gone, or whose result was repeated too often, has no
\* effect.
HandleSwitchNack(x, again) ==
    /\ InWindow(x)
    /\ LET key == <<x.dest, x.flow>>
           i   == CHOOSE j \in DOMAIN m.store[key] : m.store[key][j].seq = x.seq
       IN  /\ m.store[key][i].retransmits < ResultRetryLimit
           /\ m' = [m EXCEPT !.store[key][i].retransmits = @ + 1]
           /\ again => faults < conf.maxFaults
           /\ faults' = IF again THEN faults + 1 ELSE faults
           /\ missing' = IF again THEN missing ELSE missing \ {x}
           /\ held' = [held EXCEPT ![key] = IF again THEN @ ELSE @ + m.store[key][i].size]
    /\ UNCHANGED <<conf, uploads, rounds, arrived, output, finished>>

Next ==
    \/ \E f \in Flows, r \in Ranks : StartRound(f, r)
    \/ \E u \in uploads, ackLost \in BOOLEAN : ReceiveUpload(u, ackLost)
    \/ SendResult
    \/ \E x \in missing, again \in BOOLEAN : HandleSwitchNack(x, again)

Spec == Init /\ [][Next]_vars

\* The simulator runs every event; only so many packets are lost.
FairSpec == Spec /\ WF_vars(Next)

-----------------------------------------------------------------------------
(* Properties.                                                             *)

\* What is multicast was contributed: however uploads are repeated, delayed,
\* reordered or padded, the result bytes of a flow never exceed what distinct
\* fragments of every single rank have brought, in all rounds together; for an
\* all-gather each rank's part counts in proportion to its chunk.
ResultsBacked ==
    \A f \in Flows, r \in Ranks :
      LET brought == MapThenSumSet(LAMBDA u : EffectiveSize(u.rank, u.seq),
                                   {u \in arrived : u.flow = f /\ u.rank = r})
      IN  IF conf.kind = "allgather"
          THEN brought * conf.dataSize >= output[f] * Expected(r)
          ELSE brought >= output[f]

\* Fewer than ResultGenerations other flows have completed since flow f did.
Recent(f) ==
    LET since == SelectLastInSubSeq(finished, 1, Len(finished), LAMBDA g : g = f)
    IN  \/ f \notin ToSet(finished)
        \/ Cardinality(ToSet(SubSeq(finished, since + 1, Len(finished)))) < ResultGenerations

\* A result lost on the way to a rank can be repaired as long as its flow is in
\* flight or among the latest to complete (nvswitch.cc, RetireSharpResultFlow:
\* "a NACK racing the tail of delivery must find them"), and the repair is the
\* packet that was lost.
RecentRepairable ==
    \A x \in missing :
      Recent(x.flow) /\ x.seq >= m.nextSeq[x.dest, x.flow] - ResultWindow =>
        /\ <<x.dest, x.flow>> \in DOMAIN m.store
        /\ \E e \in ToSet(m.store[x.dest, x.flow]) : e.seq = x.seq /\ e.size = x.size

\* Every collective ends: each rank receives the whole result of every round,
\* once, unless a packet of it was lost and its flow retired before the NACK
\* came, and no result event is left that found its buffer empty.  Ranks whose
\* chunk is empty, which never upload, are served too.
EveryRankServed ==
    <>[](/\ m.events = <<>>
         /\ \A d \in Ranks, f \in Flows :
           \/ held[d, f] = conf.rounds * conf.dataSize
           \/ \E x \in missing : x.dest = d /\ x.flow = f /\ ~Recent(f))
=============================================================================
