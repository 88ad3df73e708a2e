---------------------------- MODULE RdmaSubmission ----------------------------
(***************************************************************************)
(* The submission side of one RDMA initiator (RdmaSubmissionModel): the    *)
(* way of a work request from the call that submits it through source      *)
(* staging, the send queue of its queue pair, the batched doorbell, the    *)
(* fetch and the execution to the moderated completion the initiator       *)
(* observes, with Fence and Quiet over them.                               *)
(*                                                                         *)
(* The scheduled events of the code are the queues of the state m: an      *)
(* event that stands behind another of its queue never overtakes it,       *)
(* because every queue is served from one monotone ledger of times         *)
(* (m_d2hFree, publishFree, fetchFree, the constant CQ delay).  Across     *)
(* queues every order happens.  Sizes are counted in packets.              *)
(***************************************************************************)
EXTENDS Integers, Sequences, FiniteSets, SequencesExt, FiniteSetsExt

CONSTANT Confs  \* the configurations, each with the calls its user makes

VARIABLES conf,    \* RdmaConfig and the calls
          made,    \* how many of the calls were made
          m,       \* the model's state
          origin,  \* for every work ever created, the call it came from
          replies  \* for every call, what its callback was told

vars == <<conf, made, m, origin, replies>>

ASSUME SubmissionAssumption ==
    \A c \in Confs :
      /\ {c.qpsPerPeer, c.producers, c.queueDepth, c.doorbellBatch, c.cqModeration}
            \subseteq Nat \ {0}
      /\ {c.maxReadAtomic, c.stagingBuffer, c.maxFailures} \subseteq Nat
      /\ {c.mapQpByProducer, c.cpuHandoff} \subseteq BOOLEAN
      /\ c.stagingBuffer > 0 => c.stagingChunk \in Nat \ {0}
      /\ c.calls = [n \in 1 .. Len(c.calls) |-> c.calls[n]] /\ Len(c.calls) \in Nat
      /\ \A n \in 1 .. Len(c.calls) : LET call == c.calls[n] IN
           /\ call.op \in {"submit", "fence", "quiet", "respond"}
           /\ call.op \in {"submit", "fence"} => call.peer \in c.peers
           /\ call.op \in {"submit", "respond"} => call.bytes \in Nat \ {0}
           /\ call.op = "submit" =>
                /\ call.opcode \in {"WRITE", "SEND", "READ", "PUT_SIGNAL"}
                /\ call.producer \in {-1} \cup (0 .. c.producers - 1)

\* Sequential composition: the step Step taken from the state s.
Then(s, Step(_)) == CHOOSE r \in {Step(x) : x \in {s}} : TRUE

\* The numbers of a finite set, the smallest first.
Ascending(S) ==
    [n \in 1 .. Cardinality(S) |-> CHOOSE i \in S : Cardinality({j \in S : j <= i}) = n]

-----------------------------------------------------------------------------
(* Opcodes: WRITE stands for the plain writes of Submit, acknowledged      *)
(* packet by packet; SEND for the payload operations, READ for reads and   *)
(* atomics of the operation engine.                                        *)

HasSourcePayload(op) == op \in {"WRITE", "SEND", "PUT_SIGNAL"}

UsesReadAtomicCredit(op) == op \in {"READ", "SIGNAL"}

Keys == {<<p, q>> : p \in conf.peers, q \in 0 .. conf.qpsPerPeer - 1}

Staged == conf.stagingBuffer > 0  \* dataPath is "staged"

EmptyQp == [waiting |-> <<>>, building |-> <<>>, published |-> <<>>, timer |-> FALSE,
            fetching |-> <<>>, outstanding |-> <<>>, occupied |-> 0, readAtomic |-> 0]

Init ==
    /\ conf \in Confs
    /\ made = 0
    /\ m = [nextId    |-> 1,
            nextQp    |-> [p \in conf.peers |-> 0],
            work      |-> [i \in {} |-> 0],
            qps       |-> [k \in Keys |-> EmptyQp],
            fences    |-> [p \in conf.peers |-> 0],
            handoff   |-> <<>>,  \* requests on their way to the CPU worker
            staging   |-> <<>>,  \* m_sourceStagingWaiting
            used      |-> 0,     \* m_sourceStagingUsed
            copying   |-> <<>>,  \* device-to-host copies, in order
            serving   |-> {},    \* responders holding source staging
            cqes      |-> <<>>,  \* completions written, not yet observed
            quiet     |-> {},
            succeeded |-> [c \in 1 .. Len(conf.calls) |-> TRUE],
            failed    |-> 0]
    /\ origin = <<>>
    /\ replies = [c \in 1 .. Len(conf.calls) |-> <<>>]

-----------------------------------------------------------------------------

KeyOf(w) == <<w.peer, w.qp>>

\* Mutant of BlockedByFence: a fence waits for the issue of the earlier works only.
BlockedUntilIssued(s, w) ==
    \E i \in DOMAIN s.work : /\ i <= w.fenceThrough
                             /\ s.work[i].peer = w.peer
                             /\ ~s.work[i].issued

\* Some earlier work of the peer, up to the fence, is not yet remotely visible.
BlockedByFence(s, w) ==
    \E i \in DOMAIN s.work : /\ i <= w.fenceThrough
                             /\ s.work[i].peer = w.peer
                             /\ ~s.work[i].acked

\* The works that one call of Pump takes from the head of the send queue.
Pumped(s, k) ==
    LET q       == s.qps[k]
        Reads(n) == Cardinality({j \in 1 .. n :
                      UsesReadAtomicCredit(s.work[q.waiting[j]].opcode)})
        Passes(n) ==
          /\ q.occupied + n <= conf.queueDepth
          /\ UsesReadAtomicCredit(s.work[q.waiting[n]].opcode)
               => q.readAtomic + Reads(n) <= conf.maxReadAtomic
          /\ ~BlockedByFence(s, s.work[q.waiting[n]])
        count   == Max({n \in 0 .. Len(q.waiting) : \A j \in 1 .. n : Passes(j)})
    IN  [taken |-> SubSeq(q.waiting, 1, count), reads |-> Reads(count)]

\* The works p leave the send queue q and occupy its slots.
Issuing(q, p) ==
    [q EXCEPT !.waiting     = SubSeq(@, Len(p.taken) + 1, Len(@)),
              !.building    = @ \o p.taken,
              !.outstanding = @ \o p.taken,
              !.occupied    = @ + Len(p.taken),
              !.readAtomic  = @ + p.reads]

Taking(s, keys, p) ==
    LET taken == UNION {ToSet(p[k].taken) : k \in keys}
    IN  [s EXCEPT
           !.work = [i \in DOMAIN s.work |->
                       IF i \in taken THEN [s.work[i] EXCEPT !.issued = TRUE] ELSE s.work[i]],
           !.qps = [k \in DOMAIN s.qps |->
                      IF k \in keys THEN Issuing(s.qps[k], p[k]) ELSE s.qps[k]]]

\* Pump for every queue pair in keys.
Pump(s, keys) ==
    Then([k \in keys |-> Pumped(s, k)], LAMBDA p : Taking(s, keys, p))

\* Works join the send queues of their queue pairs, in the order of their ids.
Enqueued(s, ids) ==
    LET Of(k) == {i \in ids : KeyOf(s.work[i]) = k}
        At(k) == ToSet(s.qps[k].waiting) \cup Of(k)
    IN  Pump([s EXCEPT !.qps = [k \in DOMAIN s.qps |->
                  [s.qps[k] EXCEPT !.waiting = Ascending(At(k))]]],
             {k \in DOMAIN s.qps : Of(k) # {}})

\* The bytes of the first n payloads of a queue.
Bytes(queue, n) == FoldSeq(LAMBDA e, b : e.bytes + b, 0, SubSeq(queue, 1, n))

\* PumpSourceStaging: copies start first in, first out while the buffer has room.
PumpSourceStaging(s) ==
    LET count   == Max({n \in 0 .. Len(s.staging) :
                          \A j \in 1 .. n : s.used + Bytes(s.staging, j) <= conf.stagingBuffer})
        started == SubSeq(s.staging, 1, count)
        ids     == {e.id : e \in ToSet(started)}
    IN  [s EXCEPT !.staging = SubSeq(@, count + 1, Len(@)),
                  !.used    = @ + Bytes(s.staging, count),
                  !.copying = @ \o started,
                  !.work    = [i \in DOMAIN s.work |->
                                 [s.work[i] EXCEPT !.stagingAllocated = @ \/ i \in ids]]]

\* The start of a request: its works go to staging or to their send queues.
Started(s, ids) ==
    LET ToStaging(i) == Staged /\ HasSourcePayload(s.work[i].opcode)
        staged == Ascending({i \in ToSet(ids) : ToStaging(i)})
        Copy(i) == [id |-> i, bytes |-> s.work[i].bytes]
    IN  Then([s EXCEPT !.staging = @ \o [n \in DOMAIN staged |-> Copy(staged[n])]],
             LAMBDA t : Then(Enqueued(t, {i \in ToSet(ids) : ~ToStaging(i)}),
                             PumpSourceStaging))

-----------------------------------------------------------------------------
(* SubmitOperation.                                                        *)

\* The works of a call: the payload in chunks, then the signal of a put.
Pieces(call) ==
    LET split  == Staged /\ (HasSourcePayload(call.opcode) \/ call.opcode = "READ")
        chunk  == IF split THEN conf.stagingChunk ELSE call.bytes
        chunks == 1 + (call.bytes - 1) \div chunk
    IN  [n \in 1 .. chunks |->
           [opcode |-> call.opcode, bytes |-> Min({chunk, call.bytes - (n - 1) * chunk})]]
        \o (IF call.opcode = "PUT_SIGNAL" THEN <<[opcode |-> "SIGNAL", bytes |-> 1]>> ELSE <<>>)

\* The queue pair of work i, the n-th of its call.
QpOf(call, i, n) ==
    (IF conf.mapQpByProducer
       THEN IF call.producer = -1 THEN (i - 1) % conf.producers ELSE call.producer
       ELSE m.nextQp[call.peer] + n - 1) % conf.qpsPerPeer

\* Mutant of FenceOf: a read overtakes a payload that is still being staged.
FenceOfPayloadForgotten(peer, qp, opcode, i) ==
    IF opcode = "SIGNAL" THEN i - 1 ELSE m.fences[peer]

\* fenceThrough: a read or atomic waits for every payload submitted before it
\* on its queue pair, a signal for everything submitted before it.
FenceOf(peer, qp, opcode, i) ==
    CASE opcode = "SIGNAL" -> i - 1
      [] opcode = "READ"   -> Max({m.fences[peer]} \cup
                                {j \in DOMAIN m.work : /\ KeyOf(m.work[j]) = <<peer, qp>>
                                                       /\ HasSourcePayload(m.work[j].opcode)})
      [] OTHER             -> m.fences[peer]

Created(call, c) ==
    LET pieces == Pieces(call)
        Piece(i) == pieces[i - m.nextId + 1]
        Qp(i) == QpOf(call, i, i - m.nextId + 1)
        ids == m.nextId .. m.nextId + Len(pieces) - 1
    IN  [i \in ids |->
           [call |-> c, peer |-> call.peer, qp |-> Qp(i),
            opcode |-> Piece(i).opcode, bytes |-> Piece(i).bytes,
            fenceThrough |-> FenceOf(call.peer, Qp(i), Piece(i).opcode, i),
            acknowledged |-> 0, acked |-> FALSE, failed |-> FALSE,
            stagingAllocated |-> FALSE, issued |-> FALSE, executed |-> FALSE]]

SubmitOperation(call, c) ==
    \E new \in {Created(call, c)} :
    LET n   == Cardinality(DOMAIN new)
        ids == [j \in 1 .. n |-> m.nextId + j - 1]
        s   == [m EXCEPT !.work = [i \in DOMAIN m.work \cup DOMAIN new |->
                                     IF i \in DOMAIN new THEN new[i] ELSE m.work[i]],
                         !.nextId = @ + n,
                         !.nextQp[call.peer] = IF conf.mapQpByProducer THEN @ ELSE @ + n]
    IN  /\ m' = IF conf.cpuHandoff THEN [s EXCEPT !.handoff = Append(@, ids)] ELSE Started(s, ids)
        /\ origin' = origin \o [j \in 1 .. n |-> c]

-----------------------------------------------------------------------------
(* Doorbells, completions, Quiet and Fence.                                *)

\* The doorbell of each queue pair in keys: what is published is fetched.
Ring(s, keys) ==
    [s EXCEPT !.qps = [k \in DOMAIN s.qps |->
        IF k \notin keys THEN s.qps[k]
        ELSE [s.qps[k] EXCEPT !.timer = FALSE,
                              !.fetching = @ \o s.qps[k].published,
                              !.published = <<>>]]]

\* Mutant of Progress: the tail of a batch waits for more works.
ProgressOfFullBatches(s, k) ==
    LET q     == s.qps[k]
        ready == Max({n \in 0 .. Len(q.outstanding) :
                        \A j \in 1 .. n : s.work[q.outstanding[j]].acked})
    IN  IF ready < conf.cqModeration THEN s
        ELSE [s EXCEPT !.qps[k].outstanding = SubSeq(@, ready + 1, Len(@)),
                       !.cqes = Append(@, [key |-> k, through |-> q.outstanding[ready]])]

\* One completion is written for the acknowledged prefix of the queue pair
\* once it is long enough, or when nothing else occupies the queue.
Progress(s, k) ==
    LET q     == s.qps[k]
        ready == Max({n \in 0 .. Len(q.outstanding) :
                        \A j \in 1 .. n : s.work[q.outstanding[j]].acked})
    IN  IF ready = 0 \/ (ready < conf.cqModeration /\ ready # q.occupied) THEN s
        ELSE [s EXCEPT !.qps[k].outstanding = SubSeq(@, ready + 1, Len(@)),
                       !.cqes = Append(@, [key |-> k, through |-> q.outstanding[ready]])]

\* A work is remotely complete: its queue pair may report, and whatever it
\* fenced may start.
Acknowledged(s, i) ==
    Then([s EXCEPT !.work[i].acked = TRUE], LAMBDA t :
      Then(Progress(t, KeyOf(s.work[i])), LAMBDA u : Pump(u, DOMAIN u.qps)))

Failed(s, i) ==
    IF s.work[i].failed THEN s
    ELSE [s EXCEPT !.work[i].failed = TRUE,
                   !.succeeded[s.work[i].call] = FALSE,
                   !.failed = @ + 1]

\* NotifyOperationComplete
Completed(s, i, success) ==
    Then(IF success THEN s ELSE Failed(s, i), LAMBDA t : Acknowledged(t, i))

\* Mutant of QuietReady: completions not yet observed are overlooked.
QuietReadyWhenAcked(s) ==
    {w \in s.quiet : \A i \in DOMAIN s.work : i <= w.watermark => s.work[i].acked}

\* The waits for quiet that nothing holds back any longer.
QuietReady(s) == {w \in s.quiet : \A i \in DOMAIN s.work : i > w.watermark}

\* CheckQuiet, after the request callbacks told: replies for both.
CheckQuiet(s, told) ==
    LET ready == QuietReady(s)
    IN  /\ m' = [s EXCEPT !.quiet = @ \ ready]
        /\ replies' = [c \in DOMAIN replies |->
                         replies[c] \o
                         (IF c \in told THEN <<s.succeeded[c]>>
                          ELSE IF \E w \in ready : w.call = c THEN <<s.failed = 0>>
                          ELSE <<>>)]

\* The works a completion retires: all of its queue pair, up to the one it names.
Retired(s, cqe) ==
    {i \in DOMAIN s.work : /\ i <= cqe.through
                           /\ KeyOf(s.work[i]) = cqe.key
                           /\ s.work[i].acked}

StagingOf(s, gone) ==
    MapThenSumSet(LAMBDA i : s.work[i].bytes, {i \in gone : s.work[i].stagingAllocated})

\* Mutant of Freed: a completion frees one slot, whatever it retires.
FreedOnePerCompletion(s, k, gone) ==
    [s EXCEPT !.work = [i \in DOMAIN @ \ gone |-> @[i]],
              !.qps[k].occupied = @ - 1,
              !.used = @ - StagingOf(s, gone)]

\* The slots, read credits and staging of the works gone are free again.
Freed(s, k, gone) ==
    [s EXCEPT !.work = [i \in DOMAIN @ \ gone |-> @[i]],
              !.qps[k].occupied = @ - Cardinality(gone),
              !.qps[k].readAtomic =
                @ - Cardinality({i \in gone : UsesReadAtomicCredit(s.work[i].opcode)}),
              !.used = @ - StagingOf(s, gone)]

-----------------------------------------------------------------------------
(* The calls of the user and of the responder beside it.                   *)

Call(op) ==
    /\ made < Len(conf.calls)
    /\ conf.calls[made + 1].op = op
    /\ made' = made + 1
    /\ UNCHANGED conf

Submit ==
    /\ Call("submit")
    /\ SubmitOperation(conf.calls[made + 1], made + 1)
    /\ UNCHANGED replies

Fence ==
    /\ Call("fence")
    /\ LET peer == conf.calls[made + 1].peer
       IN  m' = [Ring(m, {k \in Keys : k[1] = peer}) EXCEPT !.fences[peer] = m.nextId - 1]
    /\ UNCHANGED <<origin, replies>>

Quiet ==
    /\ Call("quiet")
    /\ CheckQuiet([Ring(m, Keys) EXCEPT
                     !.quiet = @ \cup {[call |-> made + 1, watermark |-> m.nextId - 1]}], {})
    /\ UNCHANGED origin

\* StageSourcePayload: the answer to a peer's read shares the buffer.
StageSourcePayload ==
    /\ Call("respond")
    /\ m' = PumpSourceStaging([m EXCEPT !.staging =
                Append(@, [id |-> -(made + 1), bytes |-> conf.calls[made + 1].bytes])])
    /\ UNCHANGED <<origin, replies>>

\* ReleaseSourceStaging, when the peer has acknowledged the answer.
ReleaseSourceStaging ==
    /\ \E e \in m.serving :
         m' = PumpSourceStaging([m EXCEPT !.used = @ - e.bytes, !.serving = @ \ {e}])
    /\ UNCHANGED <<conf, made, origin, replies>>

-----------------------------------------------------------------------------
(* The scheduled events.                                                   *)

Event(s) ==
    /\ m' = s
    /\ UNCHANGED <<conf, made, origin, replies>>

\* The CPU worker takes a request over, cpuHandoff after the call.
Start ==
    /\ m.handoff # <<>>
    /\ Event(Started([m EXCEPT !.handoff = Tail(@)], Head(m.handoff)))

\* A device-to-host copy has ended: the work joins its send queue, or the
\* responder sends its answer.
SourceStaged ==
    /\ m.copying # <<>>
    /\ LET e == Head(m.copying)
           s == [m EXCEPT !.copying = Tail(@)]
       IN  Event(IF e.id > 0 THEN Enqueued(s, {e.id})
                             ELSE [s EXCEPT !.serving = @ \cup {e}])

\* A work queue entry is built and visible to the NIC; a full batch rings.
Publish(k) ==
    /\ m.qps[k].building # <<>>
    /\ LET s == [m EXCEPT !.qps[k].building = Tail(@),
                          !.qps[k].published = Append(@, Head(m.qps[k].building))]
       IN  Event(IF Len(s.qps[k].published) >= conf.doorbellBatch THEN Ring(s, {k})
                 ELSE [s EXCEPT !.qps[k].timer = TRUE])

BatchTimeout(k) ==
    /\ m.qps[k].timer
    /\ Event(Ring(m, {k}))

\* A signal whose request has failed is not sent, but completes as failed.
ExecuteWork(k) ==
    /\ m.qps[k].fetching # <<>>
    /\ LET i == Head(m.qps[k].fetching)
           s == [m EXCEPT !.qps[k].fetching = Tail(@)]
       IN  Event(IF i \notin DOMAIN m.work THEN s
                 ELSE IF m.work[i].opcode = "SIGNAL" /\ ~m.succeeded[m.work[i].call]
                   THEN Completed(s, i, FALSE)
                   ELSE [s EXCEPT !.work[i].executed = TRUE])

\* NotifyPacketAck for one packet of a plain write.
PacketAck(i) ==
    /\ m.work[i].opcode = "WRITE" /\ m.work[i].executed
    /\ ~m.work[i].acked /\ ~m.work[i].failed
    /\ \E s \in {[m EXCEPT !.work[i].acknowledged = @ + 1]} :
         Event(IF s.work[i].acknowledged = s.work[i].bytes THEN Acknowledged(s, i) ELSE s)

\* NotifyOperationComplete from the operation engine.
OperationComplete(i) ==
    /\ m.work[i].opcode # "WRITE" /\ m.work[i].executed /\ ~m.work[i].acked
    /\ Event(Completed(m, i, TRUE))

OperationFails(i) ==
    /\ m.work[i].opcode # "WRITE" /\ m.work[i].executed /\ ~m.work[i].acked
    /\ m.failed < conf.maxFailures
    /\ Event(Completed(m, i, FALSE))

\* NotifyFailure: a packet of the work is lost for good; the work stays.
NotifyFailure(i) ==
    /\ m.work[i].executed /\ ~m.work[i].acked /\ ~m.work[i].failed
    /\ m.failed < conf.maxFailures
    /\ Event(Failed(m, i))

\* The initiator observes a completion; requests with no work left are told.
Observe ==
    /\ m.cqes # <<>>
    /\ \E cqe \in {Head(m.cqes)}, gone \in {Retired(m, Head(m.cqes))} :
         LET live  == DOMAIN m.work \ gone
             calls == {m.work[i].call : i \in gone} \ {m.work[i].call : i \in live}
             s     == Freed([m EXCEPT !.cqes = Tail(@)], cqe.key, gone)
         IN  \E t \in {IF StagingOf(m, gone) > 0 THEN PumpSourceStaging(s) ELSE s} :
               CheckQuiet(Progress(Pump(t, {cqe.key}), cqe.key), calls)
    /\ UNCHANGED <<conf, made, origin>>

Scheduled ==
    \/ Start
    \/ SourceStaged
    \/ ReleaseSourceStaging
    \/ Observe
    \/ \E k \in Keys : Publish(k) \/ BatchTimeout(k) \/ ExecuteWork(k)
    \/ \E i \in DOMAIN m.work : PacketAck(i)

Next ==
    \/ Submit
    \/ Fence
    \/ Quiet
    \/ StageSourcePayload
    \/ Scheduled
    \/ \E i \in DOMAIN m.work :
         OperationComplete(i) \/ OperationFails(i) \/ NotifyFailure(i)

Spec == Init /\ [][Next]_vars

\* Events happen, the user's calls are made, and an operation whose packets are
\* not lost is completed by its peer.
FairSpec ==
    /\ Spec
    /\ WF_vars(Submit \/ Fence \/ Quiet \/ StageSourcePayload)
    /\ WF_vars(Scheduled)
    /\ WF_vars(\E i \in DOMAIN m.work : ~m.work[i].failed /\ OperationComplete(i))

-----------------------------------------------------------------------------
(* Properties.                                                             *)

Visible(i) == i \in DOMAIN m.work => m.work[i].acked

\* A fence between the calls of two works to one peer, or a put and its signal.
MustPrecede(i, j) ==
    LET PeerOf(n) == conf.calls[origin[n]].peer
    IN  \/ /\ PeerOf(i) = PeerOf(j)
           /\ \E c \in origin[i] .. origin[j] :
                conf.calls[c].op = "fence" /\ conf.calls[c].peer = PeerOf(i)
        \/ /\ origin[i] = origin[j] /\ i < j
           /\ m.work[j].opcode = "SIGNAL"

\* No work leaves the NIC before all it was ordered behind is remotely visible:
\* whatever queue pairs, staging and batches lie between the calls, Fence
\* separates the requests before it from those after it to the same peer
\* (rdma-submission-model.h: "Enforce subsequent same-peer requests after prior
\* remote completions"), and a put's signal follows its payload.
FencedOrder ==
    \A j \in DOMAIN m.work : m.work[j].executed =>
        \A i \in DOMAIN origin : MustPrecede(i, j) => Visible(i)

\* On each queue pair works execute and retire in the order they were
\* submitted, although payloads reach the send queue only when their copies
\* end: what Observe relies on when it retires everything up to one id, and
\* Progress when it looks up every outstanding work.
SendQueueOrder ==
    \A k \in Keys :
      LET sq == m.qps[k].outstanding
      IN  /\ ToSet(sq) \subseteq DOMAIN m.work
          /\ \A a, b \in DOMAIN sq : a < b => sq[a] < sq[b]
          /\ \A i, j \in DOMAIN m.work :
               /\ i < j /\ KeyOf(m.work[i]) = k /\ KeyOf(m.work[j]) = k
               /\ m.work[j].executed
               => m.work[i].executed \/ m.work[i].acked

\* Slots of the send queue, read/atomic credits and staging bytes are exactly
\* those of works issued and not yet observed, and of answers being served; no
\* limit is passed, whatever was merged into one completion.
ResourcesExact ==
    LET Issued(k) == {i \in DOMAIN m.work : m.work[i].issued /\ KeyOf(m.work[i]) = k}
        answers == m.serving \cup {e \in ToSet(m.copying) : e.id < 0}
    IN  /\ \A k \in Keys :
             /\ m.qps[k].occupied = Cardinality(Issued(k))
             /\ m.qps[k].occupied <= conf.queueDepth
             /\ m.qps[k].readAtomic =
                  Cardinality({i \in Issued(k) : UsesReadAtomicCredit(m.work[i].opcode)})
             /\ m.qps[k].readAtomic <= conf.maxReadAtomic
        /\ m.used = MapThenSumSet(LAMBDA i : m.work[i].bytes,
                                  {i \in DOMAIN m.work : m.work[i].stagingAllocated})
                    + MapThenSumSet(LAMBDA e : e.bytes, answers)
        /\ m.used <= conf.stagingBuffer

\* A callback is called once.  When a request's is, none of its works is left;
\* when Quiet's is, every request called before it has been told, and a good
\* answer means that each of them was told of success.
ToldWhenDone ==
    \A c \in 1 .. made : replies[c] # <<>> =>
      /\ Len(replies[c]) = 1
      /\ conf.calls[c].op = "submit" => \A i \in DOMAIN m.work : m.work[i].call # c
      /\ conf.calls[c].op = "quiet" =>
           \A d \in 1 .. c : conf.calls[d].op = "submit" =>
             replies[d] # <<>> /\ (replies[c] = <<TRUE>> => replies[d] = <<TRUE>>)

\* Everything submitted is observed and told: no tail of an unfilled batch, no
\* completion short of the moderation count, no full queue, fence or staging
\* buffer holds a work for ever.  Only a work lost for good stays, and it holds
\* back no other peer unless they share the staging buffer.
EventuallyTold ==
    <>[](/\ made = Len(conf.calls)
         /\ \A i \in DOMAIN m.work : \E j \in DOMAIN m.work :
              /\ m.work[j].failed /\ ~m.work[j].acked
              /\ Staged \/ m.work[i].peer = m.work[j].peer
         /\ m.work = <<>> => \A c \in 1 .. made :
              conf.calls[c].op \in {"submit", "quiet"} => replies[c] # <<>>)
=============================================================================
