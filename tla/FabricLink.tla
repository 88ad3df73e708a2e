----------------------------- MODULE FabricLink ------------------------------
(***************************************************************************)
(* One flow between two fabric endpoints (fabric-endpoint.cc,              *)
(* fabric-endpoint-send.cc): the sender with its credit book, send queue   *)
(* and retry store, the receiver with its three ways of taking data, and a *)
(* fabric that reorders, corrupts and loses frames.                        *)
(*                                                                         *)
(* Whether a retransmission finds its fast copy, and so leaves at once, or *)
(* waits for a source reload is decided by the retry buffer (LlrManager);  *)
(* here it may be either.                                                  *)
(***************************************************************************)
EXTENDS CreditBook, ReorderBuffer, Sequences, SequencesExt

CONSTANTS
    Credits,           \* the sender's window on the flow's virtual channel
    Confs,             \* the configurations the flow may run in (Configuration)
    RetryLimit,        \* m_retryLimit
    TimeoutRetransmit  \* EnableLlrTimeoutRetransmit was called

FrameType == {"DATA", "PERMANENT_LOSS", "ACK", "NACK", "CREDIT"}

\* local: IsLocalRank, both endpoints are in one node (Su); llrMode: GetLlrMode;
\* bypass: m_bypassReorderBuffer; soGbnStrict: m_soGbnStrict.  The application
\* submits up to `load' packets; the fabric may lose frames of the types
\* `silentDrops' without a NACK and corrupts or loses up to `maxDrops' frames.
Configuration ==
    [local : BOOLEAN, llrMode : {"GO_BACK_N", "SACK"},
     bypass : BOOLEAN, soGbnStrict : BOOLEAN,
     load : 0..SeqBound, silentDrops : SUBSET FrameType, maxDrops : Nat]

ASSUME LinkAssumption ==
    /\ Credits \in Nat /\ RetryLimit \in Nat
    /\ TimeoutRetransmit \in BOOLEAN
    /\ Confs \subseteq Configuration
    /\ 2 * (Credits + SeqBound) < Modulus

VARIABLES
    conf,            \* the flow's configuration, which never changes
    nextSeq,         \* m_nextSeqNum
    sendQueue,       \* m_sendQueue: numbers waiting for a credit
    credit,          \* the credit book's entry
    creditsReturned, \* m_creditsReturned: numbers whose credit came back
    gbnNextAck,      \* m_gbnNextAckSeq
    gbnPending,      \* m_gbnPendingAcks
    store,           \* the retry store: number -> retries, timer pending
    deferred,        \* per number, retransmissions waiting for a source reload
    lost,            \* numbers the sender gave up
    net,             \* per frame, how many copies are on their way
    drops,           \* frames corrupted or lost so far
    rb,              \* the receiver's reorder buffer
    bypassDelivered, \* m_bypassDelivered
    strictExpected,  \* m_strictNextExpected
    strictLost,      \* m_strictPermLost
    strictNak,       \* m_strictNakPending, SeqBound when absent
    told             \* what the receive callback was given, in order

sendVars == <<nextSeq, sendQueue, credit, creditsReturned, gbnNextAck, gbnPending,
              store, deferred, lost>>
recvVars == <<rb, bypassDelivered, strictExpected, strictLost, strictNak, told>>
vars == <<conf, sendVars, net, drops, recvVars>>

Local == conf.local
LlrMode == conf.llrMode
Bypass == conf.bypass

Frame == FrameType \X SeqNum
Frames(type, seqs) == {type} \X seqs
Outstanding == DOMAIN store

Init ==
    /\ conf \in Confs
    /\ nextSeq = 0 /\ sendQueue = <<>>
    /\ credit = FreshVc(Credits) /\ creditsReturned = {}
    /\ gbnNextAck = 0 /\ gbnPending = {}
    /\ store = [s \in {} |-> [retries |-> 0, timer |-> FALSE]]
    /\ deferred = [s \in SeqNum |-> 0]
    /\ lost = {}
    /\ net = [f \in Frame |-> 0] /\ drops = 0
    /\ rb = EmptyBuffer /\ bypassDelivered = {}
    /\ strictExpected = 0 /\ strictLost = {} /\ strictNak = SeqBound
    /\ told = <<>>

-----------------------------------------------------------------------------
(* The fabric.                                                             *)

Put(n, frames) == [f \in Frame |-> IF f \in frames THEN n[f] + 1 ELSE n[f]]
Take(n, frame) == [n EXCEPT ![frame] = @ - 1]

\* A frame is handled and the handler puts frames on the wire.
Exchange(frame, frames) == net[frame] > 0 /\ net' = Put(Take(net, frame), frames)

\* Link down, a control frame drawn against the loss rate, a data frame of a
\* strict flow drawn against it: the frame is gone and nobody is told.
DropSilently(frame) ==
    /\ frame[1] \in conf.silentDrops
    /\ drops < conf.maxDrops
    /\ Exchange(frame, {})
    /\ drops' = drops + 1
    /\ UNCHANGED <<sendVars, conf, recvVars>>

\* A data frame is drawn against the loss rate or arrives with errors the FEC
\* cannot correct: the receiver NACKs its number.
CorruptData(s) ==
    /\ drops < conf.maxDrops
    /\ Exchange(<<"DATA", s>>, {<<"NACK", s>>})
    /\ drops' = drops + 1
    /\ UNCHANGED <<sendVars, conf, recvVars>>

-----------------------------------------------------------------------------
(* The sender.                                                             *)

\* Fresh packets reach the wire: each is stored and its timer started.
Stored(st, fresh) ==
    [s \in DOMAIN st \cup fresh |->
        IF s \in fresh THEN [retries |-> 0, timer |-> TRUE] ELSE st[s]]

\* n passes of the credit gate (FlowControlGate); remote flows bypass it.
Spent(c, n) ==
    IF Local
      THEN [available |-> c.available - n, total |-> c.total, pending |-> c.pending + n]
      ELSE c
Admits(c, n) == IF Local THEN CappedAt(n, c.available) ELSE n

\* TrySendQueuedPackets with credit entry c, retry store st and queue q: how
\* many packets from the front of q it sends, and which.
Drained(c, q) == Admits(c, Len(q))
DrainedSet(c, q) == {q[i] : i \in 1..Drained(c, q)}
AfterDrain(c, q) == SubSeq(q, Drained(c, q) + 1, Len(q))

TrySendQueuedPackets(c, q, st) ==
    /\ credit' = Spent(c, Drained(c, q))
    /\ sendQueue' = AfterDrain(c, q)
    /\ store' = Stored(st, DrainedSet(c, q))

\* SendData of one packet: queued, then the queue is drained.
SendData ==
    LET q == Append(sendQueue, nextSeq) IN
    /\ nextSeq < conf.load
    /\ nextSeq' = nextSeq + 1
    /\ TrySendQueuedPackets(credit, q, store)
    /\ net' = Put(net, Frames("DATA", DrainedSet(credit, q)))
    /\ UNCHANGED <<creditsReturned, gbnNextAck, gbnPending, deferred, lost, drops, conf, recvVars>>

\* SendData of n fragments: each passes the gate by itself, past the queue;
\* from the first that is refused on they are queued, and draining the queue
\* then finds no credit either.
SendFragments(n) ==
    LET now   == Admits(credit, n)
        fresh == nextSeq .. (nextSeq + now - 1)
    IN  /\ nextSeq + n <= conf.load
        /\ nextSeq' = nextSeq + n
        /\ credit' = Spent(credit, now)
        /\ sendQueue' = sendQueue \o [i \in 1..(n - now) |-> nextSeq + now + i - 1]
        /\ store' = Stored(store, fresh)
        /\ net' = Put(net, Frames("DATA", fresh))
        /\ UNCHANGED <<creditsReturned, gbnNextAck, gbnPending, deferred, lost, drops, conf, recvVars>>

\* RemovePacket and RemovePacketsUpTo.
Without(seqs) == [s \in Outstanding \ seqs |-> store[s]]

\* The numbers among seqs whose credit is still owed back.
Owed(seqs) == IF Local THEN seqs \ creditsReturned ELSE {}

\* Mutant of AckOwed: the ACK leaves the credit to the CREDIT frame.
AckOwedNothing(s) == {}

\* An ACK owes the credit of a packet that was still in the store.
AckOwed(s) == IF s \in Outstanding THEN Owed({s}) ELSE {}

\* Mutant of CreditOwed: every CREDIT counts.
CreditOwedAgain(s) == {s}

\* A CREDIT counts once for each number.
CreditOwed(s) == {s} \ creditsReturned

\* The credit entry once the credits of the set owed have been returned.
Refunded(owed) == IF owed = {} THEN credit ELSE Returned(credit, Cardinality(owed))

\* ProcessAckPacket: the ACK returns the credit of a packet that was still in
\* the store, once.  The queue is drained only by OnCreditAvailable, that is
\* when the book goes from no credit to some.
ProcessAckPacket(s) ==
    LET owed == AckOwed(s)
        c    == Refunded(owed)
        q    == IF WakesSender(credit, c) THEN sendQueue ELSE <<>>
    IN  /\ Exchange(<<"ACK", s>>, Frames("DATA", DrainedSet(c, q)))
        /\ creditsReturned' = creditsReturned \cup owed
        /\ credit' = Spent(c, Drained(c, q))
        /\ sendQueue' = SubSeq(sendQueue, Drained(c, q) + 1, Len(sendQueue))
        /\ store' = Stored(Without({s}), DrainedSet(c, q))
        /\ UNCHANGED <<nextSeq, gbnNextAck, gbnPending, deferred, lost, drops, conf, recvVars>>

\* Mutant of RunFrom: acknowledges up to the highest number credited.
RunFromHighest(n, seqs) == CHOOSE m \in n..SeqBound : \A s \in seqs : s < m

\* The end of the unbroken run of seqs that starts at n.
RunFrom(n, seqs) ==
    CHOOSE m \in n..SeqBound : (\A s \in n..(m - 1) : s \in seqs) /\ m \notin seqs

\* ProcessCreditPacket: the ledger drops a second credit for one number; the
\* packet leaves the store alone (SACK) or with the whole run of numbers
\* credited so far (go-back-N).
ProcessCreditPacket(s) ==
    LET owed    == CreditOwed(s)
        c       == Refunded(owed)
        pending == gbnPending \cup {s}
        run     == RunFrom(gbnNextAck, pending)
        purged  == IF LlrMode = "SACK" THEN {s}
                   ELSE IF run > gbnNextAck THEN 0..(run - 1) ELSE {}
    IN  /\ Exchange(<<"CREDIT", s>>, Frames("DATA", DrainedSet(c, sendQueue)))
        /\ creditsReturned' = creditsReturned \cup owed
        /\ TrySendQueuedPackets(c, sendQueue, Without(purged))
        /\ gbnNextAck' = IF LlrMode = "SACK" THEN gbnNextAck ELSE run
        /\ gbnPending' = IF LlrMode = "SACK" THEN gbnPending
                         ELSE pending \ (gbnNextAck..(run - 1))
        /\ UNCHANGED <<nextSeq, deferred, lost, drops, conf, recvVars>>

-----------------------------------------------------------------------------
(* Retransmission and permanent loss.                                      *)

Requested(s) ==
    IF LlrMode = "SACK" THEN {s} \cap Outstanding
    ELSE {t \in Outstanding : t >= s}

\* Those whose retry budget this request exceeds.
GivenUp(keys) == {t \in keys : store[t].retries + 1 > RetryLimit}

\* HandleRetryRequest or HandleSackRequest, with NotifyPermanentLoss for the
\* packets it gives up and DispatchRetransmissions for the others.  A packet
\* given up returns its credit once, sends a notice and drains the queue; of
\* the others those before some number leave at once.
Retransmit(s, taken) ==
    LET keys  == Requested(s)
        gone  == GivenUp(keys)
        again == keys \ gone
        owed  == Owed(gone)
        c     == Refunded(owed)
        q     == IF gone = {} THEN <<>> ELSE sendQueue
        fresh == DrainedSet(c, q)
    IN  \E cut \in 0..SeqBound :
        LET prompt == {t \in again : t < cut}
            after  == [t \in Outstanding \ gone |->
                         IF t \in again
                           THEN [retries |-> store[t].retries + 1, timer |-> t < cut]
                           ELSE store[t]]
        IN  /\ cut \in again \cup {0, SeqBound}
            /\ creditsReturned' = creditsReturned \cup owed
            /\ lost' = lost \cup gone
            /\ credit' = Spent(c, Drained(c, q))
            /\ sendQueue' = SubSeq(sendQueue, Drained(c, q) + 1, Len(sendQueue))
            /\ store' = Stored(after, fresh)
            /\ deferred' = [t \in SeqNum |->
                              IF t \in again \ prompt THEN deferred[t] + 1 ELSE deferred[t]]
            /\ net' = Put(taken, Frames("PERMANENT_LOSS", gone)
                                  \cup Frames("DATA", prompt \cup fresh))
            /\ UNCHANGED <<nextSeq, gbnNextAck, gbnPending, drops, conf, recvVars>>

ProcessNackPacket(s) ==
    /\ net[<<"NACK", s>>] > 0
    /\ Retransmit(s, Take(net, <<"NACK", s>>))

OnLlrRetryTimeout(s) ==
    /\ TimeoutRetransmit
    /\ s \in Outstanding /\ store[s].timer
    /\ Retransmit(s, net)

\* SendRetransmission after a source reload: only if still outstanding.
SendRetransmission(s) ==
    /\ deferred[s] > 0
    /\ deferred' = [deferred EXCEPT ![s] = @ - 1]
    /\ IF s \in Outstanding
         THEN /\ store' = [store EXCEPT ![s].timer = TRUE]
              /\ net' = Put(net, {<<"DATA", s>>})
         ELSE UNCHANGED <<store, net>>
    /\ UNCHANGED <<nextSeq, sendQueue, credit, creditsReturned, gbnNextAck, gbnPending,
                   lost, drops, conf, recvVars>>

-----------------------------------------------------------------------------
(* The receiver.                                                           *)

IsStrictGbnFlow == conf.soGbnStrict /\ Bypass /\ LlrMode = "GO_BACK_N" /\ ~Local

\* OnPacketDelivered: an ACK each and, inside a node, a CREDIT each.
Receipts(seqs) ==
    Frames("ACK", seqs) \cup (IF Local THEN Frames("CREDIT", seqs) ELSE {})

\* What the reorder buffer b passes to the receive callback, in order.
Report(b) ==
    [i \in 1..Cardinality(Passed(b)) |->
        LET s == b.expected + i - 1
        IN  <<s, IF s \in Skips(b) THEN "lost" ELSE "data">>]

\* Mutant of ReAck: a copy the full buffer turned away is acknowledged.
ReAckAlways(s) == ~Accepts(rb, s)

\* A copy that was not inserted is acknowledged again if it is a duplicate.
ReAck(s) == ~Accepts(rb, s) /\ IsDuplicate(rb, s)

\* ProcessDataPacket with the reorder buffer.
ReceiveReordered(s) ==
    LET b == Inserted(rb, s) IN
    /\ ~Bypass
    /\ Exchange(<<"DATA", s>>,
                Receipts(Delivers(b)) \cup (IF ReAck(s) THEN {<<"ACK", s>>} ELSE {}))
    /\ rb' = DeliverReady(b)
    /\ told' = told \o Report(b)
    /\ UNCHANGED <<sendVars, drops, conf, bypassDelivered, strictExpected, strictLost, strictNak>>

\* DeliverBypassDataPacket: packets are passed on as they come; a copy of one
\* already passed on is acknowledged and credited again.
ReceiveBypassed(s) ==
    /\ Bypass /\ ~IsStrictGbnFlow
    /\ Exchange(<<"DATA", s>>, Receipts({s}))
    /\ bypassDelivered' = bypassDelivered \cup {s}
    /\ told' = IF s \in bypassDelivered THEN told ELSE Append(told, <<s, "data">>)
    /\ UNCHANGED <<sendVars, drops, conf, rb, strictExpected, strictLost, strictNak>>

\* Mutants of StrictNext: numbers given up are not skipped; the counter is not
\* advanced.
StrictNextOnly(n) == n + 1
StrictNextStays(n) == RunFrom(n, strictLost)

\* The next number a strict flow expects once n is settled: numbers given up
\* and parked are skipped.
StrictNext(n) == RunFrom(n + 1, strictLost)

\* A strict flow settles its expected number: the counter moves past parked
\* losses, and the next gap may be NAKed.
SettleStrict(n) ==
    /\ strictExpected' = StrictNext(n)
    /\ strictLost' = strictLost \ ((n + 1)..(StrictNext(n) - 1))
    /\ strictNak' = SeqBound

\* DeliverBypassDataPacket of a strict flow, three cases: the expected packet
\* is passed on, an older one is acknowledged again, a later one is discarded
\* and the gap is NAKed once.
ReceiveStrict(s) ==
    /\ IsStrictGbnFlow
    /\ \/ /\ s = strictExpected
          /\ Exchange(<<"DATA", s>>, Receipts({s}))
          /\ SettleStrict(s)
          /\ told' = Append(told, <<s, "data">>)
       \/ /\ s < strictExpected
          /\ Exchange(<<"DATA", s>>, {<<"ACK", s>>})
          /\ UNCHANGED <<strictExpected, strictLost, strictNak, told>>
       \/ /\ s > strictExpected
          /\ Exchange(<<"DATA", s>>,
                      IF strictNak # strictExpected THEN {<<"NACK", strictExpected>>} ELSE {})
          /\ strictNak' = strictExpected
          /\ UNCHANGED <<strictExpected, strictLost, told>>
    /\ UNCHANGED <<sendVars, drops, conf, rb, bypassDelivered>>

\* ProcessPermanentLossNotice of a strict flow: its own counter moves on; the
\* receive callback is not called.
NoticeStrict(s) ==
    /\ IsStrictGbnFlow
    /\ Exchange(<<"PERMANENT_LOSS", s>>, {})
    /\ \/ s = strictExpected /\ SettleStrict(s)
       \/ /\ s > strictExpected
          /\ strictLost' = strictLost \cup {s}
          /\ UNCHANGED <<strictExpected, strictNak>>
       \/ s < strictExpected /\ UNCHANGED <<strictExpected, strictLost, strictNak>>
    /\ UNCHANGED <<sendVars, drops, conf, rb, bypassDelivered, told>>

\* ProcessPermanentLossNotice of every other flow goes to the reorder buffer,
\* also when the flow's data bypasses it.
NoticeReordered(s) ==
    LET b == GapMarked(rb, s) IN
    /\ ~IsStrictGbnFlow
    /\ Exchange(<<"PERMANENT_LOSS", s>>, Receipts(Delivers(b)))
    /\ rb' = DeliverReady(b)
    /\ told' = told \o Report(b)
    /\ UNCHANGED <<sendVars, drops, conf, bypassDelivered, strictExpected, strictLost, strictNak>>

-----------------------------------------------------------------------------

Submit == SendData \/ \E n \in 2..SeqBound : SendFragments(n)

Handle(s) ==
    \/ ProcessAckPacket(s) \/ ProcessCreditPacket(s) \/ ProcessNackPacket(s)
    \/ ReceiveReordered(s) \/ ReceiveBypassed(s) \/ ReceiveStrict(s)
    \/ NoticeStrict(s) \/ NoticeReordered(s)

Next ==
    \/ Submit
    \/ \E s \in SeqNum :
          Handle(s) \/ OnLlrRetryTimeout(s) \/ SendRetransmission(s) \/ CorruptData(s)
    \/ \E f \in Frame : DropSilently(f)

Spec == Init /\ [][Next]_vars

\* The event queue runs every scheduled event: a frame on the wire reaches
\* its handler, a pending timer fires, a source reload completes.  When the
\* application sends is its own affair.
FairSpec ==
    /\ Spec
    /\ \A s \in SeqNum :
          /\ WF_vars(ProcessAckPacket(s)) /\ WF_vars(ProcessCreditPacket(s))
          /\ WF_vars(ProcessNackPacket(s))
          /\ WF_vars(ReceiveReordered(s)) /\ WF_vars(ReceiveBypassed(s))
          /\ WF_vars(ReceiveStrict(s))
          /\ WF_vars(NoticeStrict(s)) /\ WF_vars(NoticeReordered(s))
          /\ WF_vars(OnLlrRetryTimeout(s)) /\ WF_vars(SendRetransmission(s))

-----------------------------------------------------------------------------

\* Numbers the sender has put on the wire at least once.
Sent == 0..(nextSeq - 1) \ ToSet(sendQueue)

ToldOf(s) == {i \in DOMAIN told : told[i][1] = s}

\* What the receiver has passed on or still holds.
Received ==
    {s \in SeqNum : \/ \E i \in ToldOf(s) : told[i][2] = "data"
                    \/ s \in Parked(rb)}

\* Every credit that is out belongs to a packet sent and not yet credited:
\* an ACK, a CREDIT, a re-sent CREDIT and a permanent loss of one packet
\* return its credit once between them, in any order.
CreditExactlyOnce ==
    Local => /\ Balanced(credit)
             /\ credit.pending = Cardinality(Sent \ creditsReturned)

\* A credit comes back only for a packet the receiver has or the sender gave
\* up.
CreditNotEarly == creditsReturned \subseteq Received \cup lost

\* A packet waits in the send queue only while there is no credit: although
\* ProcessAckPacket never drains the queue itself, no wake-up is lost.
NoLostWakeup == Local /\ sendQueue # <<>> => credit.available = 0

\* The sender forgets a packet only once the receiver has it or it has been
\* given up.
NeverForgotten == Sent \subseteq Outstanding \cup Received \cup lost

\* The counter of a strict flow never rests on a number whose loss was
\* announced before its turn: nothing would ever move it on.
StrictNeverAwaitsLost == strictExpected \notin strictLost

\* Flows with a reorder buffer, and strict flows, report every number at most
\* once and in order, whatever is reordered, repeated or given up.
ToldInOrder ==
    ~Bypass \/ IsStrictGbnFlow =>
        \A i, j \in DOMAIN told : i < j => told[i][1] < told[j][1]

\* NotifyPermanentLoss's comment: the PERMANENT_LOSS frame is sent "so the
\* receiver can advance collective progress".  So of every packet sent the
\* application is eventually told that it arrived or that it is lost.
EveryPacketTold == \A s \in SeqNum : s \in Sent ~> ToldOf(s) # {}

\* The window reopens: all credits come back once nothing more is submitted.
WindowReopens ==
    Local /\ Credits > 0 =>
        (nextSeq = conf.load ~> sendQueue = <<>> /\ credit.available = Credits)
=============================================================================
