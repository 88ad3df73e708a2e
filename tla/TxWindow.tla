------------------------------ MODULE TxWindow -------------------------------
(***************************************************************************)
(* The sending side of an endpoint between nodes, as functions of one      *)
(* endpoint's state: the transmit window of bulk fragments and RDMA        *)
(* packets (PumpBulkTxWindow, PumpRdmaOperationPackets), the send queue    *)
(* and the holds that PFC pauses put on traffic classes.                   *)
(*                                                                         *)
(* A packet is its place in the workload: <<"bulk", i>> or <<"rdma", i>>;  *)
(* it stands for the tuple of destination, channel, flow and sequence      *)
(* number that names it in the code.  Its class is the pair of destination *)
(* and virtual channel, which is what a pause holds back.  All             *)
(* destinations are remote: the credit gate lets their packets pass free.  *)
(***************************************************************************)
EXTENDS Integers, Sequences, SequencesExt, FiniteSetsExt

CONSTANT RetryLimit  \* of the retry manager, in SACK mode

ASSUME WindowAssumption == RetryLimit \in Nat

NewEndpoint(size, class, paced) ==
    [size     |-> size,  \* m_soTxWindow, not 0
     class    |-> class, \* the packets' classes, which never change
     paced    |-> paced, \* pacing, service or encoding delays put sends off
     bulk     |-> <<>>,  \* m_bulkTxQueue
     rdma     |-> <<>>,  \* m_rdmaTxQueue
     queue    |-> <<>>,  \* m_sendQueue: packets parked by a pause
     window   |-> {},    \* m_bulkTxWindowSeqs
     inflight |-> 0,     \* m_bulkTxInflight
     holds    |-> {},    \* m_pfcPausedDests: classes held
     expiry   |-> {},    \* m_pfcPauseExpiry: holds that expire by themselves
     retries  |-> [p \in {} |-> 0],  \* the retry store
     pacer    |-> {},    \* m_deferredEgressEvents: sends under way to the device,
                         \* each a packet and the number of its repair, 0 for none
     wire     |-> <<>>,  \* device and link, first in first out
     lost     |-> {}]    \* packets given up

\* Sequential composition: the step Step taken from the state e.
Then(e, Step(_)) == CHOOSE r \in {Step(x) : x \in {e}} : TRUE

-----------------------------------------------------------------------------

IsHeld(e, p) == e.class[p] \in e.holds

\* The sends xs in turn: to the device at once, or when their delays are over.
Handed(e, xs) ==
    IF e.paced THEN [e EXCEPT !.pacer = @ \cup ToSet(xs)]
    ELSE [e EXCEPT !.wire = @ \o [i \in DOMAIN xs |-> xs[i][1]]]

\* SendDeferredEgressInternal: a deferred send asks again whether its class is
\* held and polls on until it is not; repairs are exempt.
MayDepart(e, x) == x[2] > 0 \/ ~IsHeld(e, x[1])

\* The deferred send x reaches the device, in any order: delays differ, and
\* what RESUME releases may pass a send that polls.
Departed(e, x) == [e EXCEPT !.pacer = @ \ {x}, !.wire = Append(@, x[1])]

\* Packets that pass the throttle are stored for retry and handed on.
Transmitted(e, ps) ==
    Handed([e EXCEPT !.retries = [p \in DOMAIN @ \cup ToSet(ps) |->
                                   IF p \in DOMAIN @ THEN @[p] ELSE 0]],
           [i \in DOMAIN ps |-> <<ps[i], 0>>])

\* The packets of the sequence ps that stand at the positions in at, in order.
Picked(ps, at) ==
    [i \in 1..Cardinality(at) |->
        ps[CHOOSE n \in at : Cardinality({k \in at : k <= n}) = i]]

\* SendPacketOnDevice for the packets ps in turn: those of a held class park.
Dispatched(e, ps) ==
    LET held == {i \in DOMAIN ps : IsHeld(e, ps[i])}
    IN  [Transmitted(e, Picked(ps, DOMAIN ps \ held))
            EXCEPT !.queue = @ \o Picked(ps, held)]

\* The packets ps take a slot each before they are dispatched.
Windowed(e, ps) ==
    Dispatched([e EXCEPT !.window = @ \cup ToSet(ps), !.inflight = @ + Len(ps)], ps)

Room(e, q) == Min({Len(q), e.size - e.inflight})

\* How many fragments one call dispatches: it stops behind the first that
\* parks.
BulkBatch(e) ==
    LET held == {i \in 1..Room(e, e.bulk) : IsHeld(e, e.bulk[i])}
    IN  IF held = {} THEN Room(e, e.bulk) ELSE Min(held)

PumpBulkTxWindow(e) ==
    Windowed([e EXCEPT !.bulk = SubSeq(@, BulkBatch(e) + 1, Len(@))],
             SubSeq(e.bulk, 1, BulkBatch(e)))

PumpRdmaOperationPackets(e) ==
    Windowed([e EXCEPT !.rdma = SubSeq(@, Room(e, e.rdma) + 1, Len(@))],
             SubSeq(e.rdma, 1, Room(e, e.rdma)))

\* The drain skips the packets of held classes and sends the others in order.
TrySendQueuedPackets(e) == Dispatched([e EXCEPT !.queue = <<>>], e.queue)

\* Mutant of ReleaseBulkTxSlot: the RDMA packets are forgotten.
ReleaseForBulkOnly(e) == Then([e EXCEPT !.inflight = Max({@ - 1, 0})], PumpBulkTxWindow)

\* ReleaseBulkTxSlot: both queues are pumped, bulk fragments first.
ReleaseBulkTxSlot(e) ==
    Then(Then([e EXCEPT !.inflight = Max({@ - 1, 0})], PumpBulkTxWindow),
         PumpRdmaOperationPackets)

\* Mutant of Released: any acknowledgement or loss frees a slot.
ReleasedAny(e, p) == ReleaseBulkTxSlot([e EXCEPT !.window = @ \ {p}])

\* An acknowledgement or a loss of p frees its slot if it holds one.
Released(e, p) ==
    IF p \in e.window THEN ReleaseBulkTxSlot([e EXCEPT !.window = @ \ {p}]) ELSE e

Forgotten(e, p) == [e EXCEPT !.retries = [q \in DOMAIN @ \ {p} |-> @[q]]]

\* ProcessAckPacket.
Acknowledged(e, p) == Forgotten(Released(e, p), p)

\* NotifyPermanentLoss: the slot is freed and the send queue drained.
GivenUp(e, p) ==
    Then(Released([Forgotten(e, p) EXCEPT !.lost = @ \cup {p}], p), TrySendQueuedPackets)

\* A NACK or a retry timeout: repairs are exempt from pauses.
Retried(e, p) ==
    IF p \notin DOMAIN e.retries THEN e
    ELSE IF e.retries[p] + 1 > RetryLimit THEN GivenUp(e, p)
    ELSE Handed([e EXCEPT !.retries[p] = @ + 1], <<<<p, e.retries[p] + 1>>>>)

\* ProcessPfcPausePacket for class c with the given pause time.
Paused(e, c, quanta) ==
    LET held    == [e EXCEPT !.holds = @ \cup {c}]
        settled == IF c \in e.holds THEN held ELSE Then(held, TrySendQueuedPackets)
    IN  IF quanta > 0 THEN [settled EXCEPT !.expiry = @ \cup {c}] ELSE settled

Unheld(e, c) == [e EXCEPT !.holds = @ \ {c}, !.expiry = @ \ {c}]

\* Mutant of Lifted: the window is pumped before the queue is drained.
LiftedPumpFirst(e, c) == Then(Then(Unheld(e, c), PumpBulkTxWindow), TrySendQueuedPackets)

\* A hold is lifted and its timer retired; the queue is drained, then the
\* window pumped (PfcPauseExpiredForDest).
Lifted(e, c) == Then(Then(Unheld(e, c), TrySendQueuedPackets), PumpBulkTxWindow)

\* ProcessPfcResumePacket: while another channel to the same destination is
\* held the queue is drained but the window not pumped.
Resumed(e, c) ==
    IF c \notin e.holds THEN e
    ELSE IF \E other \in e.holds \ {c} : other[1] = c[1]
      THEN Then(Unheld(e, c), TrySendQueuedPackets)
    ELSE Lifted(e, c)
=============================================================================
