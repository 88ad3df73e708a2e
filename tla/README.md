# A TLA+ model of ProtoBridge's data path and collectives

ProtoBridge (`src/src/gpu-cluster`) is an ns-3 module that simulates the fabric
of a GPU cluster below IP: collectives are cut into packets, and the packets
pass credits, forward error correction, link-level retry, switches and a
reorder buffer.  The simulator is a single-threaded program driven by an event
queue.  What makes it hard is that every handler runs to completion at some
time the queue decides, so acknowledgements, credits, retry requests, timeouts,
source reloads and loss notices of one packet meet in any order, some of them
twice and some not at all.

The modules in this directory model the part of the program in which those
orders decide whether data arrives and whether a collective ends: credit book,
reorder buffer, link-level retry and the two endpoints that use them; the
transmit window and the PFC pauses between an endpoint and an Ethernet switch;
the reductions inside a switch; the submission side of RDMA; above them the
executor of transaction graphs and the ring all-reduce.

    CreditBook ----------- CreditManager ----- CreditManagerProofs
        |
        |                  InOrderDelivery  (abstract)
        |                       ^ implements
    ReorderBuffer -------- ReceiveFlow ------- ReceiveFlowProofs
        |     \--- ReorderBufferProofs ----------/
        |                   \
    FabricLink ------------ FabricLinkProofs
                = credit book + retry store + reorder buffer + lossy fabric
    LlrManager  = retry store, retry buffer, pacer, timers --- LlrManagerProofs

    TxWindow, EthernetSwitch --- PfcFabric --- PfcFabricProofs
                = endpoints behind one port of a switch
    SharpSwitch     = upload ledgers, multicasts, result windows of a switch
    RdmaSubmission  = staging, send queues, doorbells, completions, fences
        |
    RdmaSubmissionProofs

    TransactionGraph --- TransactionExecutor --- TransactionExecutorProofs
        |                       |
    ProtocolConfig          RingAllReduce --- RingSchedule

`MC*.tla` and the `.cfg` files are TLC instances.

## 1. Inventory

Paths are relative to `src/src/gpu-cluster/model`.

| Component | State | Operations that change it | Met by | Correct when |
|---|---|---|---|---|
| `credit-manager` | per virtual channel: available, total, pending (`uint32_t`) | InitializeVc, ConsumeCredit, ReturnCredits, SetTotalCredits | endpoint; calls it back when a channel gets its first credit | available + pending = total; no more packets in flight than the window |
| `reorder-buffer` | expected number, map of entries with a delivered flag, set of permanent gaps | Insert, MarkPermanentGap, DeliverReadyPackets | endpoint, which it calls back per packet and per gap | each number reported once and in order; bounded |
| `llr-manager` | source store with retry count and timer, finite retry buffer | StorePacket, ArmRetryTimeoutAtTransmission, RemovePacket(sUpTo), HandleRetryRequest, HandleSackRequest, OnRetryTimeout | endpoint; timers | nothing un-acknowledged is forgotten or left without a timer; the retry budget is exact |
| `fabric-endpoint`, data path | send queue, credit ledger, cumulative-ACK run, reorder buffers, bypass and strict counters | SendData, ReceiveFromDevice and one handler for each frame type | collectives (send, receive callback), devices | credits return once, packets are reported once, wake-ups are not lost |
| `fabric-endpoint`, TX window | bulk and RDMA queues, slots in use and their owners | PumpBulkTxWindow, PumpRdmaOperationPackets, ReleaseBulkTxSlot | ACK and loss paths, PFC drains | each slot released once, no packet handed on before a parked one of its flow |
| `fabric-endpoint`, PFC | held classes (destination and channel), expiry events, parked packets | ProcessPfcPause/ResumePacket, expiry | Ethernet switch | a hold always ends; nothing parked is lost |
| `ethernet-switch` | per hop: latch, headroom used, header of the pause, re-sends left | OnPacketEnqueue, MaybeSendPfcPause, CheckPfcResume, RecheckPfcPause, ResendPfcResume | endpoints | XOFF and XON pair up, headroom absorbs what is in flight |
| `nvswitch`, `arbiter` | virtual output queues; for SHARP and NVLS: seen uploads, byte ledgers, chunk lists, result windows | EnqueueToVoq, ForwardPacket; ProcessAllReduce, ProcessAllGather, the multicasts, HandleSwitchNack | endpoints | one result per reduction, backed by every rank's data, repairable |
| `rdma-operation-engine` | sources, responders, receives, packets sent | Start, Receive, PacketAcknowledged, PermanentLoss | endpoint, submission model | each operation completes once, responders are freed |
| `rdma-submission-model` | works, queue pairs, fences, staging buffer, waits for quiet | Submit, Fence, Quiet, Publish, Ring, ExecuteWork, NotifyPacketAck, Observe | initiator, operation engine, PCIe | completions in order, fences hold, resources come back |
| `pcie-fabric` | link credits, tags, pending completions | SubmitTlp, Complete | submission model | tags and credits come back |
| `contention-model` | backlog per traffic class | enqueue, dequeue | endpoint pacer | backlog is what is queued |
| `dcqcn-rate-machine`, `rttcc-rate-machine` | rate, alpha, timers | OnCnp/OnRtt, timer events | endpoint | timers re-armed, stages in order |
| `protocol-transaction` | state, bytes observed and open dependencies of each node, ready queue, nested-call flags | Start, NotifyEvent, OnDelayExpired, Advance | config runner, collectives, which it calls back | nodes run after their dependencies, no delivery is missed, the end is notified |
| `protocol-config`, its runner | none; compiles a stencil to a graph | Compile, action and packet callbacks | executor, endpoints | chains complete on their last delivery |
| `ring-allreduce` | completed step and byte ledger per rank, scheduled sends, or an executor | Start, receive callback, scheduled sends | endpoints | every rank ends with every sum; lost data stalls it |
| other collectives | the same, on other schedules | receive callback | endpoints | a step advances on complete data only, all ranks finish |
| `fec-model`, `link-degradation`, `hybrid-routing-table`, protocol models, headers | random draws, tables, formulas | none of interest | endpoint | arithmetic |

The remaining parts (topology helpers, command line, surrogate model, web page,
stock ns-3) are set-up code, closed formulas or third-party code.

## 2. How the modules correspond to the code

**CreditBook / CreditManager** (`credit-manager.cc`).  `CreditBook` gives what
each call makes of a channel's entry; the same operators are used by
`CreditManager`, which explores every order of calls on every channel, and by
`FabricLink`.  Counters are computed modulo `Modulus` where the code does
unsigned arithmetic: `SetTotalCredits` really wraps when a window shrinks below
what is spent, and relies on two later corrections.  `inFlight` is the caller's
knowledge, not the book's: the packets that really are out.  `dropped`
counts, for each channel, the packets in flight that cuts of the window below
what was pending took off the books.

**ReorderBuffer** (`reorder-buffer.cc`).  A record: `expected`, the keys `held`
by the map, those of them already `done`, the permanent `gaps`.  The loop of
`DeliverReadyPackets` is given by where it ends (`StopsAt`); its clean-up,
which erases delivered entries from the front and stops at the first that is
not, is part of `DeliverReady`.

**ReceiveFlow** is the buffer under the endpoint's handlers
`ProcessDataPacket` and `ProcessPermanentLossNotice`, in any order and with any
repetition; **InOrderDelivery** is what that promises the application.  `taken`
is a history variable, the numbers `Insert` accepted.

**LlrManager** (`llr-manager.cc` and the endpoint's send path).  `store` is
`m_sourceStore` with retry count, `wireArmed` and the timer; `copies` the keys
of `m_retryBuffer` with its two overflow policies; `egress` the packets between
`StorePacket` and the wire (pacer, service time, FEC encoder); `reloads` the
retransmissions that wait for a source reload, or behind one that does.  A copy
on the wire is answered by an acknowledgement, a NACK, or never.  The egress is
first in first out and knows no PFC hold: both would only keep a packet in it for
longer, and no property of the module is about the order in it (`PfcFabric` has
a pacer with both).

**FabricLink** (`fabric-endpoint.cc`, `fabric-endpoint-send.cc`).  One flow
between two endpoints: send queue, credit gate, the ledger
`m_creditsReturned`, cumulative acknowledgement, retry, permanent loss, and
three ways of receiving: with the reorder buffer, bypassing it, and strict
go-back-N.  `net` counts the copies of each frame on their way, so frames are
reordered freely.  `CorruptData` is a frame the receiver NACKs, `DropSilently`
one nobody hears of.  A run starts in any of the configurations of `Confs`.
Abstracted: pacing (a frame is on the wire when it is sent; `LlrManager` has
the pacer), the retry buffer (a retransmission may be prompt or wait; again
`LlrManager`), sizes and times.

**TxWindow / EthernetSwitch / PfcFabric** (`fabric-endpoint.cc`,
`fabric-endpoint-rdma.cc`, `ethernet-switch.cc`, `nvswitch.cc`).  `TxWindow` and
`EthernetSwitch` give what each handler makes of one endpoint and of one output
port; `PfcFabric` puts endpoints behind the port.  A packet is its place in the
workload and belongs to a class, destination and channel, which is what a PAUSE
holds.  A pump dispatches as many packets as the window has room for; a
fragment of a held class parks in the send queue, keeps its slot and ends the
pump.  Draining a queue before pumping a window, or only pumping one of the two
queues, is a property of the code the order of composition (`Then`) shows.  On
the switch a latch belongs to a hop (input port and channel); the watcher that
polls it is pending exactly while it is latched, so the latch stands for it.
A send is handed to the device at once or, in `paced` configurations, deferred:
`pacer` is a set, since delays differ.  `SendDeferredEgressInternal` asks again
whether the class is held and polls every 500 ns until it is not, so a deferred
send may be passed by packets that a RESUME releases from the queue or the
window; repairs are exempt.  Its retry timer starts when the device has it.
Behind the device data travels in order, control frames travel back in order,
ACKs in any order.  Control and retry frames of other traffic share the port's
queue (`EnqueueExempt`): they count for depth, thresholds and hard cap, are
exempt from headroom, pause and lossy drop, and are dropped without a NACK when
the queue is full.  The way of the modelled endpoints' own ACKs and control frames
is not congested.  Endpoints run in
SACK mode with a retry store reduced to its counter, and all destinations are
remote, for which the credit gate lets packets pass.

**SharpSwitch** (`nvswitch.cc`).  Per flow the uploads seen, the effective bytes
of each rank, the chunk lists that shape a result, the partitions already
reduced, the scheduled result events, and per destination the window of results
kept for repair.  Uploads arrive in any order and, if their ACK is lost, again
at any later time.  A result event may shape its packets after any rank's
chunks, since the code takes the first of an unordered map.  `arrived`,
`output` and `finished` are history variables.

**RdmaSubmission** (`rdma-submission-model.cc`).  One initiator.  The events the
code schedules are queues, served first in first out because the code computes
their times from monotone ledgers: CPU hand-off, device-to-host copies, building
and fetching of work-queue entries, completions.  Across queues every order
happens.  The operation engine is the environment: it completes or fails an
executed operation, loses a packet for good (`NotifyFailure`), and stages the
answers of a responder in the same buffer.  A workload is a list of calls.

**TransactionGraph / TransactionExecutor** (`protocol-transaction.cc`).  A graph
is a function from node identifiers to nodes.  `Advance` is taken apart at the
points where it calls out: `Drain` is one round of its loop over ready nodes,
`Issue` one action callback, `EndPass` the decision between another pass and
the notification.  An event is delivered when no call is under way or from
within a callback, in which case the nested `Advance` only sets
`advanceRequested`.  The queues are sets, served in any order; the program's
order, by node number, is one of them.  Matchers are reduced to the transfer
they single out, and packets carry one byte each.  `Reset` is only called when
an executor is disposed of.  Two branches are left out: a DELAY that ends beyond
the simulator's time horizon stays active and has no event
(`protocol-transaction.cc:648`), which is a wait for ever by intent; and the
runner's fallback to the packet's size when a delivery has no effective bytes
(`protocol-config-runner.cc:219`), which bulk fragments always have
(`fabric-endpoint.cc:4084`, `4125`).

**ProtocolConfig** (`protocol-config.cc`, `protocol-model.cc`) is the graph that
`Compile` emits: a chain for each value of the first replicate variable.  What
comes before (parsing, expressions, ranges) only decides whether there is one.

**RingSchedule / RingAllReduce** (`ring-allreduce.cc`).  `RingSchedule` has the
pure part: neighbours, positions along the embedded ring, the segment a rank
sends in a step, its size.  `RingAllReduce` has both forms of the collective:
the receive-driven one with a ledger for each rank and step, and the
transaction graph, run by the executor of the module above.  The program counts
bytes and carries no data; the history variables `contents` and `payload` say
what the data would be, the set of ranks summed up in a segment, so that
`AllReduced` can state the point of the collective.  The fabric below is
reduced to what `FabricLink` promises it: bytes arrive once and in any order
relative to other transfers, or are reported lost.

## 3. What TLC checks

| Run | Instance | What it shows |
|---|---|---|
| `credit_book` | 2 channels, windows to 3, 4 in flight, 4-bit counters | `CreditConservation`: the assertion in ConsumeCredit and ReturnCredits never fires. `NoPhantomPending`: no credit is withheld for a packet that is not out. `InFlightWithinWindow`: what is in flight exceeds the window by no more than the packets that cuts dropped from the books |
| `receive_flow` | 5 numbers, 2 slots | `DeliversInOrder` (refinement of `InOrderDelivery`), `WaitsOnlyForMissing`: once every number up to s was taken or declared lost, s was reported; `AckedIsSafe`, and `SlotsAccounted`: the capacity holds as long as no number that arrived is declared lost too |
| `receive_leak` | same | **violation** of `WithinCapacity`, see below |
| `llr` | 2 flows, 3 packets in all (4 in one configuration), 1 retry, 2 fast copies; go-back-N and SACK, both overflow policies, with and without the backstop | `CopiesAccounted`, `RetryBudget`, `NeverStranded`, `FlowsIsolated`, and `EventuallySettled` although nothing is ever answered |
| `link` | 3 packets (reordered) or 2 (bypassing, strict), 2 credits, 1 slot, 1 retry, losses and corruption, both retry modes | `CreditExactlyOnce`, `CreditNotEarly`, `NoLostWakeup`, `NeverForgotten`; for strict flows `ToldInOrder` and `StrictNeverAwaitsLost`; the order of delivery of reordered flows is `receive_flow`'s |
| `link_live` | 2 packets, 1 credit, 2 losses, fairness | `EveryPacketTold`, `WindowReopens` |
| `pfc` | up to 6 packets, window of 3 or 5, threshold 2, headroom 1, 1 re-send; modes 1 to 3, one or two destinations, channels and endpoints; lost PFC frames, lossy drops, timeouts, deferred sends, up to 8 exempt frames in a queue of 7 | `SlotsExact`; `FlowsKeepOrder`: packets of a flow are handed to the egress in order and, where nothing is deferred, reach the wire in order; `HoldIsOwned`; `HeadroomBoundsData`: a bound on the data packets queued; `EverySendSettles` |
| `pfc_lost_resume` | two destinations behind one hop, 1 loss | **violation** of `HoldIsOwned`, see below |
| `sharp` | 2 ranks (3 for the all-gather with fewer bytes than ranks), 1 or 3 flows, up to 2 rounds, 2 partitions, padding, 2 lost packets | `ResultsBacked`, `RecentRepairable`, `EveryRankServed` |
| `rdma_submission` | 4 workloads of 5 to 7 calls: two peers with two queue pairs, staged with a responder, moderated, failing | `FencedOrder`, `SendQueueOrder`, `ResourcesExact`, `ToldWhenDone`, `EventuallyTold` |
| `transaction_executor` | 2 chains of 2 transfers of 2 bytes (or none), with and without delays, completion on all or any, 1 loss | `DependencyOrder`, `DeliveryIsHeard`, `CompleteIsTotal`, `EventuallyNotified` |
| `ring_allreduce` | rings of 2 and 3 ranks in both forms (3 ranks with fewer bytes than ranks, even and uneven segments), a receive-driven ring 0-1-3-2 with 5 bytes, the degenerate rings, 1 loss | `AllReduced` (a collective reports completion with every sum at every rank, and never after a loss), `SendsOnCompleteInput`, `EventuallyComplete` |

**Bounds.**  One more packet than credits makes the sender queue; one more
than slots makes the reorder buffer refuse; three packets give go-back-N a
packet before, at and after the one requested; `RetryLimit = 1` gives each
packet a repair and a loss.  `Modulus` is larger than any honest value, so that
a wrap shows as an out-of-range number instead of landing on a plausible one.
A frame dropped in silence and one that stays on its way for ever look the same
to every safety property, so the reordered flows of `link` spend their states on
orders and leave silent loss to the run that checks liveness.
In `pfc` a window larger than threshold and headroom lets the switch pause a
sender with packets still in flight, a smaller one makes fragments and RDMA
packets wait for each other; `ResendLimit` losses are as many as the code
undertakes to survive, and `CtrlBound` keeps a mode-3 port from re-asserting its
pause without end while the endpoint stands still.  One exempt frame shifts the
depth at which data is paused, `VoqDepth + 1` of them fill the queue, so that
data meets the hard cap; `Deferred` has pauses, repairs, drops and timeouts meet
packets in the pacer.  In `sharp` two generations
of three flows make a window retire while a NACK is under way, and two partitions
of three bytes are uneven.  In `rdma_submission` queue depth, moderation and
batch are 2 or 3 against up to seven works, so that queues fill and tails stay.  Two bytes for each
transfer separate a partial from a complete delivery.  Three ranks are the least
on which a rank's two neighbours differ, so that after the reversal the input of
a later step overtakes the current one; four are the least with an embedding
that is not a rotation of the ranks.  The transaction form stays at three ranks: its graph
grows with the square of the ring.  Deadlock is not checked: a
flow that has sent all its packets, or a collective that is complete, stops.

**Fairness.**  Weak fairness of the handlers of frames on the wire, of pending
timers and of source reloads: each is an event in the ns-3 queue, which runs
every event that is not cancelled.  Nothing is assumed about when the
application sends or whether the fabric loses frames (only how often).
The executor and the ring run on as long as something is scheduled, under way
or called back; `EventuallyNotified` and `EventuallyComplete` except behaviours
with a loss, in which stalling is what the code intends.
`llr` assumes no answer from the fabric at all.  In `pfc` and `sharp` the fabric
may lose frames but need not; in `rdma_submission` an executed operation that
was not declared failed is eventually completed by its peer.  The liveness
properties are stated for endpoints that enable the timeout retransmission,
which is opt-in (`EnableLlrTimeoutRetransmit`).

### What the violations show

* `receive_leak` — `AdvancePastPermanentGaps` steps over a number whose packet
  is parked and leaves its entry in the map.  The clean-up stops at that entry
  for the rest of the flow, so delivered entries pile up and the buffer grows
  past the capacity that `Insert`'s comment promises.
* `pfc_lost_resume` — the endpoint holds destinations, the switch remembers one
  header and one re-send budget for a hop.  When a second pause for another
  destination begins while RESUMEs of the first are still to be repeated, it
  overwrites the header and erases the budget; a lost first RESUME is then never
  repeated, and the hold it should lift has no owner.  With one destination
  behind a hop, or without loss, `HoldIsOwned` holds (`pfc`).

Further behaviour met while modelling, visible by changing one constant:

* `SetTotalCredits` below what is pending forgets the overdraft
  (`credit-manager.cc:208-213`): the excess packets stay in flight and their
  returns grant new credits, hence `dropped` in the bound of
  `InFlightWithinWindow`.
* A packet that is in the pacer when its class is paused polls on; after the
  RESUME packets parked or queued behind it may reach the device first
  (`fabric-endpoint.cc:3696`).  The receiver's reorder buffer, or a retry, makes up
  for it; `FlowsKeepOrder` claims no order on the wire for deferred sends.
* A go-back-N request counts a retry against every outstanding packet from the
  requested one on, also those still in the pacer (`llr-manager.cc:409`): two
  requests declare a packet lost that was never transmitted.
* The loss notice of a bypassing flow goes to a reorder buffer that has never
  seen its data (`fabric-endpoint.cc:1824`): a packet that arrived, but whose
  ACKs were late, is reported lost as well.
* A read response that is lost for good is reported to nobody
  (`rdma-operation-engine.cc:668`), since the responder does not own the
  operation; its staging stays taken.
* A PERMANENT_LOSS frame is sent once.  With `"PERMANENT_LOSS" \in SilentDrops`
  `EveryPacketTold` fails: the receiver waits for the number for ever.
* A strict flow handles a loss notice without calling the receive callback, and
  a bypassing flow reports a loss only when it is of the next number of a
  reorder buffer that never advances on data: `EveryPacketTold` fails for
  `Bypassed` configurations.
* In transaction form `m_gpuCompletedStep` is the step of the last delivery, not
  the number of completed steps: after the reversal a rank may get the input of
  step N-1 before that of step N-2, and the counter steps back.  Only the log
  reads it.
* The receive-driven ledger drops a packet for a rank that has completed all its
  steps; with exactly-once delivery below no such packet exists.

## 4. What is proved

`tlapm` checks the proofs for all values of the constants.  The type invariants
of the credit manager, the receive flow and the retry manager are proved here
and not repeated in the runs.

**CreditManagerProofs.**  Assumption: the windows and the packets in flight are
small against 2^32 (`ConstantsAssumption`).  Inductive invariant `IInv` = types,
balance, `NoPhantomPending`, and `EveryPacketBooked`: the packets in flight are
at most the pending credits and those a cut dropped, and the dropped ones are in
flight.  The last part is needed because `InFlightWithinWindow` alone says
nothing of the book: a return could be capped although a packet is still out.
One lemma per operation (`ConsumedBalanced`, `ReturnedBalanced`,
`ResizedBalanced`) carries the modular arithmetic: a resize either is an
overdraft, or the wrapped sum equals the honest one.  Theorems: `CreditTypes`,
`CreditsBalance`, `PendingIsInFlight`, `WindowBoundsFlight`.

**ReceiveFlowProofs.**  No assumption beyond bounds being naturals.
`LeastElement` (well-foundedness of the naturals) gives `StopsAtFirst`: the
drain loop has an end, everything before it is parked or a gap, and it is
neither.  `DrainedBuffer` gives the buffer after a drain.  The invariant adds
`Provenance`: what is parked has arrived, what is a gap has been declared.
`DrainStep` shows that every drain is a step of `InOrderDelivery`.  Theorems:
`ReceiveTypes` and `FlowKeepsPromise`, the refinement itself
(`Promise == INSTANCE InOrderDelivery WITH ...`).  `NothingHeldBack` proves
`WaitsOnlyForMissing` from `NothingForgotten` (what `Insert` took is settled or
still held, what was declared is settled or still marked), which refusals,
clean-ups and skips must keep: the number the flow waits for is then neither
taken nor declared.  The lemmas about the buffer
alone are in `ReorderBufferProofs`, which `FabricLinkProofs` uses too.
`AcksAreSafe` adds `DoneIsPast` (entries marked delivered lie below the expected
number): a re-acknowledged duplicate is found in the map, and only with that
fact is being in the map the same as being settled or parked.
`SlotsStayAccounted` adds `SlotsClean`: as long as arrived and declared numbers
are apart, a drain that starts at an entry erases it (`DrainErases`), and a
buffer that was full has room again.

**FabricLinkProofs.**  Assumption: the bounds are naturals, the window not 0.
None of the six invariants is inductive alone: a credit is exact only if the
acknowledgements under way name packets that were sent, and an acknowledgement
is honest only by what the receiver has booked.  `IInv` joins what each side
may rely on:

* `QueueInOrder`: what waits is the numbers behind the ones that were sent;
* `LedgerExact`: credits out are the packets sent and not credited, and nothing
  waits beside a free credit;
* `OnlySent`: ledgers, frames and receiver name packets that were sent;
* `Vouched`: an ACK, a CREDIT or a credited number is of a packet that arrived
  or was given up (cumulative ACKs vouch for all numbers below);
* `KeepsCopies`: whatever is neither settled nor waiting has a copy in store;
* `ReceiverBacked`: the reorder buffer holds what arrived, its gaps were
  announced by the sender;
* `TellsInOrder`, `StrictNeverAwaitsLost`: the reports, and the strict counter.

There is one lemma per handler and under it one step per part.  The drains are
taken from `ReorderBufferProofs`; that the drain of the send queue stops at the
window needs the cardinality of an interval of numbers.  Theorems: `LinkInvariant`,
`LinkTypes`, `CreditsOnce`, `NoWakeupLost`, `CreditsNotEarly`, `NothingForgotten`,
`StrictMovesOn`, `ReportsInOrder`, `SendsInOrder`.

**TransactionExecutorProofs.**  Assumption (`GraphsAssumption`): graphs are
finite and `Paired`: each wait depends on the one action of its transfer and
waits for that action's bytes.  `ProtocolModel::AddTransaction` emits nodes of
that shape and nothing else in the program adds actions or waits.  From
`Validate` the proofs use that dependencies are nodes, that the graph has one
completion and that every node reaches it.
`DependencyOrder` is not inductive, because the program does not
look at the dependencies when it queues a node but at a counter.  The invariant
adds `Counted` (the counter is the number of open dependencies until the node is
queued), `QueuedReleased` (what is queued is pending and may run) and
`NotBeforeStart`.  `CompletionKeeps` carries the argument for the completion of
any set of nodes at once: if the counter equals the number of dependencies among
them, these are all that were open.  Theorem: `RunsInOrder`.
`DeliveriesHeard` adds `HeardInv`: a wait whose action is collected for the
callbacks of a pass is active or about to be (`NoneOverlooked`, `WaitsFirst`), and an
action is collected once.  `CompletionIsTotal` adds `ByteInv`: no byte is counted
twice (`NoByteTwice`), a completed wait has all of them, and a lost packet leaves
its wait short for ever (`LossLeavesMark`).  Its last step goes from the completion
node to all nodes.  That is an induction along the backward search of
`AllReachCompletion`, which the prover cannot do; `SearchStaysInside` shows it
directly: the nodes completed are closed under dependencies, and the least
round of the search that leaves them (`LeastNumber`) has no predecessor.

**LlrManagerProofs.**  Assumption: finitely many flows and bounds that are
naturals (`LlrAssumption`).  `IInv` = types, `RetryBudget`, `CopiesAccounted` and
`NotSentYet`: a number not sent yet has no entry, no repair and no verdict.
Without the last part a fresh entry could start at zero retries beside repairs
already counted, so `RetryBudget` is not inductive alone.  `StoreKeepsLimit`
carries the three outcomes of `StorePacket` on a full buffer, `HandleKeeps` a
request that gives some packets up and repeats others.  The queues before the
wire need no types: whatever they name is looked up in the store.  Theorems:
`LlrTypes`, `BudgetIsExact`, `CopiesStayAccounted` and, as an action property
from the same invariant, `FlowsStayIsolated`.
`NothingStranded` needs the queues after all (`WatchInv` = `QueueTypes`,
`AllWatched`): a request stops the timers of the packets it repeats and must
queue *every* one of them.  `InOrderLists` proves that enumerating a finite set
of numbers in order leaves none out, by ranks instead of induction.

**PfcFabricProofs.**  Assumptions: finitely many ports and channels, and
configurations of the right types with a window that is not 0
(`FabricAssumption`); a queue depth, a pause threshold and a re-send limit that
are not 0 (`SwitchAssumption`: the attribute checker of `PfcPauseThreshold` starts
at 1).  Any number of endpoints, destinations, packets, losses and all modes are
covered.  The invariant has a part per endpoint, `Good`, and a part for the port.

`Good` relates an endpoint to the packets it was given and to those beyond it
(at the switch, or acknowledged on their way back):

* `Waiting`: what waits for the window is the packets given last, in order;
* `Slots`: a slot belongs to a parked packet or to one in the retry store.  It is
  stated relative to the packets whose slot was just released and whose copy is
  still stored, because the acknowledgement handler pumps the window *between*
  the two;
* `Apart`: a packet parks once, and only before it is handed to the egress, so an
  ACK never names a parked packet.  Without it an ACK could free the slot of a packet that
  still sits in the queue;
* `Ordered`: parked packets are in flow order, nothing behind a parked packet of
  its flow was handed on, and where sends are not deferred the ones on the wire
  that were never repaired are in flow order as well;
* `Parked`: only packets of held classes are parked.  Without it the pump
  that follows a RESUME would overtake what the drain left behind.

There is one lemma per handler (`AckKeeps`, `RetriedKeeps`, `GivenUpKeeps`,
`PausedKeeps`, `LiftedKeeps`, ...) on top of `DispatchedKeeps`, which shows that packets
behind all others (`Follows`) may be sent or parked in one go.  `PickedIs` gives the
two parts of such a batch, by ranks of positions instead of induction.

For the port, `HeadersKept` says that a hop that is latched or re-sends a RESUME has
the header it needs and is never both, so that every RESUME goes to an endpoint.
`HeadroomBoundsData` is not inductive: packets leave the queue and hops are
unlatched independently.  `VoqAccounted` bounds the data packets in the queue
(`DataLen`; exempt frames add nothing to it and may fill the queue) by the
threshold and the number of `Tokens`, one for each latched hop and one for each packet charged to
its headroom.  A packet admitted at or above the threshold adds a token (it
causes the pause, or is charged), and a hop gives its tokens up only when the
queue is back at the threshold (`ThresholdBounded`: the scaled threshold of mode 2
never exceeds the configured one).  Theorems: `FabricInvariant`, `FabricTypes`,
`SlotsStayExact`, `OrderKept`, `HeadroomSuffices`.

**RdmaSubmissionProofs.**  Assumptions: queue pairs, producers, queue depth,
batch and moderation counts that are not 0, a chunk size that is not 0 where the
data path is staged, and calls that name peers of the configuration and at least
one byte (`SubmissionAssumption`; `RdmaConfig` is validated to that).  Any number
of peers, queue pairs, calls, failures and any sizes are covered.

`FencedOrder` compares calls, which lie before staging, with executions, which lie
after it, so it says nothing about the states between.  The invariant `IInv` has
two halves that meet at `fenceThrough`:

* `Calls` follows the user's side.  A work made after a fence of its peer carries
  a mark behind *everything* that was submitted before the fence; the signal of a
  put carries the id before its own.  It needs that ids are given out in the order
  of the calls and that no mark reaches an id not given out yet: otherwise a
  later work could put an issued one behind a fence after the fact;
* `Good` follows the model's side.  `Shape` says that every queue holds ids that
  were given out, so that a new work is never in a pipe already.  `Fenced` says that
  a work in the pipe of a queue pair, if it is still known, was issued, that only
  issued works are executed, and that no issued work is behind a fence.  The last
  part survives every step because acknowledgements are never taken back and a
  retired work no longer blocks.

Each operator of the model has one lemma (`PumpKeeps`, `EnqueuedKeeps`, `ProgressKeeps`,
`FreedKeeps`, ...) with the same two conclusions: the result is `Good`, and what
orders the works is the same (`Same`).  The second one is transitive, so a handler
that chains five operators, like `Observe`, is proved by composing their lemmas.
`GrownKeeps` is the reason each of them holds.  `AscendingIs` shows by ranks that
the sorted send queue holds exactly the works put into it, and `Largest` that the
longest prefix a loop takes exists.

`ToldWhenDone` takes a second invariant beside `IInv`, `TInv`: a request has been told
exactly when no work of its call is left, a wait for quiet that is still pending
has a watermark behind everything that was submitted before it, and nobody has
been told of a failure while the model has counted none.  Inside `Observe` the calls
whose last works have just retired are neither: `Told(s, due, ...)` names them as
due, `Freed` adds them and `CheckQuiet` clears them.  No other operator concerns the
callbacks (`Silent`, which is transitive like `Same`), and the success of a quiet
follows because a failure sets the flag of its request and the model's count in one
step (`FailedTold`).

Neither needs that the queues keep their order: a work that overtakes another on
its queue pair is still held by its own mark.  That order is `SendQueueOrder`, and
it takes a third invariant, `LInv`, which follows a work from its submission to its
completion on its queue pair:

* `Placed`: a work that is not issued is in exactly one of the hand-offs, the copies
  and the send queues; what is handed over is behind every other work, and copies
  are taken in the order of the ids.  Inside a step a work may be on its way
  from one place to the next: `Placed(s, out)` names those works;
* `Queued`: whatever comes before a work in a send queue waits there too or is
  covered by its mark, so the work cannot be issued past a copy that is still
  running;
* `InTurn`: the works of a queue pair are issued in the order of their ids.  A work
  without payload skips staging and could overtake one that is being copied; it
  does not, because a read is marked behind the payloads before it and a signal
  behind its own;
* `Piped`: what is issued and not executed is in the pipe of the queue pair, in
  order and behind everything executed;
* `Reported`: the outstanding works ascend, and a completion that has been written
  lies before everything still outstanding or not issued.

`UnmovedLine` covers the steps that move no work; the others have one lemma per
operator (`PumpLine`, `EnqueuedLine`, `StartedLine`, `ProgressLine`, `LeftLine`,
`FreedLine`, ...), composed as those of `Good` are.

Theorems: `SubmissionInvariant`, `FencesHold`, `CallbacksTold`, `SendQueuesInOrder`.

**Only model-checked.**

* `PfcFabric.HoldIsOwned`: it does not hold for all constants (run
  `PfcLostResume`), only where no frame is lost, or a hop serves one destination
  and no more frames are lost than are sent again.
* `RdmaSubmission`: `ResourcesExact` equates the counters with sums over the works
  that hold them; works retire several at a time, and the sum of a set of any
  size is an induction over data.
* `SharpSwitch`: `ResultsBacked` compares sums of effective bytes over sets of
  fragments; that one more fragment adds its bytes to such a fold is again an
  induction over data.  `RecentRepairable` does not hold for every collective: a
  rank that owes nothing to an all-gather does not hold up its next round, so a
  flow can be evicted and complete again before that rank's NACK arrives (two
  flows, two rounds, one byte, `ResultGenerations` 1: TLC finds it in 10 states).
  The configurations of the run exclude it: only one of them has competing flows,
  and there every rank uploads.
* `RingAllReduce`: that the segments add up is an induction over the steps of
  the schedule; the executor under it is proved.
* Liveness (`EventuallyNotified`, `EverySendSettles`, ...), which is out of the
  prover's reach, as is `ENABLED`.

## 5. Not modelled, and the plan

`PROJECT.json` lists every component with its status and the hazards found
while reading, those without a property included.

* *RDMA operation engine* — responder slots, receive matching, RNR retries and
  the two-sided acknowledgement of reads; it would take the place of
  `RdmaSubmission`'s environment.
* *PCIe fabric* — link credits, tags and completions below the submission model,
  and receive staging.
* *NvSwitch* — the arbiters' choice between queues, routing, port failures; in
  `EthernetSwitch` ECN marking, and holds owned by several switches.
* *Endpoint* — memory packets, forwarding, an endpoint whose send queue mixes
  local packets (which need credits) and remote ones (which a pause parks).
* *Other collectives* — the per-step ledger of the ring on further schedules.
* *Rate machines and contention backlog* — arithmetic on floating-point rates
  with a thin layer of control.
* Set-up code, parsing, formulas, serialisation of headers, statistics: no
  order of events changes what they do.
* Stock ns-3 (most of `src/src`) is third-party code; its event queue is what
  the fairness conditions stand for.

Proofs next: `ResourcesExact` for `RdmaSubmission` and `ResultsBacked` for
`SharpSwitch`, with their sums written as cardinalities of sets of packets and
of bytes, for which the library has the step of adding one element.

Out of reach: floating-point rates and service times, random draws (they are
nondeterministic choices here), sequence numbers after 2^32 packets, memory
safety.
