----------------------------- MODULE PfcFabric -------------------------------
(***************************************************************************)
(* Endpoints that send through one output port of an Ethernet switch.      *)
(* Data travels from the endpoint's device to the switch in order, control *)
(* frames (PAUSE, RESUME, NACK) travel back in order and may be lost;      *)
(* acknowledgements come from behind the port in any order.  Control and   *)
(* retry frames of other traffic share the port's queue.                   *)
(***************************************************************************)
EXTENDS TxWindow, EthernetSwitch, FiniteSets

CONSTANTS
    Source,    \* the endpoints
    Dest, Vc,  \* destinations and virtual channels
    InPort,    \* the switch's input ports
    MaxLoad,   \* bound on the packets of one kind an endpoint sends
    Confs,     \* the configurations a behaviour may start in (see conf)
    CtrlBound  \* bound on the frames in flight to an endpoint at a re-PAUSE

VARIABLES
    conf,    \* window: m_soTxWindow; paced: sends are deferred; mode:
             \* m_pfcMode; perVc: thresholds are set per channel;
             \* dropThreshold: m_voqDropThreshold, 0 for none; quanta:
             \* m_pfcPauseTimeUs; timeout: EnableLlrTimeoutRetransmit was
             \* called; losable, maxLosses: types and number of control
             \* frames the fabric may lose; exempt: the hops of the control
             \* and retry frames that pass the port; ingress: the input port
             \* each endpoint is behind; bulk and rdma: the classes of the
             \* packets each endpoint sends
    given,   \* per endpoint, how many bulk and RDMA packets were submitted
    ep,      \* the endpoints (TxWindow)
    port,    \* the output port (EthernetSwitch)
    ctrl,    \* per endpoint, control frames on their way to it
    acks,    \* acknowledgements on their way: endpoint and packet
    losses,  \* control frames lost so far
    exempt   \* control and retry frames that came to the port so far

\* A traffic class: what a pause holds back.
Class == Dest \X Vc
Hop == InPort \X Vc

ASSUME FabricAssumption ==
    /\ IsFiniteSet(InPort) /\ IsFiniteSet(Vc) /\ MaxLoad \in Nat
    /\ \A c \in Confs :
          /\ c.window \in Nat \ {0} /\ c.mode \in 0..3
          /\ {c.dropThreshold, c.quanta, c.maxLosses} \subseteq Nat
          /\ {c.perVc, c.timeout, c.paced} \subseteq BOOLEAN
          /\ c.ingress \in [Source -> InPort] /\ c.exempt \in Seq(Hop)
          /\ \A s \in Source :
                /\ {c.bulk[s], c.rdma[s]} \subseteq Seq(Class)
                /\ Len(c.bulk[s]) <= MaxLoad /\ Len(c.rdma[s]) <= MaxLoad

vars == <<conf, given, ep, port, ctrl, acks, losses, exempt>>

Packet == {"bulk", "rdma"} \X (1..MaxLoad)

ClassOf(s, p) == ep[s].class[p]
HopOf(s, p) == <<conf.ingress[s], ClassOf(s, p)[2]>>

Pause(c) == [type |-> "PAUSE", of |-> c]
Resume(c) == [type |-> "RESUME", of |-> c]
Nack(p) == [type |-> "NACK", of |-> p]

Init ==
    /\ conf \in Confs
    /\ given = [s \in Source |-> [bulk |-> 0, rdma |-> 0]]
    /\ ep = [s \in Source |-> NewEndpoint(conf.window,
                [p \in {<<"bulk", i>> : i \in DOMAIN conf.bulk[s]}
                        \cup {<<"rdma", i>> : i \in DOMAIN conf.rdma[s]} |->
                    IF p[1] = "bulk" THEN conf.bulk[s][p[2]] ELSE conf.rdma[s][p[2]]],
                conf.paced)]
    /\ port = NewPort(Hop)
    /\ ctrl = [s \in Source |-> <<>>]
    /\ acks = {}
    /\ losses = 0
    /\ exempt = 0

-----------------------------------------------------------------------------
(* The endpoints.                                                          *)

\* The windowed branch of SendBulkWireTransferSize: a message of n fragments
\* of one class is queued and the window pumped.
SendBulk(s, n) ==
    LET first == given[s].bulk + 1
        ps == [i \in 1..n |-> <<"bulk", first + i - 1>>]
        longer == [ep[s] EXCEPT !.bulk = @ \o ps]
    IN  /\ first + n - 1 <= Len(conf.bulk[s])
        /\ \A i \in 1..n : conf.bulk[s][first + i - 1] = conf.bulk[s][first]
        /\ given' = [given EXCEPT ![s].bulk = @ + n]
        /\ ep' = [ep EXCEPT ![s] = Then(longer, PumpBulkTxWindow)]
        /\ UNCHANGED <<conf, port, ctrl, acks, losses, exempt>>

QueueRdmaOperationPacket(s) ==
    LET longer == [ep[s] EXCEPT !.rdma = Append(@, <<"rdma", given[s].rdma + 1>>)]
    IN  /\ given[s].rdma < Len(conf.rdma[s])
        /\ given' = [given EXCEPT ![s].rdma = @ + 1]
        /\ ep' = [ep EXCEPT ![s] = Then(longer, PumpRdmaOperationPackets)]
        /\ UNCHANGED <<conf, port, ctrl, acks, losses, exempt>>

ProcessAckPacket(s, p) ==
    /\ <<s, p>> \in acks
    /\ acks' = acks \ {<<s, p>>}
    /\ ep' = [ep EXCEPT ![s] = Acknowledged(@, p)]
    /\ UNCHANGED <<conf, given, port, ctrl, losses, exempt>>

\* A deferred send is due and not held.
SendDeferredEgressInternal(s, x) ==
    /\ MayDepart(ep[s], x)
    /\ ep' = [ep EXCEPT ![s] = Departed(@, x)]
    /\ UNCHANGED <<conf, given, port, ctrl, acks, losses, exempt>>

\* The retry timer runs from the moment the device has the packet
\* (ArmRetryTimeoutOnWire).
OnLlrRetryTimeout(s, p) ==
    /\ conf.timeout
    /\ p \in DOMAIN ep[s].retries \ {x[1] : x \in ep[s].pacer}
    /\ ep' = [ep EXCEPT ![s] = Retried(@, p)]
    /\ UNCHANGED <<conf, given, port, ctrl, acks, losses, exempt>>

PfcPauseExpired(s, c) ==
    /\ c \in ep[s].expiry
    /\ ep' = [ep EXCEPT ![s] = Lifted(@, c)]
    /\ UNCHANGED <<conf, given, port, ctrl, acks, losses, exempt>>

\* The endpoint handles the next control frame.
ProcessControl(s) ==
    LET frame == Head(ctrl[s]) IN
    /\ ctrl[s] # <<>>
    /\ ctrl' = [ctrl EXCEPT ![s] = Tail(@)]
    /\ ep' = [ep EXCEPT ![s] =
                CASE frame.type = "PAUSE"  -> Paused(@, frame.of,
                                                   IF conf.mode = 3 THEN conf.quanta ELSE 0)
                  [] frame.type = "RESUME" -> Resumed(@, frame.of)
                  [] frame.type = "NACK"   -> Retried(@, frame.of)]
    /\ UNCHANGED <<conf, given, port, acks, losses, exempt>>

\* A degraded link loses the next control frame.
LoseControl(s) ==
    /\ ctrl[s] # <<>> /\ Head(ctrl[s]).type \in conf.losable
    /\ losses < conf.maxLosses
    /\ ctrl' = [ctrl EXCEPT ![s] = Tail(@)]
    /\ losses' = losses + 1
    /\ UNCHANGED <<conf, given, ep, port, acks, exempt>>

-----------------------------------------------------------------------------
(* The switch.                                                             *)

\* EnqueueToVoq with OnPacketEnqueue: the next data packet of s arrives.  The
\* lossy drop comes after the pause, so a packet may cause one and be dropped.
Enqueue(s) ==
    LET p      == Head(ep[s].wire)
        hop    == HopOf(s, p)
        due    == PauseDue(port, conf.mode, conf.perVc, hop)
        paused == IF due THEN Latched(port, hop, [src |-> s, class |-> ClassOf(s, p)])
                  ELSE port
        pause  == IF due THEN <<Pause(ClassOf(s, p))>> ELSE <<>>
        lossy  == conf.dropThreshold > 0 /\ Len(port.voq) >= conf.dropThreshold
    IN  /\ ep[s].wire # <<>>
        /\ ep' = [ep EXCEPT ![s].wire = Tail(@)]
        /\ IF Refused(port, hop)
             THEN /\ ctrl' = [ctrl EXCEPT ![s] = Append(@, Nack(p))]
                  /\ UNCHANGED port
           ELSE IF lossy
             THEN /\ ctrl' = [ctrl EXCEPT ![s] = @ \o Append(pause, Nack(p))]
                  /\ port' = paused
           ELSE /\ ctrl' = [ctrl EXCEPT ![s] = @ \o pause]
                /\ port' = [Charged(paused, port, hop)
                              EXCEPT !.voq = Append(@, DataEntry(s, p, hop))]
        /\ UNCHANGED <<conf, given, acks, losses, exempt>>

\* EnqueueToVoq for a control or retry frame of any traffic: it is exempt from
\* headroom, pause and lossy drop, takes a place in the queue like any other,
\* and is dropped without a NACK when the queue is full.
EnqueueExempt ==
    /\ exempt < Len(conf.exempt)
    /\ exempt' = exempt + 1
    /\ port' = IF Len(port.voq) >= VoqDepth THEN port
               ELSE [port EXCEPT !.voq = Append(@, ExemptEntry(conf.exempt[exempt + 1]))]
    /\ UNCHANGED <<conf, given, ep, ctrl, acks, losses>>

\* Arbitrate and ForwardPacket, at once if the port is free and idle: the
\* packet reaches its destination, which acknowledges it, again if need be.
Forward ==
    /\ port.voq # <<>>
    /\ port' = [port EXCEPT !.voq = Tail(@)]
    /\ acks' = acks \cup {<<x.src, x.packet>> : x \in {y \in {Head(port.voq)} : IsData(y)}}
    /\ UNCHANGED <<conf, given, ep, ctrl, losses, exempt>>

\* The latch of a drained hop is lifted and the source of the pause resumed.
SendResume(hop) ==
    /\ port' = Unlatched(port, hop)
    /\ ctrl' = [ctrl EXCEPT ![port.header[hop].src] =
                  Append(@, Resume(port.header[hop].class))]

\* CheckPfcResume: polls a latched hop until it has drained (modes 1 and 2).
CheckPfcResume(hop) ==
    /\ conf.mode \in {1, 2} /\ hop \in port.latched
    /\ ~Congested(port, conf.mode, conf.perVc, hop)
    /\ SendResume(hop)
    /\ UNCHANGED <<conf, given, ep, acks, losses, exempt>>

\* RecheckPfcPause (mode 3): a hop that is still congested is paused again,
\* with fresh headroom.
RecheckPfcPause(hop) ==
    /\ conf.mode = 3 /\ hop \in port.latched
    /\ IF Congested(port, conf.mode, conf.perVc, hop)
         THEN LET header == port.header[hop] IN
              /\ Len(ctrl[header.src]) < CtrlBound
              /\ ctrl' = [ctrl EXCEPT ![header.src] = Append(@, Pause(header.class))]
              /\ port' = [port EXCEPT !.used[hop] = 0]
         ELSE SendResume(hop)
    /\ UNCHANGED <<conf, given, ep, acks, losses, exempt>>

ResendPfcResume(hop) ==
    /\ port.resends[hop] > 0
    /\ port' = Resent(port, hop)
    /\ ctrl' = [ctrl EXCEPT ![port.header[hop].src] =
                  Append(@, Resume(port.header[hop].class))]
    /\ UNCHANGED <<conf, given, ep, acks, losses, exempt>>

-----------------------------------------------------------------------------

SourceStep(s) ==
    \/ \E n \in 1..MaxLoad : SendBulk(s, n)
    \/ QueueRdmaOperationPacket(s)
    \/ ProcessControl(s) \/ LoseControl(s) \/ Enqueue(s)
    \/ \E x \in ep[s].pacer : SendDeferredEgressInternal(s, x)
    \/ \E p \in Packet : ProcessAckPacket(s, p) \/ OnLlrRetryTimeout(s, p)
    \/ \E c \in ep[s].expiry : PfcPauseExpired(s, c)

HopStep(hop) == CheckPfcResume(hop) \/ RecheckPfcPause(hop) \/ ResendPfcResume(hop)

Next ==
    \/ \E s \in Source : SourceStep(s)
    \/ \E hop \in Hop : HopStep(hop)
    \/ EnqueueExempt
    \/ Forward

Spec == Init /\ [][Next]_vars

\* The event queue runs every scheduled event; when the application submits
\* is its own affair, and the fabric need not lose anything.
FairSpec ==
    /\ Spec
    /\ WF_vars(Forward)
    /\ \A s \in Source :
          /\ WF_vars(ProcessControl(s)) /\ WF_vars(Enqueue(s))
          /\ WF_vars(\E x \in ep[s].pacer : SendDeferredEgressInternal(s, x))
          /\ WF_vars(\E c \in ep[s].expiry : PfcPauseExpired(s, c))
          /\ WF_vars(\E p \in Packet : ProcessAckPacket(s, p))
          /\ WF_vars(\E p \in Packet : OnLlrRetryTimeout(s, p))
    /\ \A hop \in Hop :
          /\ WF_vars(CheckPfcResume(hop)) /\ WF_vars(RecheckPfcPause(hop))
          /\ WF_vars(ResendPfcResume(hop))

-----------------------------------------------------------------------------

\* Each slot of the window is held by one packet that is parked or awaits its
\* acknowledgement, and by nothing else: ACKs, repeated ACKs, losses, late
\* ACKs of lost packets and parked packets together neither leak a slot nor
\* free one twice.
SlotsExact ==
    \A s \in Source :
        /\ ep[s].inflight = Cardinality(ep[s].window)
        /\ ep[s].inflight <= conf.window
        /\ ep[s].window = ToSet(ep[s].queue) \cup DOMAIN ep[s].retries

\* p and q are packets of one flow and p is the earlier one.
Precedes(s, p, q) == p[1] = q[1] /\ p[2] < q[2] /\ ClassOf(s, p) = ClassOf(s, q)

\* No packet of a flow is handed to the egress before an earlier one, also
\* when holds come and go: the parked ones wait in order ("preserving FIFO
\* order among the entries it does send") and what follows a parked packet is
\* not yet sent.  Where no delay puts sends off, packets that were never
\* repaired also reach the wire in order; deferred ones may pass each other.
FlowsKeepOrder ==
    \A s \in Source :
        LET x == ep[s]
            fresh == {p \in DOMAIN x.retries : x.retries[p] = 0}
            InOrder(ps, of) == \A i, j \in DOMAIN ps :
                {ps[i], ps[j]} \subseteq of /\ Precedes(s, ps[i], ps[j]) => i < j
        IN  /\ InOrder(x.queue, ToSet(x.queue))
            /\ \A p \in ToSet(x.queue), q \in DOMAIN x.retries \cup x.lost : ~Precedes(s, p, q)
            /\ x.paced \/ InOrder(x.wire, fresh)

\* A class is held at an endpoint only while something will lift the hold: the
\* endpoint's own timer, a RESUME on its way, or the switch, which has latched
\* the hop of that pause or has RESUMEs to send again.
HoldIsOwned ==
    \A s \in Source : \A c \in ep[s].holds :
        \/ c \in ep[s].expiry
        \/ \E i \in DOMAIN ctrl[s] : ctrl[s][i] = Resume(c)
        \/ \E hop \in Hop :
              /\ port.header[hop] = [src |-> s, class |-> c]
              /\ hop \in port.latched \/ port.resends[hop] > 0

\* The hops in use.
Active == {HopOf(x[1], x[2]) : x \in {y \in Source \X Packet : y[2] \in DOMAIN ep[y[1]].class}}

\* Without quanta the data packets in the queue are never more than the
\* threshold and, for each hop, the packet that caused its pause and the
\* headroom, whatever PAUSEs are lost or late and however many exempt frames
\* come between (those may fill the queue up to its hard cap).
HeadroomBoundsData ==
    conf.mode \in {1, 2} /\ Headroom > 0 /\ ~conf.perVc =>
        DataLen(port.voq) <= PauseThreshold + Cardinality(Active) * (1 + Headroom)

\* Every packet submitted eventually leaves the window, acknowledged or given
\* up: pauses, lost RESUMEs, parked packets and full windows delay it only.
Settled(s) == ep[s].bulk = <<>> /\ ep[s].rdma = <<>> /\ ep[s].window = {}
EverySendSettles == \A s \in Source : []<>Settled(s)
=============================================================================
