----------------------------- MODULE LlrManager ------------------------------
(***************************************************************************)
(* The sender's link-level retry (llr-manager.cc) with the part of the     *)
(* endpoint that puts packets on the wire.  A packet is identified by its  *)
(* flow and sequence number (RetryKey).  It stays in the source store from *)
(* the moment it is handed to the egress until it is acknowledged or given *)
(* up; a fast copy of it is kept in a finite retry buffer.                 *)
(*                                                                         *)
(* Between StorePacket and the wire lie the pacer, the service time and    *)
(* the FEC encoder: `egress' is that queue, one per flow.  Each copy on    *)
(* the wire is answered at most once, at any time: by an acknowledgement   *)
(* (ACK or CREDIT), by a NACK, or never.                                   *)
(***************************************************************************)
EXTENDS Integers, Sequences, FiniteSets

CONSTANTS
    Flow,              \* flows that share the manager
    LastSeq,           \* each flow sends the numbers 0..LastSeq
    RetryLimit,        \* m_retryLimit
    MaxBufferSize,     \* m_maxBufferSize, 0 for no bound
    Confs              \* the configurations the manager may run in

\* llrMode: SetLlrMode; overflowPolicy: SetBufferOverflowPolicy;
\* timeoutRetransmit: EnableLlrTimeoutRetransmit was called; load: how many
\* packets each flow is given to send.
Configuration ==
    [llrMode : {"GO_BACK_N", "SACK"},
     overflowPolicy : {"DROP_OLDEST", "DROP_NEWEST"},
     timeoutRetransmit : BOOLEAN,
     load : [Flow -> 0..(LastSeq + 1)]]

ASSUME LlrAssumption ==
    /\ LastSeq \in Nat /\ RetryLimit \in Nat /\ MaxBufferSize \in Nat
    /\ IsFiniteSet(Flow)
    /\ Confs \subseteq Configuration

VARIABLES
    conf,     \* the configuration, which never changes
    store,    \* m_sourceStore: key -> retry count, wireArmed, timer pending
    copies,   \* keys of m_retryBuffer
    egress,   \* per flow, packets held before the wire, first in first out
    reloads,  \* retransmissions held back, in order: key and sourceReload
    nextSeq,  \* per flow, the next number to send
    inNet,    \* per key, copies on the wire that have not been answered
    arrived,  \* keys whose arrival has been acknowledged
    repairs,  \* per key, how often it was retransmitted
    lost      \* keys given up (permanentLossCallback)

vars == <<conf, store, copies, egress, reloads, nextSeq, inNet, arrived,
          repairs, lost>>

LlrMode == conf.llrMode
OverflowPolicy == conf.overflowPolicy
TimeoutRetransmit == conf.timeoutRetransmit

Key == Flow \X (0..LastSeq)
Outstanding == DOMAIN store
Entry == [retries : 0..RetryLimit, wireArmed : BOOLEAN, timer : BOOLEAN]

\* The queues of packets before the wire are left out: whatever they name is
\* looked up in the store.
TypeOK ==
    /\ conf \in Confs
    /\ Outstanding \subseteq Key /\ store \in [Outstanding -> Entry]
    /\ copies \subseteq Key
    /\ nextSeq \in [Flow -> 0..(LastSeq + 1)]
    /\ inNet \in [Key -> Nat]
    /\ arrived \subseteq Key
    /\ repairs \in [Key -> 0..RetryLimit]
    /\ lost \subseteq Key

Init ==
    /\ conf \in Confs
    /\ store = [k \in {} |-> [retries |-> 0, wireArmed |-> FALSE, timer |-> FALSE]]
    /\ copies = {}
    /\ egress = [f \in Flow |-> <<>>]
    /\ reloads = <<>>
    /\ nextSeq = [f \in Flow |-> 0]
    /\ inNet = [k \in Key |-> 0]
    /\ arrived = {}
    /\ repairs = [k \in Key |-> 0]
    /\ lost = {}

-----------------------------------------------------------------------------
(* The retry buffer and the source store.                                  *)

\* EnforceBufferLimit's victims: the lowest number of any flow.
Oldest(c) == {k \in c : \A j \in c : k[2] <= j[2]}

\* What StorePacket may make of the retry buffer c when it stores k.
CopiesAfterStore(c, k) ==
    LET others == c \ {k} IN
    IF MaxBufferSize = 0 \/ Cardinality(others) < MaxBufferSize
      THEN {others \cup {k}}
    ELSE IF OverflowPolicy = "DROP_NEWEST"
      THEN {others}
    ELSE {(others \ {victim}) \cup {k} : victim \in Oldest(others)}

\* RemoveOutstandingPacket: the entry, its timer and its copy go together.
Without(keys) == [k \in Outstanding \ keys |-> store[k]]

\* Mutant of Remove: the fast copies stay behind.
RemoveEntriesOnly(keys) == store' = Without(keys) /\ UNCHANGED copies

Remove(keys) == store' = Without(keys) /\ copies' = copies \ keys

-----------------------------------------------------------------------------
(* The sender.                                                             *)

\* A fresh packet reaches SendPacketOnDevice: it is stored without a timer,
\* since it is not on the wire yet, and enters the egress.
Send(f) ==
    LET k == <<f, nextSeq[f]>> IN
    /\ nextSeq[f] < conf.load[f]
    /\ nextSeq' = [nextSeq EXCEPT ![f] = @ + 1]
    /\ store' = [j \in Outstanding \cup {k} |->
                   IF j = k THEN [retries |-> 0, wireArmed |-> FALSE, timer |-> FALSE]
                   ELSE store[j]]
    /\ copies' \in CopiesAfterStore(copies, k)
    /\ egress' = [egress EXCEPT ![f] = Append(@, k[2])]
    /\ UNCHANGED <<conf, reloads, inNet, arrived, repairs, lost>>

\* Mutant of ArmRetryTimeoutAtTransmission: only the first transmission arms.
ArmFirstTransmission(k) ==
    IF k \in Outstanding
      THEN [store EXCEPT ![k].wireArmed = TRUE, ![k].timer = @ \/ store[k].retries = 0]
      ELSE store

\* The retry timer starts when the packet reaches the wire; one that is
\* pending is extended, one that was acknowledged meanwhile has no entry.
ArmRetryTimeoutAtTransmission(k) ==
    IF k \in Outstanding
      THEN [store EXCEPT ![k].wireArmed = TRUE, ![k].timer = TRUE]
      ELSE store

\* The head of the egress reaches the wire, whether it is still wanted or not
\* (SendDeferredEgressInternal does not ask).  Delays that differ and a pause
\* that holds a packet back there only keep it in the egress for longer; no
\* property here is about the order in it (PfcFabric has both).
OnWire(f) ==
    LET k == <<f, Head(egress[f])>> IN
    /\ egress[f] # <<>>
    /\ egress' = [egress EXCEPT ![f] = Tail(@)]
    /\ store' = ArmRetryTimeoutAtTransmission(k)
    /\ inNet' = [inNet EXCEPT ![k] = @ + 1]
    /\ UNCHANGED <<conf, copies, reloads, nextSeq, arrived, repairs, lost>>

-----------------------------------------------------------------------------
(* Acknowledgements.                                                       *)

\* A copy on the wire is answered.
Answered(k) == inNet[k] > 0 /\ inNet' = [inNet EXCEPT ![k] = @ - 1]

\* Mutant of Ack: the key lacks the flow and its channel.
AckAnyFlow(k) ==
    /\ Answered(k)
    /\ arrived' = arrived \cup {k}
    /\ Remove({j \in Outstanding : j[2] = k[2]})
    /\ UNCHANGED <<conf, egress, reloads, nextSeq, repairs, lost>>

\* RemovePacket, for an ACK or a SACK-mode CREDIT.
Ack(k) ==
    /\ Answered(k)
    /\ arrived' = arrived \cup {k}
    /\ Remove({k})
    /\ UNCHANGED <<conf, egress, reloads, nextSeq, repairs, lost>>

\* RemovePacketsUpTo's victims.
UpTo(f, n) == {j \in Outstanding : j[1] = f /\ j[2] <= n}

\* A go-back-N mode CREDIT: the endpoint acknowledges up to the last number
\* of an unbroken run of arrivals from 0 (ProcessCreditPacket), if any.
AckUpTo(k) ==
    /\ LlrMode = "GO_BACK_N"
    /\ Answered(k)
    /\ arrived' = arrived \cup {k}
    /\ Remove(UNION {UpTo(k[1], n) :
                n \in {m \in 0..LastSeq : \A i \in 0..m : <<k[1], i>> \in arrived'}})
    /\ UNCHANGED <<conf, egress, reloads, nextSeq, repairs, lost>>

-----------------------------------------------------------------------------
(* Retry requests.                                                         *)

\* The packets a request for k retransmits: go-back-N takes every outstanding
\* packet of the flow from k on, whether it reached the wire or not.
Requested(k) ==
    IF LlrMode = "SACK" THEN {k} \cap Outstanding
    ELSE {j \in Outstanding : j[1] = k[1] /\ j[2] >= k[2]}

\* Those whose retry budget this request exceeds.
GivenUp(keys) == {j \in keys : store[j].retries + 1 > RetryLimit}

\* The keys of a set in increasing order of their numbers (one flow).
InOrder(keys) ==
    CHOOSE q \in [1..Cardinality(keys) -> keys] :
        \A i, j \in DOMAIN q : i < j => q[i][2] < q[j][2]

\* Mutant of Retried: the retransmission is not counted.
RetriedUncounted(e) == [retries |-> e.retries, wireArmed |-> FALSE, timer |-> FALSE]

\* The entry of a packet that is retransmitted: its timer is cancelled until
\* the repair is on the wire.
Retried(e) == [retries |-> e.retries + 1, wireArmed |-> FALSE, timer |-> FALSE]

\* HandleRetryRequest and HandleSackRequest with DispatchRetransmissions.  A
\* packet with a fast copy goes to the egress at once; one without waits for
\* its source reload, and in go-back-N so does every packet after it.
Handle(k) ==
    LET keys    == Requested(k)
        gone    == GivenUp(keys)
        again   == keys \ gone
        prompt  == {j \in again : \A i \in again : i[2] <= j[2] => i \in copies}
        late    == InOrder(again \ prompt)
        numbers == [i \in 1..Cardinality(prompt) |-> InOrder(prompt)[i][2]]
    IN  /\ store' = [j \in Outstanding \ gone |->
                       IF j \in again THEN Retried(store[j]) ELSE store[j]]
        /\ copies' = copies \ gone
        /\ lost' = lost \cup gone
        /\ repairs' = [j \in Key |-> IF j \in again THEN repairs[j] + 1 ELSE repairs[j]]
        /\ egress' = [egress EXCEPT ![k[1]] = @ \o numbers]
        /\ reloads' = reloads \o [i \in DOMAIN late |-> <<late[i], late[i] \notin copies>>]
        /\ UNCHANGED <<conf, nextSeq, arrived>>

\* A NACK; one for a packet that is not outstanding changes nothing.
Nack(k) ==
    /\ Answered(k)
    /\ Handle(k)

\* OnRetryTimeout: acts only if the endpoint registered a callback.
OnRetryTimeout(k) ==
    /\ \/ TimeoutRetransmit /\ Handle(k)
       \/ /\ ~TimeoutRetransmit
          /\ store' = [store EXCEPT ![k].timer = FALSE]
          /\ UNCHANGED <<conf, copies, egress, reloads, nextSeq, arrived, repairs, lost>>
    /\ UNCHANGED inNet

\* Mutant of Timeout: the timer is that of the copy in the retry buffer.
TimeoutOfCopy(k) == k \in Outstanding \cap copies /\ store[k].timer /\ OnRetryTimeout(k)

\* The retry timer of k fires.
Timeout(k) == k \in Outstanding /\ store[k].timer /\ OnRetryTimeout(k)

\* A retransmission that was held back is due (SendRetransmission): nothing is
\* sent if the packet is no longer outstanding; else it enters the egress, and
\* one reloaded from the source is stored again, which restarts an expired
\* timer of a packet on the wire.
Reload ==
    LET k            == Head(reloads)[1]
        sourceReload == Head(reloads)[2]
    IN
    /\ reloads # <<>>
    /\ reloads' = Tail(reloads)
    /\ IF k \in Outstanding
         THEN /\ IF sourceReload
                   THEN /\ store' = [store EXCEPT ![k].timer = @ \/ store[k].wireArmed]
                        /\ copies' \in CopiesAfterStore(copies, k)
                   ELSE UNCHANGED <<store, copies>>
              /\ egress' = [egress EXCEPT ![k[1]] = Append(@, k[2])]
         ELSE UNCHANGED <<store, copies, egress>>
    /\ UNCHANGED <<conf, nextSeq, inNet, arrived, repairs, lost>>

Next ==
    \/ \E f \in Flow : Send(f) \/ OnWire(f)
    \/ \E k \in Key : Ack(k) \/ AckUpTo(k) \/ Nack(k) \/ Timeout(k)
    \/ Reload

Spec == Init /\ [][Next]_vars

\* The event queue runs every scheduled event: a held packet reaches the
\* wire, a reload completes, a pending timer that is not cancelled fires.
FairSpec ==
    /\ Spec
    /\ \A f \in Flow : WF_vars(OnWire(f))
    /\ \A k \in Key : WF_vars(Timeout(k))
    /\ WF_vars(Reload)

-----------------------------------------------------------------------------

\* The retry buffer holds copies of outstanding packets only and never more
\* than it may: neither an acknowledgement racing a reload nor an eviction
\* leaves a copy behind.
CopiesAccounted ==
    /\ copies \subseteq Outstanding
    /\ MaxBufferSize > 0 => Cardinality(copies) <= MaxBufferSize

\* A packet is given up after exactly RetryLimit retransmissions, never
\* earlier; and while it is outstanding its retry count is what was sent.
RetryBudget ==
    /\ \A k \in lost : repairs[k] = RetryLimit /\ k \notin Outstanding
    /\ \A k \in Outstanding : repairs[k] = store[k].retries

\* With the timeout backstop every outstanding packet has something that will
\* act on it: a pending timer, a copy on its way to the wire, or a reload.
\* (Eviction and refusal "would strand an un-ACKed packet" otherwise.)
NeverStranded ==
    TimeoutRetransmit =>
        \A k \in Outstanding :
            \/ store[k].timer
            \/ \E i \in DOMAIN egress[k[1]] : egress[k[1]][i] = k[2]
            \/ \E i \in DOMAIN reloads : reloads[i][1] = k

\* An acknowledgement, a retry request or a timeout touches the entries of one
\* flow only, although the flows share the store and the retry buffer.
Touched(k) ==
    \/ (k \in Outstanding) # (k \in DOMAIN store')
    \/ k \in Outstanding \cap DOMAIN store' /\ store[k] # store'[k]
FlowsIsolated == [][\A j, k \in Key : Touched(j) /\ Touched(k) => j[1] = k[1]]_vars

\* With the timeout backstop every packet sent is eventually acknowledged or
\* given up, also when the fabric answers none of its copies.
EventuallySettled ==
    \A k \in Key : TimeoutRetransmit /\ k \in Outstanding ~> k \notin Outstanding
=============================================================================
