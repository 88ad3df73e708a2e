----------------------------- MODULE ReceiveFlow -----------------------------
(***************************************************************************)
(* The receive side of one flow that uses the reorder buffer: the endpoint *)
(* handles data packets (FabricEndpoint::ProcessDataPacket) and permanent  *)
(* loss notices (ProcessPermanentLossNotice) in whatever order and however *)
(* often the fabric brings them.                                           *)
(***************************************************************************)
EXTENDS ReorderBuffer

VARIABLES
    rb,       \* the flow's reorder buffer
    arrived,  \* numbers of which a copy was handled
    taken,    \* numbers of which Insert took a copy
    declared, \* numbers whose loss notice was handled
    told,     \* what the receive callback was given, number by number
    acked     \* numbers the endpoint has sent an ACK for

vars == <<rb, arrived, taken, declared, told, acked>>

Outcome == {"data", "lost"}

TypeOK ==
    /\ rb \in BufferType
    /\ arrived \subseteq SeqNum
    /\ taken \subseteq SeqNum
    /\ declared \subseteq SeqNum
    /\ told \in [0..(rb.expected - 1) -> Outcome]
    /\ acked \subseteq SeqNum

Init ==
    /\ rb = EmptyBuffer
    /\ arrived = {}
    /\ taken = {}
    /\ declared = {}
    /\ told = [s \in {} |-> "data"]
    /\ acked = {}

-----------------------------------------------------------------------------

\* The buffer after an insertion or a mark, drained; each packet passed on is
\* acknowledged and given to the receive callback (OnPacketDelivered), each
\* gap is reported to it (OnPermanentGapDelivered).
Drain(buffer, alsoAcked) ==
    /\ rb' = DeliverReady(buffer)
    /\ told' = [s \in DOMAIN told \cup Passed(buffer) |->
                  IF s \in DOMAIN told THEN told[s]
                  ELSE IF s \in Skips(buffer) THEN "lost" ELSE "data"]
    /\ acked' = acked \cup Delivers(buffer) \cup alsoAcked

\* Mutant of Answer: every copy is acknowledged on arrival.
AnswerAlways(s) == {s}

\* A copy that was not inserted is acknowledged again when it is a duplicate;
\* one the full buffer turned away is not.
Answer(s) ==
    IF ~Accepts(rb, s) /\ IsDuplicate(DeliverReady(rb), s) THEN {s} ELSE {}

ProcessDataPacket(s) ==
    /\ arrived' = arrived \cup {s}
    /\ taken' = IF Accepts(rb, s) THEN taken \cup {s} ELSE taken
    /\ Drain(Inserted(rb, s), Answer(s))
    /\ UNCHANGED declared

\* The sender drops a packet from its store when it declares it lost, so it
\* sends one notice for each number.  It counts retries, not deliveries: a
\* copy may have arrived before or may still arrive.
ProcessPermanentLossNotice(s) ==
    /\ s \notin declared
    /\ declared' = declared \cup {s}
    /\ Drain(GapMarked(rb, s), {})
    /\ UNCHANGED <<arrived, taken>>

Next ==
    \E s \in SeqNum : ProcessDataPacket(s) \/ ProcessPermanentLossNotice(s)

Spec == Init /\ [][Next]_vars

-----------------------------------------------------------------------------

\* Exactly once and in order (InOrderDelivery), for every arrival order,
\* duplicates and late losses included.
Promise ==
    INSTANCE InOrderDelivery WITH
        SeqBound <- SeqBound, arrived <- arrived, declared <- declared, told <- told
DeliversInOrder == Promise!Spec

\* The application waits only for what is missing: once Insert has taken, or
\* a loss notice has named, every number up to s, s has been reported, in
\* whatever order they came.  No gap mark and no parked packet is forgotten by
\* the refusals, clean-ups and skips in between.
WaitsOnlyForMissing ==
    \A s \in SeqNum : 0..s \subseteq taken \cup declared => s \in DOMAIN told

\* A number is acknowledged only if the endpoint passed it on, still holds
\* it, or reported it lost: the sender drops its only copy on the ACK.
AckedIsSafe == \A s \in acked : s < rb.expected \/ s \in Parked(rb)

\* Insert's comment: taking the expected packet when the buffer is full is
\* safe because delivering it drains at least one entry, "so it never grows
\* past capacity".
WithinCapacity == Cardinality(rb.held) <= MaxBufferSize

\* As long as no number that arrived is declared lost as well, the buffer keeps
\* to its capacity and its slots are for packets that wait for an earlier one:
\* no delivered entry survives the clean-up.
SlotsAccounted ==
    arrived \cap declared = {} =>
        WithinCapacity /\ \A s \in rb.held : s > rb.expected
=============================================================================
