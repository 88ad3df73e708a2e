---------------------------- MODULE RingAllReduce ----------------------------
(***************************************************************************)
(* The ring all-reduce (ring-allreduce.cc) in its two forms: driven by     *)
(* receptions, with a ledger of bytes for each rank and step, or by a      *)
(* transaction graph.  A transfer is a pair <<sender, step>>.              *)
(*                                                                         *)
(* The program moves sizes, not data.  `contents' and `payload' are what   *)
(* the data would be: for each rank and segment the ranks whose values     *)
(* have been summed up in it.                                              *)
(***************************************************************************)
EXTENDS TransactionExecutor, RingSchedule

CONSTANT Rings  \* the rings a run may start with

VARIABLES
    ring,           \* the configuration
    status,         \* m_state
    completedStep,  \* m_gpuCompletedStep
    received,       \* m_gpuStepReceivedBytes, per rank and step of the sender
    doneCount,      \* m_gpuDoneCount
    initialSends,   \* m_pendingEvents: TriggerInitialSends is scheduled
    pendingSends,   \* m_pendingEvents: scheduled calls of SendGpuStepData
    payload,        \* contents of each transfer sent
    contents        \* contents of each segment at each rank

ringVars == <<ring, status, completedStep, received, doneCount,
              initialSends, pendingSends, payload, contents>>
vars == <<execVars, ringVars>>

N == NumGpus(ring)
Ranked == Ranks(ring)
Steps == 0..(TotalSteps(ring) - 1)

-----------------------------------------------------------------------------
(* BuildTransactionGraph.                                                  *)

\* Nodes are numbered as they are added: the startup delay; then, for each
\* step, send and wait of each rank and the delay of each rank's next send.
StepNodes(r) == 3 * NumGpus(r)
SendNode(r, g, s) == 1 + s * StepNodes(r) + 2 * g
WaitNode(r, g, s) == SendNode(r, g, s) + 1
DelayNode(r, g, s) == 1 + (s - 1) * StepNodes(r) + 2 * NumGpus(r) + g
CompletionNode(r) == SendNode(r, NumGpus(r), TotalSteps(r) - 1)

\* Mutant of InputOf: a send waits for the delivery of the rank's own last one.
InputOfOwn(r, g, s) == WaitNode(r, g, s - 1)

\* The wait node of what g receives in step s - 1, on which its step s depends.
InputOf(r, g, s) == WaitNode(r, SenderTo(r, g, s - 1), s - 1)

\* A transfer is AddTransaction's pair of a send and a wait.
BuildTransactionGraph(r) ==
    [i \in 0..CompletionNode(r) |->
        LET s    == (i - 1) \div StepNodes(r)
            slot == (i - 1) % StepNodes(r)
            g    == slot \div 2
        IN  CASE i = 0 -> AddDelay({})
              [] i = CompletionNode(r) ->
                   AddCompletion({WaitNode(r, h, TotalSteps(r) - 1) : h \in Ranks(r)}, FALSE)
              [] i \notin {0, CompletionNode(r)} /\ slot >= 2 * NumGpus(r) ->
                   AddDelay({InputOf(r, slot - 2 * NumGpus(r), s + 1)})
              [] i # 0 /\ slot < 2 * NumGpus(r) /\ i = SendNode(r, g, s) ->
                   AddAction({IF s = 0 THEN 0 ELSE DelayNode(r, g, s)},
                             <<g, s>>, SegmentSizeOf(r, g, s))
              [] i # 0 /\ slot < 2 * NumGpus(r) /\ i = WaitNode(r, g, s) ->
                   AddWait({SendNode(r, g, s)}, <<g, s>>, SegmentSizeOf(r, g, s))]

\* Start completes at once without data or peers.
Trivial(r) == r.dataSize = 0 \/ NumGpus(r) = 1

\* A ring's graph; a trivial one is never executed.
NoGraph == [i \in {0} |-> AddCompletion({}, FALSE)]
GraphOf(r) == IF Trivial(r) THEN NoGraph ELSE BuildTransactionGraph(r)

Init ==
    /\ ring \in Rings
    /\ graph = GraphOf(ring) /\ ExecInit
    /\ status = "IDLE"
    /\ completedStep = [g \in Ranked |-> 0]
    /\ received = [g \in Ranked |-> [s \in Steps |-> 0]]
    /\ doneCount = 0 /\ initialSends = FALSE /\ pendingSends = {}
    /\ payload = [t \in Ranked \X Steps |-> {}]
    /\ contents = [g \in Ranked |-> [c \in 0..(N - 1) |-> {g}]]

-----------------------------------------------------------------------------
(* The data.                                                               *)

\* The transfers in sent carry the current contents of their segments.
Loads(sent) ==
    payload' = [t \in Ranked \X Steps |->
                  IF t \in sent THEN contents[t[1]][SegmentOf(ring, t[1], t[2])] ELSE payload[t]]

\* Rank g takes in its input of each of the steps: it is summed up in a reduce
\* step and replaces the segment in a gather step.
Absorbs(g, steps) ==
    contents' =
      [contents EXCEPT ![g] = [c \in 0..(N - 1) |->
         LET of(s)    == <<SenderTo(ring, g, s), s>>
             here     == {s \in steps : SegmentOf(ring, of(s)[1], s) = c}
             gathered == {s \in here : ~IsReduceScatterStep(ring, s)}
         IN  IF gathered # {} THEN UNION {payload[of(s)] : s \in gathered}
             ELSE @[c] \cup UNION {payload[of(s)] : s \in here}]]

-----------------------------------------------------------------------------
(* Start.                                                                  *)

StartTrivial ==
    /\ status = "IDLE" /\ Trivial(ring)
    /\ status' = "COMPLETED"
    /\ UNCHANGED <<execVars, ring, completedStep, received, doneCount,
                   initialSends, pendingSends, payload, contents>>

StartTransactions ==
    /\ status = "IDLE" /\ ~Trivial(ring) /\ ring.useTransaction
    /\ status' = "RUNNING"
    /\ Start
    /\ UNCHANGED <<ring, completedStep, received, doneCount, initialSends,
                   pendingSends, payload, contents>>

StartReceiveDriven ==
    /\ status = "IDLE" /\ ~Trivial(ring) /\ ~ring.useTransaction
    /\ status' = "RUNNING"
    /\ initialSends' = TRUE
    /\ UNCHANGED <<execVars, ring, completedStep, received, doneCount,
                   pendingSends, payload, contents>>

-----------------------------------------------------------------------------
(* Receive-driven.                                                         *)

\* The transfers in sent go onto the wire.
PutOnWire(sent) ==
    /\ wire' = [t \in Transfers |->
                  IF t \in sent THEN wire[t] + SegmentSizeOf(ring, t[1], t[2]) ELSE wire[t]]
    /\ issued' = [t \in Transfers |-> IF t \in sent THEN issued[t] + 1 ELSE issued[t]]
    /\ Loads(sent)
    /\ UNCHANGED <<graph, started, runtime, actions, pc, advanceRequested, notified, losses,
                   ring, status, completedStep, received, doneCount, contents>>

\* After the startup delay every rank sends.
TriggerInitialSends ==
    /\ initialSends
    /\ initialSends' = FALSE
    /\ PutOnWire({<<g, 0>> : g \in Ranked})
    /\ UNCHANGED pendingSends

SendGpuStepData(t) ==
    /\ t \in pendingSends
    /\ pendingSends' = pendingSends \ {t}
    /\ PutOnWire({t})
    /\ UNCHANGED initialSends

\* Mutant of StepReached: a packet closes at most one step.
StepReachedOnce(g, led) ==
    LET s == completedStep[g] IN
    IF led[s] >= StepExpectedBytes(ring, g, s) THEN s + 1 ELSE s

\* The step g is in once its ledger is led: steps complete in order.
StepReached(g, led) ==
    CHOOSE m \in completedStep[g]..TotalSteps(ring) :
        /\ \A s \in completedStep[g]..(m - 1) : led[s] >= StepExpectedBytes(ring, g, s)
        /\ m < TotalSteps(ring) => led[m] < StepExpectedBytes(ring, g, m)

\* OnGpuStepReceiveComplete: what g sends once it has closed these steps.
NextSends(g, closed) ==
    {<<g, s + 1>> : s \in {c \in closed : c + 1 < TotalSteps(ring)}}

\* OnPacketReceived with OnGpuStepReceiveComplete for every step it closes.  A
\* packet counts for its sender's step, which its flow id encodes.
Receive(t) ==
    LET g       == GetSendTarget(ring, t[1], t[2])
        led     == [received[g] EXCEPT ![t[2]] = @ + 1]
        reached == StepReached(g, led)
        closed  == completedStep[g]..(reached - 1)
        done    == doneCount + (IF reached = TotalSteps(ring) THEN 1 ELSE 0)
    IN
    /\ wire[t] > 0
    /\ wire' = [wire EXCEPT ![t] = @ - 1]
    /\ IF completedStep[g] = TotalSteps(ring)
         THEN UNCHANGED <<received, completedStep, doneCount, status, pendingSends, contents>>
         ELSE /\ received' = [received EXCEPT ![g] = led]
              /\ completedStep' = [completedStep EXCEPT ![g] = reached]
              /\ Absorbs(g, closed)
              /\ pendingSends' = pendingSends \cup NextSends(g, closed)
              /\ doneCount' = done
              /\ status' = IF done = N THEN "COMPLETED" ELSE status
    /\ UNCHANGED <<graph, started, runtime, actions, pc, advanceRequested, notified, issued,
                   losses, ring, initialSends, payload>>

-----------------------------------------------------------------------------
(* By transactions.                                                        *)

ExecuteTransactionAction(i) ==
    /\ Issue(i)
    /\ Loads({graph[i].transfer})
    /\ UNCHANGED <<ring, status, completedStep, received, doneCount,
                   initialSends, pendingSends, contents>>

\* A delivery, with OnTransactionNodeComplete when its wait is satisfied.
ReceiveTransaction(t) ==
    LET g    == GetSendTarget(ring, t[1], t[2])
        ends == ~complete /\ Satisfied(t, 1) # {}
    IN
    /\ Deliver(t)
    /\ completedStep' = IF ends THEN [completedStep EXCEPT ![g] = t[2] + 1] ELSE completedStep
    /\ IF ends THEN Absorbs(g, {t[2]}) ELSE UNCHANGED contents
    /\ UNCHANGED <<ring, status, received, doneCount, initialSends,
                   pendingSends, payload>>

\* The end of Advance, with OnTransactionComplete if it notifies.
EndTransactionPass ==
    /\ EndPass
    /\ status' = IF notified' THEN "COMPLETED" ELSE status
    /\ doneCount' = IF notified' THEN N ELSE doneCount
    /\ UNCHANGED <<ring, completedStep, received, initialSends, pendingSends,
                   payload, contents>>

AdvanceTransactions ==
    /\ Drain \/ BeginIssue \/ \E i \in Ids : OnDelayExpired(i)
    /\ UNCHANGED ringVars

-----------------------------------------------------------------------------

\* A PERMANENT_LOSS is counted and is no progress, in either form.
PermanentLoss(t) == Lose(t) /\ UNCHANGED ringVars

Progress ==
    \/ StartTrivial \/ StartTransactions \/ StartReceiveDriven
    \/ TriggerInitialSends
    \/ \E t \in Transfers :
          \/ SendGpuStepData(t)
          \/ ~ring.useTransaction /\ Receive(t)
          \/ ring.useTransaction /\ ReceiveTransaction(t)
    \/ \E i \in actions : ExecuteTransactionAction(i)
    \/ EndTransactionPass \/ AdvanceTransactions

Next == Progress \/ \E t \in Transfers : PermanentLoss(t)

\* The event queue runs on while there is something scheduled.
Spec == Init /\ [][Next]_vars /\ WF_vars(Progress)

-----------------------------------------------------------------------------

\* When the collective reports completion every rank has every segment summed
\* up over all ranks: each step forwards the segment received in the step
\* before, across the reversal of direction and on every embedding.  If a
\* packet was lost for good it reports nothing: it stalls.
AllReduced ==
    status = "COMPLETED" /\ ring.dataSize > 0 =>
        /\ losses = 0
        /\ \A g \in Ranked : \A c \in 0..(N - 1) : contents[g][c] = Ranked

\* A rank sends in step s + 1 only once its input of step s is complete, in
\* both forms, although senders run ahead of receivers.
SendsOnCompleteInput ==
    \A t \in Transfers :
        t[2] > 0 /\ issued[t] > 0 =>
            LET input == <<SenderTo(ring, t[1], t[2] - 1), t[2] - 1>>
            IN  issued[input] = 1 /\ wire[input] = 0

\* Without losses the collective completes.
EventuallyComplete == <>(status = "COMPLETED" \/ losses > 0)
=============================================================================
