------------------------- MODULE TransactionExecutor -------------------------
(***************************************************************************)
(* The executor of a transaction graph (ProtocolTransactionExecutor) over  *)
(* a fabric that delivers each transfer's bytes in any order relative to   *)
(* the other transfers, or loses some for good.                            *)
(*                                                                         *)
(* Advance is one call, but it calls out: the action callbacks run when no *)
(* node is ready any more, and an event may re-enter the executor from one *)
(* of them.  `pc' says where the outermost Advance is; everything else     *)
(* waits until it returns.  The program serves its queues in the order of  *)
(* the node numbers; here they are sets, served in any order.              *)
(***************************************************************************)
EXTENDS TransactionGraph

CONSTANT
    Graphs,    \* graphs the executor may be given
    MaxLosses  \* bound on the packets lost for good

ASSUME GraphsAssumption ==
    \A g \in Graphs :
        /\ IsFiniteSet(DOMAIN g) /\ Paired(g)
        /\ \A i \in DOMAIN g : g[i].any \in BOOLEAN /\ g[i].bytes \in Nat

VARIABLES
    graph,            \* m_graph
    started,          \* m_started
    state,            \* m_runtime[].state
    observed,         \* m_runtime[].observedBytes
    remaining,        \* m_runtime[].remainingDependencies
    ready,            \* m_readyNodes: the nodes that are `queued'
    actions,          \* collected in this pass and not called back yet
    pc,               \* m_advancing: "idle", or "draining", or "issuing"
    advanceRequested, \* m_advanceRequested
    complete,         \* m_complete
    notified,         \* m_completionNotified
    wire,             \* per transfer, bytes sent and not yet delivered
    issued,           \* per transfer, how often its action was called back
    losses            \* packets lost for good

runtime == <<state, observed, remaining, ready, complete>>
execVars == <<graph, started, runtime, actions, pc, advanceRequested, notified,
              wire, issued, losses>>

Ids == DOMAIN graph
Actions == OfType(graph, "ACTION")
Waits == OfType(graph, "WAIT")
Transfers == {graph[i].transfer : i \in Actions}

InitializeRuntime ==
    /\ state = [i \in Ids |-> "PENDING"]
    /\ observed = [i \in Ids |-> 0]
    /\ remaining = [i \in Ids |-> Cardinality(graph[i].deps)]
    /\ ready = {}

\* SetGraph refuses a graph that is not valid.
ExecInit ==
    /\ graph \in {g \in Graphs : Validate(g)}
    /\ InitializeRuntime
    /\ started = FALSE /\ complete = FALSE /\ notified = FALSE
    /\ actions = {} /\ pc = "idle" /\ advanceRequested = FALSE
    /\ wire = [t \in Transfers |-> 0] /\ issued = [t \in Transfers |-> 0]
    /\ losses = 0

-----------------------------------------------------------------------------
(* Completion of nodes.                                                    *)

\* PropagateCompletion reaches j from the nodes in done: pending, not queued.
Reached(j, done) ==
    state[j] = "PENDING" /\ j \notin ready /\ graph[j].deps \cap done # {}

\* Mutant of Enabled: one dependency is enough for every node.
EnabledByAny(j, done) == TRUE

\* Whether the completion of the nodes in done queues their successor j.
Enabled(j, done) == graph[j].any \/ remaining[j] = Cardinality(graph[j].deps \cap done)

\* MarkCompleted and PropagateCompletion for the nodes in done; what becomes
\* ready is added to the queue q.
MarkCompleted(done, q) ==
    /\ state' = [i \in Ids |-> IF i \in done THEN "COMPLETED" ELSE state[i]]
    /\ remaining' = [j \in Ids |->
                       IF Reached(j, done) /\ ~graph[j].any
                         THEN remaining[j] - Cardinality(graph[j].deps \cap done)
                         ELSE remaining[j]]
    /\ ready' = q \cup {j \in Ids : Reached(j, done) /\ Enabled(j, done)}

\* Advance: a nested call leaves the work to the outer one.
Advance ==
    IF pc = "idle" THEN pc' = "draining" /\ advanceRequested' = FALSE
    ELSE advanceRequested' = TRUE /\ UNCHANGED pc

Start ==
    /\ ~started
    /\ started' = TRUE
    /\ ready' = {i \in Ids : graph[i].deps = {}}
    /\ Advance
    /\ UNCHANGED <<graph, state, observed, remaining, complete, actions, notified, wire,
                   issued, losses>>

-----------------------------------------------------------------------------
(* The passes of Advance.                                                  *)

\* Mutant of DrainAction: the packets leave at once.
DrainActionAtOnce(i) ==
    /\ graph[i].type = "ACTION"
    /\ wire' = [wire EXCEPT ![graph[i].transfer] = @ + graph[i].bytes]
    /\ issued' = [issued EXCEPT ![graph[i].transfer] = @ + 1]
    /\ MarkCompleted({i}, ready \ {i})
    /\ UNCHANGED <<observed, complete, actions>>

\* An action is only collected: its packets leave after the loop.
DrainAction(i) ==
    /\ graph[i].type = "ACTION"
    /\ actions' = actions \cup {i}
    /\ MarkCompleted({i}, ready \ {i})
    /\ UNCHANGED <<observed, complete, wire, issued>>

\* A wait listens, or a delay is scheduled.  Left out: a delay that ends beyond
\* the simulator's time horizon stays active and has no event.
DrainActivate(i) ==
    /\ graph[i].type \in {"WAIT", "DELAY"}
    /\ state' = [state EXCEPT ![i] = "ACTIVE"]
    /\ ready' = ready \ {i}
    /\ UNCHANGED <<observed, remaining, complete, actions, wire, issued>>

DrainComplete(i) ==
    /\ graph[i].type = "COMPLETE"
    /\ complete' = TRUE
    /\ MarkCompleted({i}, ready \ {i})
    /\ UNCHANGED <<observed, actions, wire, issued>>

\* One round of the loop; a queued node is always pending.
Drain ==
    /\ pc = "draining"
    /\ \E i \in ready : DrainAction(i) \/ DrainActivate(i) \/ DrainComplete(i)
    /\ UNCHANGED <<graph, started, pc, advanceRequested, notified, losses>>

BeginIssue ==
    /\ pc = "draining" /\ ready = {}
    /\ pc' = "issuing"
    /\ UNCHANGED <<graph, started, runtime, actions, advanceRequested, notified, wire,
                   issued, losses>>

\* The callback of action i: the endpoint sends the transfer.
Issue(i) ==
    LET t == graph[i].transfer IN
    /\ pc = "issuing" /\ i \in actions
    /\ actions' = actions \ {i}
    /\ wire' = [wire EXCEPT ![t] = @ + graph[i].bytes]
    /\ issued' = [issued EXCEPT ![t] = @ + 1]
    /\ UNCHANGED <<graph, started, runtime, pc, advanceRequested, notified, losses>>

\* Mutant of EndPass: a request made by a callback is forgotten.
EndPassAlways ==
    /\ pc = "issuing" /\ actions = {}
    /\ pc' = "idle" /\ notified' = complete /\ UNCHANGED advanceRequested
    /\ UNCHANGED <<graph, started, runtime, actions, wire, issued, losses>>

\* Another pass if a callback asked for one; else MaybeNotifyCompletion.
EndPass ==
    /\ pc = "issuing" /\ actions = {}
    /\ IF advanceRequested
         THEN pc' = "draining" /\ advanceRequested' = FALSE /\ UNCHANGED notified
         ELSE pc' = "idle" /\ notified' = complete /\ UNCHANGED advanceRequested
    /\ UNCHANGED <<graph, started, runtime, actions, wire, issued, losses>>

-----------------------------------------------------------------------------
(* Events.                                                                 *)

\* Wait i is active and matches an event of transfer t.
Listens(i, t) == graph[i].type = "WAIT" /\ state[i] = "ACTIVE" /\ graph[i].transfer = t

\* The waits that n more bytes of t satisfy.
Satisfied(t, n) == {i \in Waits : Listens(i, t) /\ observed[i] + n >= graph[i].bytes}

NotifyEvent(t, n) ==
    IF complete THEN UNCHANGED <<runtime, pc, advanceRequested>>
    ELSE \E done \in {Satisfied(t, n)} :
         /\ observed' = [i \in Ids |-> IF Listens(i, t) THEN observed[i] + n ELSE observed[i]]
         /\ UNCHANGED complete
         /\ IF done = {} THEN UNCHANGED <<state, remaining, ready, pc, advanceRequested>>
            ELSE MarkCompleted(done, ready) /\ Advance

\* A packet of one byte is delivered; possibly from within a callback.  Every
\* fragment carries data, so the runner never falls back on the packet's size.
Deliver(t) ==
    /\ pc \in {"idle", "issuing"}
    /\ wire[t] > 0
    /\ wire' = [wire EXCEPT ![t] = @ - 1]
    /\ NotifyEvent(t, 1)
    /\ UNCHANGED <<graph, started, actions, notified, issued, losses>>

\* Mutant of Lose: the loss notice counts as a delivery.
LoseCounted(t) ==
    /\ pc = "idle" /\ losses < MaxLosses
    /\ wire[t] > 0
    /\ wire' = [wire EXCEPT ![t] = @ - 1]
    /\ losses' = losses + 1
    /\ NotifyEvent(t, 1)
    /\ UNCHANGED <<graph, started, actions, notified, issued>>

\* PERMANENT_LOSS: the runner counts it or ignores it, the executor is not told.
Lose(t) ==
    /\ pc = "idle" /\ losses < MaxLosses
    /\ wire[t] > 0
    /\ wire' = [wire EXCEPT ![t] = @ - 1]
    /\ losses' = losses + 1
    /\ UNCHANGED <<graph, started, runtime, actions, pc, advanceRequested, notified, issued>>

OnDelayExpired(i) ==
    /\ pc = "idle"
    /\ ~complete
    /\ graph[i].type = "DELAY" /\ state[i] = "ACTIVE"
    /\ MarkCompleted({i}, ready)
    /\ Advance
    /\ UNCHANGED <<graph, started, observed, complete, actions, notified, wire, issued, losses>>

ExecNext ==
    \/ Start \/ Drain \/ BeginIssue \/ EndPass
    \/ \E i \in actions : Issue(i)
    \/ \E t \in Transfers : Deliver(t) \/ Lose(t)
    \/ \E i \in Ids : OnDelayExpired(i)

\* A call that has begun returns; a scheduled delay expires; a packet that is
\* not lost is delivered.
ExecFairness ==
    /\ WF_execVars(Drain \/ BeginIssue \/ EndPass \/ \E i \in actions : Issue(i))
    /\ WF_execVars(\E t \in Transfers : Deliver(t))
    /\ WF_execVars(\E i \in Ids : OnDelayExpired(i))

ExecSpec == ExecInit /\ [][ExecNext]_execVars /\ WF_execVars(Start) /\ ExecFairness

-----------------------------------------------------------------------------

\* A node leaves the state PENDING only when its dependencies are completed:
\* all of them, or one where the graph says ANY.
DependencyOrder ==
    \A i \in Ids :
        state[i] # "PENDING" /\ graph[i].deps # {} =>
            LET done == {j \in graph[i].deps : state[j] = "COMPLETED"}
            IN  IF graph[i].any THEN done # {} ELSE done = graph[i].deps

\* When packets of a transfer are under way their wait is listening: no
\* delivery is missed, since the actions of a pass are called back only after
\* all its waits are active.
DeliveryIsHeard ==
    ~complete => \A i \in Waits :
        issued[graph[i].transfer] > 0 => state[i] # "PENDING"

\* Where completion asks for all final nodes it comes after every node, and
\* never if a packet was lost.
CompleteIsTotal ==
    complete /\ (\A i \in Ids : ~graph[i].any) =>
        losses = 0 /\ \A i \in Ids : state[i] = "COMPLETED"

\* Without losses the completion callback is called.
EventuallyNotified == <>(notified \/ losses > 0)
=============================================================================
