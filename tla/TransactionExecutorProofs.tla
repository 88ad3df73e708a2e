---------------------- MODULE TransactionExecutorProofs ----------------------
(***************************************************************************)
(* The executor runs every valid graph in dependency order, whatever the   *)
(* order in which packets arrive, delays expire and calls nest; no packet  *)
(* arrives before its wait listens; and completion comes after every node. *)
(***************************************************************************)
EXTENDS TransactionExecutor, FiniteSetTheorems, TLAPS

\* The dependencies of j that are not completed.
Open(j) == {d \in graph[j].deps : state[d] # "COMPLETED"}

\* Node j may run.
Released(j) ==
    graph[j].deps # {} =>
        IF graph[j].any THEN Open(j) # graph[j].deps ELSE Open(j) = {}

\* The graph is one SetGraph accepts.
GraphOK ==
    \A i \in Ids : /\ IsFiniteSet(graph[i].deps) /\ graph[i].any \in BOOLEAN
                   /\ graph[i].deps \subseteq Ids

Types ==
    /\ state \in [Ids -> {"PENDING", "ACTIVE", "COMPLETED"}]
    /\ remaining \in [Ids -> Int]
    /\ ready \subseteq Ids

\* A queued node is pending and its dependencies allow it to run.
QueuedReleased == \A j \in ready : state[j] = "PENDING" /\ Released(j)

\* A node that has left the state PENDING was released.
RunReleased == \A j \in Ids : state[j] # "PENDING" => Released(j)

\* remainingDependencies counts what is open, until the node is queued.
Counted ==
    \A j \in Ids :
        state[j] = "PENDING" /\ j \notin ready /\ ~graph[j].any =>
            remaining[j] = Cardinality(Open(j))

\* Nothing happens before Start.
NotBeforeStart == ~started => ready = {} /\ \A i \in Ids : state[i] = "PENDING"

IInv ==
    /\ GraphOK /\ Types /\ QueuedReleased /\ RunReleased /\ Counted /\ NotBeforeStart

-----------------------------------------------------------------------------

\* What MarkCompleted and PropagateCompletion do to the invariant: the nodes in
\* done have run, and those they release are queued with the rest of the queue q.
LEMMA CompletionKeeps ==
    ASSUME IInv, UNCHANGED graph,
           NEW done \in SUBSET Ids, NEW q \in SUBSET ready,
           \A i \in done : state[i] # "COMPLETED" /\ Released(i) /\ i \notin q,
           \A i \in ready : i \in q \/ i \in done,
           \A i \in done : state[i] = "ACTIVE" \/ i \in ready,
           MarkCompleted(done, q)
    PROVE  /\ Types' /\ QueuedReleased' /\ RunReleased' /\ Counted'
<1>1. \A j \in Ids : Open(j)' = Open(j) \ done
  BY DEF IInv, GraphOK, Types, Ids, MarkCompleted, Open
<1>2. \A j \in Ids : Released(j) => Released(j)'
  BY <1>1 DEF Released, Open
<1>3. Types'
  <2>1. \A j \in Ids : Cardinality(graph[j].deps \cap done) \in Nat
    <3> SUFFICES ASSUME NEW j \in Ids
                 PROVE  Cardinality(graph[j].deps \cap done) \in Nat
      OBVIOUS
    <3>1. IsFiniteSet(graph[j].deps \cap done)
      BY FS_Intersection DEF IInv, GraphOK
    <3> QED
      BY <3>1, FS_CardinalityType
  <2>2. \A j \in Ids : remaining[j] - Cardinality(graph[j].deps \cap done) \in Int
    BY <2>1 DEF IInv, Types
  <2> QED
    BY <2>2 DEF IInv, Types, MarkCompleted, Ids
<1>4. ASSUME NEW j \in Ids, Reached(j, done), Enabled(j, done)
      PROVE  Released(j)'
  <2>1. CASE graph[j].any
    BY <1>1, <1>4, <2>1 DEF Reached, Released, Open
  <2>2. CASE ~graph[j].any
    <3>1. graph[j].deps \cap done \subseteq Open(j)
      BY DEF Open
    <3>2. IsFiniteSet(Open(j))
      BY FS_Subset DEF Open, IInv, GraphOK
    <3>3. Cardinality(graph[j].deps \cap done) = Cardinality(Open(j))
      BY <1>4, <2>2 DEF Enabled, Reached, IInv, Counted
    <3>4. graph[j].deps \cap done = Open(j)
      BY <3>1, <3>2, <3>3, FS_Subset
    <3> QED
      BY <1>1, <3>4, <2>2 DEF Released, Open
  <2> QED
    BY <2>1, <2>2 DEF IInv, GraphOK
<1>5. QueuedReleased'
  <2> SUFFICES ASSUME NEW j \in ready'
               PROVE  state'[j] = "PENDING" /\ Released(j)'
    BY DEF QueuedReleased
  <2>1. j \in Ids
    BY DEF MarkCompleted, IInv, Types
  <2>2. CASE j \in q
    BY <1>2, <2>1, <2>2 DEF MarkCompleted, IInv, QueuedReleased, Types
  <2>3. CASE Reached(j, done) /\ Enabled(j, done)
    <3>1. j \notin done
      BY <2>3 DEF Reached
    <3> QED
      BY <1>4, <2>1, <2>3, <3>1 DEF MarkCompleted, Reached
  <2> QED
    BY <2>2, <2>3 DEF MarkCompleted
<1>6. RunReleased'
  BY <1>2 DEF RunReleased, MarkCompleted, IInv, Types, Ids
<1>7. Counted'
  <2> SUFFICES ASSUME NEW j \in Ids, state'[j] = "PENDING", j \notin ready', ~graph[j].any
               PROVE  remaining'[j] = Cardinality(Open(j)')
    BY DEF Counted, Ids
  <2>1. j \notin done /\ state[j] = "PENDING"
    BY DEF MarkCompleted, IInv, Types
  <2>2. j \notin ready
    BY <2>1 DEF MarkCompleted
  <2>3. remaining[j] = Cardinality(Open(j))
    BY <2>1, <2>2 DEF IInv, Counted
  <2>4. CASE graph[j].deps \cap done = {}
    <3>1. Open(j)' = Open(j)
      BY <1>1, <2>4 DEF Open
    <3>2. remaining'[j] = remaining[j]
      BY <2>4 DEF MarkCompleted, Reached
    <3> QED
      BY <2>3, <3>1, <3>2
  <2>5. CASE graph[j].deps \cap done # {}
    <3>1. remaining'[j] = remaining[j] - Cardinality(graph[j].deps \cap done)
      BY <2>1, <2>2, <2>5 DEF MarkCompleted, Reached
    <3>2. /\ IsFiniteSet(Open(j)) /\ Open(j) \cap done = graph[j].deps \cap done
      BY FS_Subset DEF Open, IInv, GraphOK
    <3>3. Cardinality(Open(j) \ done) = Cardinality(Open(j)) - Cardinality(Open(j) \cap done)
      BY <3>2, FS_Difference
    <3> QED
      BY <1>1, <2>3, <3>1, <3>2, <3>3
  <2> QED
    BY <2>4, <2>5
<1> QED
  BY <1>3, <1>5, <1>6, <1>7

-----------------------------------------------------------------------------

\* A step that touches no node keeps the invariant.
LEMMA IdleKeeps ==
    ASSUME IInv, UNCHANGED <<graph, started, state, remaining, ready>>
    PROVE  IInv'
<1>1. \A j : Open(j)' = Open(j)
  BY DEF Open
<1>2. \A j : Released(j)' = Released(j)
  BY <1>1 DEF Released
<1> QED
  BY <1>1, <1>2 DEF IInv, GraphOK, Types, QueuedReleased, RunReleased, Counted,
                    NotBeforeStart, Ids

\* Start queues the nodes without dependencies.
LEMMA StartKeeps ==
    ASSUME IInv, Start
    PROVE  IInv'
<1>1. \A j : Open(j)' = Open(j)
  BY DEF Open, Start
<1>2. \A j : Released(j)' = Released(j)
  BY <1>1 DEF Released, Start
<1>3. ready = {} /\ \A i \in Ids : state[i] = "PENDING"
  BY DEF Start, IInv, NotBeforeStart
<1>4. QueuedReleased'
  BY <1>3 DEF Start, QueuedReleased, Released, Ids
<1> QED
  BY <1>1, <1>2, <1>3, <1>4 DEF Start, IInv, GraphOK, Types, RunReleased, Counted,
                                NotBeforeStart, Ids

\* A wait that starts to listen, or a delay that is scheduled, leaves the queue
\* and completes nothing.
LEMMA ActivateKeeps ==
    ASSUME IInv, NEW i \in ready, DrainActivate(i), UNCHANGED <<graph, started>>
    PROVE  IInv'
<1>1. i \in Ids /\ state[i] = "PENDING" /\ Released(i) /\ started
  BY DEF IInv, Types, QueuedReleased, NotBeforeStart
<1>2. \A j \in Ids : Open(j)' = Open(j)
  BY <1>1 DEF Open, DrainActivate, IInv, Types, GraphOK
<1>3. \A j \in Ids : Released(j)' = Released(j)
  BY <1>2 DEF Released
<1>4. Types'
  BY <1>1 DEF IInv, Types, DrainActivate, Ids
<1>5. QueuedReleased'
  BY <1>1, <1>3 DEF IInv, Types, QueuedReleased, DrainActivate
<1>6. RunReleased'
  BY <1>1, <1>3 DEF IInv, Types, RunReleased, DrainActivate, Ids
<1>7. Counted'
  BY <1>1, <1>2 DEF IInv, Types, Counted, DrainActivate, Ids
<1> QED
  BY <1>1, <1>4, <1>5, <1>6, <1>7 DEF IInv, GraphOK, NotBeforeStart, Ids

\* One round of the loop over ready nodes.
LEMMA DrainKeeps ==
    ASSUME IInv, Drain
    PROVE  IInv'
<1>1. PICK i \in ready : DrainAction(i) \/ DrainActivate(i) \/ DrainComplete(i)
  BY DEF Drain
<1>2. UNCHANGED <<graph, started>>
  BY DEF Drain
<1>3. CASE DrainActivate(i)
  BY <1>2, <1>3, ActivateKeeps
<1>4. CASE DrainAction(i) \/ DrainComplete(i)
  <2>1. MarkCompleted({i}, ready \ {i})
    BY <1>4 DEF DrainAction, DrainComplete
  <2>2. i \in Ids /\ state[i] = "PENDING" /\ Released(i) /\ started
    BY DEF IInv, Types, QueuedReleased, NotBeforeStart
  <2>3. Types' /\ QueuedReleased' /\ RunReleased' /\ Counted'
    BY <1>2, <2>1, <2>2, CompletionKeeps
  <2> QED
    BY <1>2, <2>2, <2>3 DEF IInv, GraphOK, NotBeforeStart, Ids
<1> QED
  BY <1>1, <1>3, <1>4

\* Active nodes that complete, by a delivery or when their delay expires.
LEMMA ActiveKeeps ==
    ASSUME IInv, NEW done \in SUBSET Ids, done # {},
           \A i \in done : state[i] = "ACTIVE",
           MarkCompleted(done, ready), UNCHANGED <<graph, started>>
    PROVE  IInv'
<1>1. \A i \in done : Released(i) /\ i \notin ready
  BY DEF IInv, RunReleased, QueuedReleased
<1>2. started
  BY DEF IInv, NotBeforeStart
<1>3. Types' /\ QueuedReleased' /\ RunReleased' /\ Counted'
  BY <1>1, CompletionKeeps
<1> QED
  BY <1>2, <1>3 DEF IInv, GraphOK, NotBeforeStart, Ids

\* The delivery of a packet.
LEMMA DeliverKeeps ==
    ASSUME IInv, NEW t, Deliver(t)
    PROVE  IInv'
<1>1. NotifyEvent(t, 1) /\ UNCHANGED <<graph, started>>
  BY DEF Deliver
<1>2. CASE complete \/ Satisfied(t, 1) = {}
  <2>1. UNCHANGED <<state, remaining, ready>>
    BY <1>1, <1>2 DEF NotifyEvent, runtime
  <2> QED
    BY <1>1, <2>1, IdleKeeps
<1>3. CASE ~complete /\ Satisfied(t, 1) # {}
  <2>1. MarkCompleted(Satisfied(t, 1), ready)
    BY <1>1, <1>3 DEF NotifyEvent
  <2>2. /\ Satisfied(t, 1) \subseteq Ids
        /\ \A i \in Satisfied(t, 1) : state[i] = "ACTIVE"
    BY DEF Satisfied, Listens, Waits, OfType, Ids
  <2> QED
    BY <1>1, <1>3, <2>1, <2>2, ActiveKeeps
<1> QED
  BY <1>2, <1>3

\* Every graph that SetGraph accepts starts out with exact counts.
LEMMA InitKeeps == ExecInit => IInv
<1> SUFFICES ASSUME ExecInit PROVE IInv
  OBVIOUS
<1>1. GraphOK
  <2>1. /\ IsFiniteSet(Ids)
        /\ \A i \in Ids : graph[i].any \in BOOLEAN /\ graph[i].deps \in SUBSET Ids
    BY GraphsAssumption DEF ExecInit, Validate, Ids
  <2>2. \A i \in Ids : IsFiniteSet(graph[i].deps)
    BY <2>1, FS_Subset
  <2> QED
    BY <2>1, <2>2 DEF GraphOK
<1>2. \A j \in Ids : Open(j) = graph[j].deps
  BY <1>1 DEF ExecInit, InitializeRuntime, Open, GraphOK
<1>3. \A j \in Ids : Cardinality(graph[j].deps) \in Nat
  BY <1>1, FS_CardinalityType DEF GraphOK
<1>4. Types
  BY <1>3 DEF ExecInit, InitializeRuntime, Types
<1> QED
  BY <1>1, <1>2, <1>4 DEF ExecInit, InitializeRuntime, IInv, QueuedReleased, RunReleased,
                          Counted, NotBeforeStart

\* Every step of the executor and of the fabric keeps the invariant.
LEMMA StepKeeps == IInv /\ [ExecNext]_execVars => IInv'
<1> SUFFICES ASSUME IInv, [ExecNext]_execVars PROVE IInv'
  OBVIOUS
<1>1. CASE Start
  BY <1>1, StartKeeps
<1>2. CASE Drain
  BY <1>2, DrainKeeps
<1>3. CASE BeginIssue \/ EndPass \/ \E i \in actions : Issue(i)
  BY <1>3, IdleKeeps DEF BeginIssue, EndPass, Issue, runtime
<1>4. ASSUME NEW t \in Transfers, Deliver(t)
      PROVE  IInv'
  BY <1>4, DeliverKeeps
<1>5. ASSUME NEW t \in Transfers, Lose(t)
      PROVE  IInv'
  BY <1>5, IdleKeeps DEF Lose, runtime
<1>6. ASSUME NEW i \in Ids, OnDelayExpired(i)
      PROVE  IInv'
  BY <1>6, ActiveKeeps DEF OnDelayExpired
<1>7. CASE UNCHANGED execVars
  BY <1>7, IdleKeeps DEF execVars, runtime
<1> QED
  BY <1>1, <1>2, <1>3, <1>4, <1>5, <1>6, <1>7 DEF ExecNext

\* For every set of valid graphs, no node starts before its dependencies allow
\* it, however deliveries, losses, delays and nested calls interleave.
THEOREM RunsInOrder == ExecSpec => []DependencyOrder
<1>1. IInv => DependencyOrder
  BY DEF IInv, RunReleased, Released, Open, DependencyOrder
<1> QED
  BY <1>1, InitKeeps, StepKeeps, PTL DEF ExecSpec

-----------------------------------------------------------------------------
(* Waits listen before packets leave.                                      *)

TransferOf(i) == graph[i].transfer

\* The graph is one that SetGraph accepts and the program puts together.
GraphPaired ==
    /\ IsFiniteSet(Ids) /\ Validate(graph) /\ Paired(graph)
    /\ \A i \in Ids : graph[i].bytes \in Nat

\* A node whose dependencies are all completed is queued or has run.
NoneOverlooked ==
    \A j \in Ids :
        state[j] = "PENDING" /\ j \notin ready /\ ~graph[j].any /\ graph[j].deps # {} =>
            Open(j) # {}

\* A transfer is issued once, after its action was collected.
CollectedOnce ==
    /\ issued \in [Transfers -> Nat]
    /\ actions \subseteq Actions
    /\ \A a \in actions : state[a] = "COMPLETED" /\ issued[TransferOf(a)] = 0
    /\ \A a \in Actions : issued[TransferOf(a)] # 0 => state[a] = "COMPLETED"

\* While a wait is pending its transfer was not issued, and is not among those
\* that the current pass is about to issue.
WaitsFirst ==
    \A i \in Waits : state[i] = "PENDING" =>
        /\ issued[TransferOf(i)] = 0
        /\ pc = "issuing" => graph[i].deps \cap actions = {}

HeardInv == GraphPaired /\ NoneOverlooked /\ CollectedOnce /\ WaitsFirst

\* The action of a wait.
LEMMA PairOfWait ==
    ASSUME GraphPaired, NEW i \in Waits
    PROVE  \E a \in Actions : /\ graph[i].deps = {a} /\ ~graph[i].any
                              /\ TransferOf(a) = TransferOf(i) /\ TransferOf(i) \in Transfers
                              /\ graph[a].bytes = graph[i].bytes
<1>1. PICK a \in Actions : graph[i] = AddWait({a}, graph[a].transfer, graph[a].bytes)
  BY DEF GraphPaired, Paired, Waits, Actions
<1>2. graph[i].deps = {a} /\ graph[i].any = FALSE
      /\ graph[i].transfer = graph[a].transfer /\ graph[i].bytes = graph[a].bytes
  BY <1>1 DEF AddWait
<1>3. graph[a].transfer \in Transfers
  BY DEF Transfers
<1> QED
  BY <1>2, <1>3 DEF TransferOf

\* No two actions start the same transfer, and only they have its waits.
LEMMA OneAction ==
    ASSUME GraphPaired, NEW a \in Actions, NEW b \in Actions, TransferOf(a) = TransferOf(b)
    PROVE  a = b
  BY DEF GraphPaired, Paired, Actions, TransferOf

\* PropagateCompletion queues every node whose last open dependency it closes.
LEMMA CompletionOverlooksNone ==
    ASSUME IInv, NoneOverlooked, UNCHANGED graph,
           NEW done \in SUBSET Ids, NEW q \in SUBSET ready,
           \A i \in done : state[i] # "COMPLETED",
           \A i \in ready : i \in q \/ i \in done,
           MarkCompleted(done, q)
    PROVE  NoneOverlooked'
<1> SUFFICES ASSUME NEW j \in Ids, state'[j] = "PENDING", j \notin ready',
                    ~graph[j].any, graph[j].deps # {}
             PROVE  Open(j)' # {}
  BY DEF NoneOverlooked, Ids
<1>1. Open(j)' = Open(j) \ done
  BY DEF IInv, GraphOK, Types, Ids, MarkCompleted, Open
<1>2. j \notin done /\ state[j] = "PENDING" /\ j \notin ready
  BY DEF MarkCompleted, IInv, Types
<1>3. Open(j) # {}
  BY <1>2 DEF NoneOverlooked
<1>4. CASE graph[j].deps \cap done = {}
  BY <1>1, <1>3, <1>4 DEF Open
<1>5. CASE graph[j].deps \cap done # {}
  <2>1. remaining[j] # Cardinality(graph[j].deps \cap done)
    BY <1>2, <1>5 DEF MarkCompleted, Reached, Enabled
  <2>2. remaining[j] = Cardinality(Open(j))
    BY <1>2 DEF IInv, Counted
  <2>3. graph[j].deps \cap done # Open(j)
    BY <2>1, <2>2
  <2>4. graph[j].deps \cap done \subseteq Open(j)
    BY DEF Open
  <2>5. Open(j) \subseteq graph[j].deps
    BY DEF Open
  <2> QED
    BY <1>1, <2>3, <2>4, <2>5
<1> QED
  BY <1>4, <1>5

\* A step that issues nothing and collects nothing.
LEMMA NothingIssued ==
    ASSUME HeardInv, UNCHANGED <<graph, issued, actions>>,
           \A j \in Ids : state'[j] = "PENDING" => state[j] = "PENDING",
           \A j \in Ids : state[j] = "COMPLETED" => state'[j] = "COMPLETED",
           pc' = "issuing" => pc = "issuing",
           NoneOverlooked'
    PROVE  HeardInv'
<1>1. GraphPaired'
  BY DEF HeardInv, GraphPaired, Ids
<1>2. Actions \subseteq Ids /\ Waits \subseteq Ids
  BY DEF Actions, Waits, OfType, Ids
<1>3. CollectedOnce'
  BY <1>2 DEF HeardInv, CollectedOnce, TransferOf, Actions, Transfers
<1>4. WaitsFirst'
  BY <1>2 DEF HeardInv, WaitsFirst, TransferOf, Waits
<1> QED
  BY <1>1, <1>3, <1>4 DEF HeardInv

\* A step that completes no node and queues none.
LEMMA NoneOverlookedStays ==
    ASSUME NoneOverlooked, UNCHANGED <<graph, state, ready>>
    PROVE  NoneOverlooked'
<1>1. \A j : Open(j)' = Open(j)
  BY DEF Open
<1> QED
  BY <1>1 DEF NoneOverlooked, Ids

LEMMA StartHeard ==
    ASSUME IInv, HeardInv, Start
    PROVE  HeardInv'
<1>1. /\ UNCHANGED <<graph, state, issued, actions>>
      /\ ready' = {i \in Ids : graph[i].deps = {}}
      /\ pc' = "issuing" => pc = "issuing"
  BY DEF Start, Advance
<1>2. \A i \in Ids : state[i] = "PENDING"
  BY DEF Start, IInv, NotBeforeStart
<1>3. NoneOverlooked'
  <2>1. \A j \in Ids : Open(j)' = graph[j].deps
    BY <1>1, <1>2 DEF Open, IInv, GraphOK
  <2> QED
    BY <1>1, <2>1 DEF NoneOverlooked, Ids
<1> QED
  BY <1>1, <1>3, NothingIssued

LEMMA DrainHeard ==
    ASSUME IInv, HeardInv, Drain
    PROVE  HeardInv'
<1>1. PICK i \in ready : DrainAction(i) \/ DrainActivate(i) \/ DrainComplete(i)
  BY DEF Drain
<1>2. UNCHANGED <<graph, pc>> /\ pc = "draining"
  BY DEF Drain
<1>3. i \in Ids /\ state[i] = "PENDING" /\ Released(i)
  BY DEF IInv, Types, QueuedReleased
<1>4. CASE DrainActivate(i)
  <2>1. state' = [state EXCEPT ![i] = "ACTIVE"] /\ ready' = ready \ {i}
        /\ UNCHANGED <<issued, actions>>
    BY <1>4 DEF DrainActivate
  <2>2. NoneOverlooked'
    <3>1. \A j \in Ids : Open(j)' = Open(j)
      BY <1>2, <1>3, <2>1 DEF Open, IInv, GraphOK, Types
    <3>2. \A j \in Ids : state'[j] = "PENDING" => state[j] = "PENDING" /\ j # i
      BY <1>3, <2>1 DEF IInv, Types
    <3> QED
      BY <1>2, <2>1, <3>1, <3>2 DEF HeardInv, NoneOverlooked, Ids
  <2>3. \A j \in Ids : /\ state'[j] = "PENDING" => state[j] = "PENDING"
                       /\ state[j] = "COMPLETED" => state'[j] = "COMPLETED"
    BY <1>3, <2>1 DEF IInv, Types
  <2> QED
    BY <1>2, <2>1, <2>2, <2>3, NothingIssued
<1>5. CASE DrainAction(i) \/ DrainComplete(i)
  <2>1. MarkCompleted({i}, ready \ {i}) /\ UNCHANGED issued
    BY <1>5 DEF DrainAction, DrainComplete
  <2>2. NoneOverlooked'
    BY <1>2, <1>3, <2>1, CompletionOverlooksNone DEF HeardInv
  <2>3. state'[i] = "COMPLETED" /\ \A j \in Ids : j # i => state'[j] = state[j]
    BY <1>3, <2>1 DEF MarkCompleted
  <2>4. CASE DrainComplete(i)
    <3>1. UNCHANGED actions
      BY <2>4 DEF DrainComplete
    <3> QED
      BY <1>2, <1>3, <2>1, <2>2, <2>3, <3>1, NothingIssued
  <2>5. CASE DrainAction(i)
    <3>1. actions' = actions \cup {i} /\ i \in Actions
      BY <1>3, <2>5 DEF DrainAction, Actions, OfType, Ids
    <3>2. issued[TransferOf(i)] = 0
      BY <1>3, <3>1 DEF HeardInv, CollectedOnce
    <3>3. GraphPaired'
      BY <1>2 DEF HeardInv, GraphPaired, Ids
    <3>4. Actions \subseteq Ids /\ Waits \subseteq Ids
      BY DEF Actions, Waits, OfType, Ids
    <3>5. CollectedOnce'
      BY <1>2, <2>1, <2>3, <3>1, <3>2, <3>4
      DEF HeardInv, CollectedOnce, TransferOf, Actions, Transfers
    <3>6. WaitsFirst'
      BY <1>2, <1>3, <2>1, <2>3, <3>4 DEF HeardInv, WaitsFirst, TransferOf, Waits
    <3> QED
      BY <2>2, <3>3, <3>5, <3>6 DEF HeardInv
  <2> QED
    BY <1>5, <2>4, <2>5
<1> QED
  BY <1>1, <1>4, <1>5

\* When no node is ready any more, every wait of a collected action listens.
LEMMA BeginIssueHeard ==
    ASSUME IInv, HeardInv, BeginIssue
    PROVE  HeardInv'
<1>1. UNCHANGED <<graph, state, ready, issued, actions>> /\ ready = {}
  BY DEF BeginIssue, runtime
<1>2. GraphPaired' /\ NoneOverlooked' /\ CollectedOnce'
  BY <1>1, NoneOverlookedStays
  DEF HeardInv, GraphPaired, CollectedOnce, TransferOf, Actions, Transfers, Ids
<1>3. ASSUME NEW i \in Waits, state[i] = "PENDING"
      PROVE  issued[TransferOf(i)] = 0 /\ graph[i].deps \cap actions = {}
  <2>1. PICK a \in Actions : graph[i].deps = {a} /\ ~graph[i].any
    BY PairOfWait DEF HeardInv
  <2>2. i \in Ids
    BY DEF Waits, OfType, Ids
  <2>3. Open(i) # {}
    BY <1>1, <1>3, <2>1, <2>2 DEF HeardInv, NoneOverlooked
  <2>4. a \notin actions
    BY <2>1, <2>3 DEF Open, HeardInv, CollectedOnce
  <2>5. issued[TransferOf(i)] = 0
    BY <1>3 DEF HeardInv, WaitsFirst
  <2> QED
    BY <2>1, <2>4, <2>5
<1>4. WaitsFirst'
  BY <1>1, <1>3 DEF WaitsFirst, TransferOf, Waits
<1> QED
  BY <1>2, <1>4 DEF HeardInv

LEMMA IssueHeard ==
    ASSUME IInv, HeardInv, NEW a \in actions, Issue(a)
    PROVE  HeardInv'
<1> DEFINE t == TransferOf(a)
<1>1. /\ UNCHANGED <<graph, state, ready, pc>> /\ pc = "issuing"
      /\ actions' = actions \ {a}
      /\ issued' = [issued EXCEPT ![t] = @ + 1]
  BY DEF Issue, runtime, TransferOf
<1>2. /\ a \in Actions /\ t \in Transfers /\ state[a] = "COMPLETED"
      /\ issued \in [Transfers -> Nat]
  BY DEF HeardInv, CollectedOnce, Transfers, TransferOf
<1>3. \A b \in Actions : b # a => TransferOf(b) # t
  BY <1>2, OneAction DEF HeardInv
<1>4. \A b \in Actions : TransferOf(b) \in Transfers
  BY DEF Transfers, TransferOf
<1> HIDE DEF t
<1>5. /\ issued' \in [Transfers -> Nat]
      /\ \A b \in Actions : b # a => issued'[TransferOf(b)] = issued[TransferOf(b)]
  BY <1>1, <1>2, <1>3, <1>4
<1>6. CollectedOnce'
  BY <1>1, <1>2, <1>5 DEF HeardInv, CollectedOnce, TransferOf, Actions, Transfers
<1>7. WaitsFirst'
  <2> SUFFICES ASSUME NEW i \in Waits, state[i] = "PENDING"
               PROVE  issued'[TransferOf(i)] = 0 /\ graph[i].deps \cap actions' = {}
    BY <1>1 DEF WaitsFirst, TransferOf, Waits
  <2>1. PICK b \in Actions : graph[i].deps = {b} /\ TransferOf(b) = TransferOf(i)
    BY PairOfWait DEF HeardInv
  <2>2. issued[TransferOf(i)] = 0 /\ graph[i].deps \cap actions = {}
    BY <1>1 DEF HeardInv, WaitsFirst
  <2>3. b # a
    BY <2>1, <2>2
  <2> QED
    BY <1>1, <1>5, <2>1, <2>2, <2>3
<1> QED
  BY <1>1, <1>6, <1>7, NoneOverlookedStays DEF HeardInv, GraphPaired, Ids

\* Active nodes complete; the nested or new Advance does not begin to issue.
LEMMA ActiveHeard ==
    ASSUME IInv, HeardInv, NEW done \in SUBSET Ids,
           \A i \in done : state[i] = "ACTIVE",
           MarkCompleted(done, ready), Advance, UNCHANGED <<graph, issued, actions>>
    PROVE  HeardInv'
<1>1. NoneOverlooked'
  BY CompletionOverlooksNone DEF HeardInv
<1>2. pc' = "issuing" => pc = "issuing"
  BY DEF Advance
<1>3. \A j \in Ids : /\ state'[j] = "PENDING" => state[j] = "PENDING"
                     /\ state[j] = "COMPLETED" => state'[j] = "COMPLETED"
  BY DEF MarkCompleted
<1> QED
  BY <1>1, <1>2, <1>3, NothingIssued

LEMMA HeardStep == IInv /\ HeardInv /\ [ExecNext]_execVars => HeardInv'
<1> SUFFICES ASSUME IInv, HeardInv, [ExecNext]_execVars PROVE HeardInv'
  OBVIOUS
<1>1. ASSUME UNCHANGED <<graph, state, ready, issued, actions>>, pc' = "issuing" => pc = "issuing"
      PROVE  HeardInv'
  BY <1>1, NothingIssued, NoneOverlookedStays DEF HeardInv
<1>2. CASE Start
  BY <1>2, StartHeard
<1>3. CASE Drain
  BY <1>3, DrainHeard
<1>4. CASE BeginIssue
  BY <1>4, BeginIssueHeard
<1>5. CASE EndPass
  BY <1>1, <1>5 DEF EndPass, runtime
<1>6. ASSUME NEW a \in actions, Issue(a) PROVE HeardInv'
  BY <1>6, IssueHeard
<1>7. ASSUME NEW t \in Transfers, Deliver(t) PROVE HeardInv'
  <2>1. NotifyEvent(t, 1) /\ UNCHANGED <<graph, issued, actions>>
    BY <1>7 DEF Deliver
  <2>2. CASE complete \/ Satisfied(t, 1) = {}
    <3>1. UNCHANGED <<state, ready, pc>>
      BY <2>1, <2>2 DEF NotifyEvent, runtime
    <3> QED
      BY <1>1, <2>1, <3>1
  <2>3. CASE ~complete /\ Satisfied(t, 1) # {}
    <3>1. MarkCompleted(Satisfied(t, 1), ready) /\ Advance
      BY <2>1, <2>3 DEF NotifyEvent
    <3>2. /\ Satisfied(t, 1) \subseteq Ids
          /\ \A i \in Satisfied(t, 1) : state[i] = "ACTIVE"
      BY DEF Satisfied, Listens, Waits, OfType, Ids
    <3> QED
      BY <2>1, <3>1, <3>2, ActiveHeard
  <2> QED
    BY <2>2, <2>3
<1>8. ASSUME NEW t \in Transfers, Lose(t) PROVE HeardInv'
  BY <1>1, <1>8 DEF Lose, runtime
<1>9. ASSUME NEW i \in Ids, OnDelayExpired(i) PROVE HeardInv'
  BY <1>9, ActiveHeard DEF OnDelayExpired
<1>10. CASE UNCHANGED execVars
  BY <1>1, <1>10 DEF execVars, runtime
<1> QED
  BY <1>2, <1>3, <1>4, <1>5, <1>6, <1>7, <1>8, <1>9, <1>10 DEF ExecNext

LEMMA InitHeard == ExecInit => HeardInv
<1> SUFFICES ASSUME ExecInit PROVE HeardInv
  OBVIOUS
<1>1. GraphPaired
  BY GraphsAssumption DEF ExecInit, GraphPaired, Ids
<1>2. NoneOverlooked
  <2>1. \A j \in Ids : graph[j].deps \subseteq Ids
    BY <1>1 DEF GraphPaired, Validate, Ids
  <2> QED
    BY <2>1 DEF ExecInit, InitializeRuntime, NoneOverlooked, Open
<1>3. CollectedOnce
  BY DEF ExecInit, CollectedOnce, Transfers, TransferOf
<1>4. WaitsFirst
  <2>1. \A i \in Waits : TransferOf(i) \in Transfers
    BY <1>1, PairOfWait
  <2> QED
    BY <2>1 DEF ExecInit, WaitsFirst
<1> QED
  BY <1>1, <1>2, <1>3, <1>4 DEF HeardInv

\* On every graph put together from AddTransaction's pairs no packet of a
\* transfer is under way before its wait listens, although callbacks may
\* re-enter Advance and deliveries come in any order.
THEOREM DeliveriesHeard == ExecSpec => []DeliveryIsHeard
<1>1. HeardInv => DeliveryIsHeard
  <2> SUFFICES ASSUME HeardInv, NEW i \in Waits, issued[graph[i].transfer] > 0
               PROVE  state[i] # "PENDING"
    BY DEF DeliveryIsHeard
  <2> QED
    BY DEF HeardInv, WaitsFirst, TransferOf
<1> QED
  BY <1>1, InitKeeps, StepKeeps, InitHeard, HeardStep, PTL DEF ExecSpec

-----------------------------------------------------------------------------
(* The search backwards from the completion node.                          *)

\* Every nonempty set of natural numbers has a least element.
LEMMA LeastNumber ==
    ASSUME NEW T \in SUBSET Nat, T # {}
    PROVE  \E n \in T : \A k \in T : n <= k
<1> DEFINE R == {ss \in Nat \X Nat : ss[1] < ss[2]}
<1>1. IsWellFoundedOn(R, Nat)
  BY NatLessThanWellFounded, Zenon DEF OpToRel
<1>2. \A x, y \in Nat : x < y => <<x, y>> \in R
  OBVIOUS
<1> HIDE DEF R
<1>3. PICK n \in T : \A k \in T : ~(<<k, n>> \in R)
  BY <1>1, WFMin
<1>4. \A k \in T : ~(k < n)
  BY <1>2, <1>3
<1> QED
  BY <1>4

\* A set that holds the completion node, and with each node its dependencies,
\* holds every node the search of AllReachCompletion finds.  (The rounds of
\* the search exist: round k finds the ends of the paths of k steps from the
\* completion node, each to a dependency or in place.)
LEMMA SearchStaysInside ==
    ASSUME NEW g, AllReachCompletion(g), IsFiniteSet(DOMAIN g),
           \A i \in DOMAIN g : g[i].deps \subseteq DOMAIN g,
           NEW C, OfType(g, "COMPLETE") \subseteq C,
           \A i \in C \cap DOMAIN g : g[i].deps \subseteq C
    PROVE  DOMAIN g \subseteq C
<1> DEFINE D == DOMAIN g
           A == OfType(g, "COMPLETE")
           Rounds(f) == f = [k \in Nat |->
                               IF k = 0 THEN A
                               ELSE f[k - 1] \cup UNION {g[i].deps : i \in f[k - 1]}]
           reaching == CHOOSE f : Rounds(f)
           Moves(i, j) == j = i \/ j \in g[i].deps
           Path(p, k) == /\ p \in [0..k -> D] /\ p[0] \in A
                         /\ \A m \in 0..(k - 1) : Moves(p[m], p[m + 1])
           h == [k \in Nat |-> {x \in D : \E p \in [0..k -> D] : Path(p, k) /\ p[k] = x}]
<1>1. A \subseteq D
  BY DEF OfType
<1>2. h[0] = A
  <2>1. ASSUME NEW x \in A PROVE x \in h[0]
    <3> DEFINE p == [m \in 0..0 |-> x]
    <3>1. p \in [0..0 -> D] /\ p[0] = x /\ 0..(0 - 1) = {}
      BY <1>1
    <3>2. Path(p, 0)
      BY <3>1
    <3> QED
      BY <1>1, <3>1, <3>2
  <2>2. ASSUME NEW x \in h[0] PROVE x \in A
    OBVIOUS
  <2> QED
    BY <2>1, <2>2
<1>3. ASSUME NEW k \in Nat, k # 0
      PROVE  h[k] = h[k - 1] \cup UNION {g[i].deps : i \in h[k - 1]}
  <2>0. k - 1 \in Nat
    BY <1>3
  <2>1. ASSUME NEW x \in h[k]
        PROVE  \E i \in h[k - 1] : Moves(i, x)
    <3>1. PICK p \in [0..k -> D] : Path(p, k) /\ p[k] = x
      OBVIOUS
    <3> DEFINE q == [m \in 0..(k - 1) |-> p[m]]
    <3>2. q \in [0..(k - 1) -> D] /\ Path(q, k - 1)
      <4>1. \A m \in 0..(k - 1) : m \in 0..k
        BY <2>0
      <4>2. q \in [0..(k - 1) -> D] /\ q[0] = p[0]
        BY <2>0, <4>1
      <4>3. ASSUME NEW m \in 0..((k - 1) - 1) PROVE Moves(q[m], q[m + 1])
        <5>1. m \in 0..(k - 1) /\ m + 1 \in 0..(k - 1)
          BY <2>0
        <5>2. q[m] = p[m] /\ q[m + 1] = p[m + 1]
          BY <5>1
        <5> HIDE DEF Moves
        <5> QED
          BY <3>1, <5>1, <5>2
      <4> HIDE DEF q, Moves
      <4> QED
        BY <3>1, <4>2, <4>3
    <3>3. q[k - 1] \in h[k - 1]
      <4> HIDE DEF q, Path
      <4>1. q[k - 1] \in D
        BY <2>0, <3>2
      <4> QED
        BY <2>0, <3>2, <4>1
    <3>4. Moves(p[k - 1], p[(k - 1) + 1]) /\ (k - 1) + 1 = k /\ q[k - 1] = p[k - 1]
      BY <2>0, <3>1
    <3> QED
      BY <3>1, <3>3, <3>4
  <2>2. ASSUME NEW i \in h[k - 1], NEW x, Moves(i, x)
        PROVE  x \in h[k]
    <3>0. i \in D /\ x \in D
      BY <2>0, <2>2
    <3>1. PICK p \in [0..(k - 1) -> D] : Path(p, k - 1) /\ p[k - 1] = i
      BY <2>0
    <3> DEFINE q == [m \in 0..k |-> IF m = k THEN x ELSE p[m]]
    <3>2. q \in [0..k -> D] /\ q[0] = p[0] /\ q[k] = x
      BY <1>3, <2>0, <3>0, <3>1
    <3>3. ASSUME NEW m \in 0..(k - 1) PROVE Moves(q[m], q[m + 1])
      <4>1. CASE m = k - 1
        <5>1. q[m] = i /\ q[m + 1] = x
          BY <2>0, <3>1, <4>1
        <5> QED
          BY <2>2, <5>1
      <4>2. CASE m # k - 1
        <5>1. m \in 0..((k - 1) - 1) /\ q[m] = p[m] /\ q[m + 1] = p[m + 1]
          BY <2>0, <4>2
        <5> QED
          BY <3>1, <5>1
      <4> QED
        BY <4>1, <4>2
    <3> HIDE DEF q, Moves
    <3>4. Path(q, k)
      BY <3>1, <3>2, <3>3
    <3> QED
      BY <3>0, <3>2, <3>4
  <2> HIDE DEF h
  <2> QED
    BY <2>1, <2>2
<1> HIDE DEF h, Moves, Path
<1>4. Rounds(h)
  <2>1. h = [k \in Nat |-> h[k]]
    BY DEF h
  <2> QED
    BY <1>2, <1>3, <2>1
<1>5. Rounds(reaching)
  <2> HIDE DEF Rounds
  <2> QED
    BY <1>4
<1>6. reaching[Cardinality(D)] = D
  BY DEF AllReachCompletion
<1> HIDE DEF reaching
<1>7. /\ reaching[0] = A
      /\ \A k \in Nat : k # 0 =>
           reaching[k] = reaching[k - 1] \cup UNION {g[i].deps : i \in reaching[k - 1]}
  BY <1>5
<1> HIDE DEF Rounds
<1>8. ASSUME NEW k \in Nat, ~(reaching[k] \subseteq C \cap D)
      PROVE  FALSE
  <2> DEFINE T == {n \in Nat : ~(reaching[n] \subseteq C \cap D)}
  <2>1. PICK n \in T : \A m \in T : n <= m
    <3>1. T \in SUBSET Nat /\ T # {}
      BY <1>8
    <3> HIDE DEF T
    <3> QED
      BY <3>1, LeastNumber
  <2>2. n # 0
    BY <1>1, <1>7
  <2>3. n - 1 \in Nat /\ n - 1 \notin T
    BY <2>1, <2>2
  <2>4. reaching[n - 1] \subseteq C \cap D
    BY <2>3
  <2>5. reaching[n] = reaching[n - 1] \cup UNION {g[i].deps : i \in reaching[n - 1]}
    BY <1>7, <2>2
  <2>6. \A i \in reaching[n - 1] : g[i].deps \subseteq C \cap D
    BY <2>4
  <2> QED
    BY <2>4, <2>5, <2>6
<1>9. Cardinality(D) \in Nat
  BY FS_CardinalityType
<1> QED
  BY <1>6, <1>8, <1>9

-----------------------------------------------------------------------------
(* Every byte is accounted for.                                            *)

ByteTypes ==
    /\ wire \in [Transfers -> Nat]
    /\ observed \in [Ids -> Nat]
    /\ losses \in Nat
    /\ \A t \in Transfers : issued[t] = 0 => wire[t] = 0

\* A wait counts no byte twice.
NoByteTwice ==
    \A i \in Waits :
        IF issued[TransferOf(i)] = 0 THEN observed[i] = 0
        ELSE observed[i] + wire[TransferOf(i)] <= graph[i].bytes

\* A completed wait has all its bytes.
CompletedHasAll ==
    \A i \in Waits : state[i] = "COMPLETED" => observed[i] >= graph[i].bytes

\* After a loss some transfer can no longer be delivered in full.
LossLeavesMark ==
    losses > 0 => \E i \in Waits : /\ issued[TransferOf(i)] # 0
                                   /\ observed[i] + wire[TransferOf(i)] < graph[i].bytes

\* Completion is that of the completion node.
CompleteIsNode ==
    complete => \E c \in OfType(graph, "COMPLETE") : state[c] = "COMPLETED"

ByteInv == ByteTypes /\ NoByteTwice /\ CompletedHasAll /\ LossLeavesMark /\ CompleteIsNode

\* Waits, their transfers and what they ask for.
LEMMA WaitFacts ==
    ASSUME HeardInv, NEW i \in Waits
    PROVE  i \in Ids /\ TransferOf(i) \in Transfers /\ graph[i].bytes \in Nat
<1>1. i \in Ids
  BY DEF Waits, OfType, Ids
<1> QED
  BY <1>1, PairOfWait DEF HeardInv, GraphPaired

\* A step that moves no byte; the nodes it completes are no waits.
LEMMA NoByteMoves ==
    ASSUME ByteInv, UNCHANGED <<graph, wire, observed, losses, issued>>,
           \A i \in Waits : state'[i] = "COMPLETED" => state[i] = "COMPLETED",
           \A i \in Ids : state[i] = "COMPLETED" => state'[i] = "COMPLETED",
           complete' => complete \/ \E c \in OfType(graph, "COMPLETE") : state'[c] = "COMPLETED"
    PROVE  ByteInv'
<1>1. ByteTypes' /\ NoByteTwice' /\ LossLeavesMark'
  BY DEF ByteInv, ByteTypes, NoByteTwice, LossLeavesMark, TransferOf, Transfers, Actions,
         Waits, Ids
<1>2. CompletedHasAll'
  BY DEF ByteInv, CompletedHasAll, Waits
<1>3. CompleteIsNode'
  BY DEF ByteInv, CompleteIsNode, OfType, Ids
<1> QED
  BY <1>1, <1>2, <1>3 DEF ByteInv

LEMMA DrainBytes ==
    ASSUME IInv, ByteInv, Drain
    PROVE  ByteInv'
<1>1. PICK i \in ready : DrainAction(i) \/ DrainActivate(i) \/ DrainComplete(i)
  BY DEF Drain
<1>2. UNCHANGED <<graph, wire, observed, losses, issued>>
  BY <1>1 DEF Drain, DrainAction, DrainActivate, DrainComplete
<1>3. i \in Ids /\ state[i] = "PENDING"
  BY DEF IInv, Types, QueuedReleased
<1>4. Waits \subseteq Ids /\ \A j \in Waits : graph[j].type = "WAIT"
  BY DEF Waits, OfType, Ids
<1>5. CASE DrainActivate(i)
  <2>1. /\ \A j \in Ids : state'[j] = "COMPLETED" <=> state[j] = "COMPLETED"
        /\ complete' = complete
    BY <1>3, <1>5 DEF DrainActivate, IInv, Types
  <2> QED
    BY <1>2, <1>4, <2>1, NoByteMoves
<1>6. CASE DrainAction(i) \/ DrainComplete(i)
  <2>1. /\ state'[i] = "COMPLETED" /\ \A j \in Ids : j # i => state'[j] = state[j]
        /\ i \notin Waits
    BY <1>3, <1>4, <1>6 DEF DrainAction, DrainComplete, MarkCompleted
  <2>2. complete' => complete \/ \E c \in OfType(graph, "COMPLETE") : state'[c] = "COMPLETED"
    BY <1>3, <1>6, <2>1 DEF DrainAction, DrainComplete, OfType, Ids
  <2> QED
    BY <1>2, <1>4, <2>1, <2>2, NoByteMoves
<1> QED
  BY <1>1, <1>5, <1>6

LEMMA IssueBytes ==
    ASSUME IInv, HeardInv, ByteInv, NEW a \in actions, Issue(a)
    PROVE  ByteInv'
<1> DEFINE t == TransferOf(a)
<1>1. /\ UNCHANGED <<graph, state, observed, losses, complete>>
      /\ wire' = [wire EXCEPT ![t] = @ + graph[a].bytes]
      /\ issued' = [issued EXCEPT ![t] = @ + 1]
  BY DEF Issue, runtime, TransferOf
<1>2. /\ a \in Actions /\ t \in Transfers /\ a \in Ids
      /\ issued \in [Transfers -> Nat] /\ issued[t] = 0
  BY DEF HeardInv, CollectedOnce, Transfers, TransferOf, Actions, OfType, Ids
<1>3. graph[a].bytes \in Nat
  BY <1>2 DEF HeardInv, GraphPaired
<1>4. wire \in [Transfers -> Nat] /\ wire[t] = 0
  BY <1>2 DEF ByteInv, ByteTypes
<1> HIDE DEF t
<1>5. /\ wire'[t] = graph[a].bytes /\ issued'[t] = 1
      /\ \A u \in Transfers : u # t => wire'[u] = wire[u] /\ issued'[u] = issued[u]
      /\ wire' \in [Transfers -> Nat]
  BY <1>1, <1>2, <1>3, <1>4
<1>6. ByteTypes'
  <2>1. \A u \in Transfers : issued'[u] = 0 => wire'[u] = 0
    <3> SUFFICES ASSUME NEW u \in Transfers, issued'[u] = 0 PROVE wire'[u] = 0
      OBVIOUS
    <3>1. u # t
      BY <1>5
    <3> QED
      BY <1>5, <3>1 DEF ByteInv, ByteTypes
  <2> QED
    BY <1>1, <1>5, <2>1 DEF ByteInv, ByteTypes, Transfers, Actions, Ids
<1>7. NoByteTwice'
  <2> SUFFICES ASSUME NEW i \in Waits
               PROVE  IF issued'[TransferOf(i)] = 0 THEN observed[i] = 0
                      ELSE observed[i] + wire'[TransferOf(i)] <= graph[i].bytes
    BY <1>1 DEF NoByteTwice, TransferOf, Waits
  <2>1. IF issued[TransferOf(i)] = 0 THEN observed[i] = 0
        ELSE observed[i] + wire[TransferOf(i)] <= graph[i].bytes
    BY DEF ByteInv, NoByteTwice
  <2>2. TransferOf(i) \in Transfers /\ graph[i].bytes \in Nat
    BY WaitFacts
  <2>3. CASE TransferOf(i) = t
    <3>1. PICK b \in Actions : TransferOf(b) = TransferOf(i) /\ graph[b].bytes = graph[i].bytes
      BY PairOfWait DEF HeardInv
    <3>2. b = a
      BY <1>2, <2>3, <3>1, OneAction DEF HeardInv, t
    <3> QED
      BY <1>2, <1>5, <2>1, <2>2, <2>3, <3>1, <3>2
  <2>4. CASE TransferOf(i) # t
    BY <1>5, <2>1, <2>2, <2>4
  <2> QED
    BY <2>3, <2>4
<1>8. LossLeavesMark'
  <2> SUFFICES ASSUME losses > 0
               PROVE  \E i \in Waits : /\ issued'[TransferOf(i)] # 0
                                       /\ observed[i] + wire'[TransferOf(i)] < graph[i].bytes
    BY <1>1 DEF LossLeavesMark, TransferOf, Waits
  <2>1. PICK i \in Waits : /\ issued[TransferOf(i)] # 0
                           /\ observed[i] + wire[TransferOf(i)] < graph[i].bytes
    BY DEF ByteInv, LossLeavesMark
  <2>2. TransferOf(i) \in Transfers /\ TransferOf(i) # t
    BY <1>2, <2>1, WaitFacts
  <2> QED
    BY <1>5, <2>1, <2>2
<1>9. CompletedHasAll' /\ CompleteIsNode'
  BY <1>1 DEF ByteInv, CompletedHasAll, CompleteIsNode, Waits
<1> QED
  BY <1>6, <1>7, <1>8, <1>9 DEF ByteInv

\* A packet of transfer t leaves the wire; its waits count it or do not.
LEMMA PacketLeaves ==
    ASSUME HeardInv, ByteInv, NEW t \in Transfers, wire[t] > 0,
           UNCHANGED <<graph, issued>>, losses' \in Nat,
           wire' = [wire EXCEPT ![t] = @ - 1],
           observed' \in [Ids -> Nat],
           \A i \in Waits : \/ observed'[i] = observed[i]
                            \/ TransferOf(i) = t /\ observed'[i] = observed[i] + 1
    PROVE  /\ ByteTypes' /\ NoByteTwice'
           /\ \A i \in Waits :
                /\ observed[i] \in Nat /\ observed'[i] \in Nat /\ observed'[i] >= observed[i]
                /\ wire[TransferOf(i)] \in Nat /\ wire'[TransferOf(i)] \in Nat
                /\ observed'[i] + wire'[TransferOf(i)] <= observed[i] + wire[TransferOf(i)]
<1>1. wire \in [Transfers -> Nat] /\ observed \in [Ids -> Nat]
      /\ \A u \in Transfers : issued[u] = 0 => wire[u] = 0
  BY DEF ByteInv, ByteTypes
<1>2. /\ wire'[t] = wire[t] - 1 /\ wire' \in [Transfers -> Nat]
      /\ \A u \in Transfers : u # t => wire'[u] = wire[u]
  BY <1>1
<1>3. issued[t] # 0
  BY <1>1
<1>4. ByteTypes'
  <2>1. \A u \in Transfers : issued[u] = 0 => wire'[u] = 0
    BY <1>1, <1>2, <1>3
  <2> QED
    BY <1>2, <2>1 DEF ByteTypes, Transfers, Actions, Ids
<1>5. ASSUME NEW i \in Waits
      PROVE  /\ observed[i] \in Nat /\ observed'[i] \in Nat /\ observed'[i] >= observed[i]
             /\ wire[TransferOf(i)] \in Nat /\ wire'[TransferOf(i)] \in Nat
             /\ observed'[i] + wire'[TransferOf(i)] <= observed[i] + wire[TransferOf(i)]
  <2>1. i \in Ids /\ TransferOf(i) \in Transfers
    BY WaitFacts
  <2>2. /\ observed[i] \in Nat /\ observed'[i] \in Nat
        /\ wire[TransferOf(i)] \in Nat /\ wire'[TransferOf(i)] \in Nat
    BY <1>1, <1>2, <2>1
  <2>3. CASE TransferOf(i) = t
    <3>1. wire'[TransferOf(i)] = wire[TransferOf(i)] - 1
      BY <1>2, <2>3
    <3>2. observed'[i] = observed[i] \/ observed'[i] = observed[i] + 1
      OBVIOUS
    <3> QED
      BY <2>2, <3>1, <3>2
  <2>4. CASE TransferOf(i) # t
    <3>1. wire'[TransferOf(i)] = wire[TransferOf(i)] /\ observed'[i] = observed[i]
      BY <1>2, <2>1, <2>4
    <3> QED
      BY <2>2, <3>1
  <2> QED
    BY <2>3, <2>4
<1>6. NoByteTwice'
  <2> SUFFICES ASSUME NEW i \in Waits
               PROVE  IF issued[TransferOf(i)] = 0 THEN observed'[i] = 0
                      ELSE observed'[i] + wire'[TransferOf(i)] <= graph[i].bytes
    BY DEF NoByteTwice, TransferOf, Waits
  <2>1. IF issued[TransferOf(i)] = 0 THEN observed[i] = 0
        ELSE observed[i] + wire[TransferOf(i)] <= graph[i].bytes
    BY DEF ByteInv, NoByteTwice
  <2>2. graph[i].bytes \in Nat
    BY WaitFacts
  <2>3. CASE issued[TransferOf(i)] = 0
    <3>1. TransferOf(i) # t
      BY <1>3, <2>3
    <3> QED
      BY <2>1, <2>3, <3>1
  <2>4. CASE issued[TransferOf(i)] # 0
    BY <1>5, <2>1, <2>2, <2>4
  <2> QED
    BY <2>3, <2>4
<1> QED
  BY <1>4, <1>5, <1>6

LEMMA DeliverBytes ==
    ASSUME IInv, HeardInv, ByteInv, NEW t \in Transfers, Deliver(t)
    PROVE  ByteInv'
<1>1. /\ wire[t] > 0 /\ wire' = [wire EXCEPT ![t] = @ - 1]
      /\ NotifyEvent(t, 1) /\ UNCHANGED <<graph, issued, losses>>
  BY DEF Deliver
<1>2. observed \in [Ids -> Nat] /\ losses \in Nat
  BY DEF ByteInv, ByteTypes
<1>3. Waits \subseteq Ids
  BY DEF Waits, OfType, Ids
<1>4. /\ observed' \in [Ids -> Nat]
      /\ \A i \in Waits : \/ observed'[i] = observed[i]
                          \/ TransferOf(i) = t /\ observed'[i] = observed[i] + 1
  <2>1. CASE complete
    BY <1>1, <1>2, <2>1 DEF NotifyEvent, runtime
  <2>2. CASE ~complete
    <3>1. observed' = [i \in Ids |-> IF Listens(i, t) THEN observed[i] + 1 ELSE observed[i]]
      BY <1>1, <2>2 DEF NotifyEvent
    <3>2. observed' \in [Ids -> Nat]
      BY <1>2, <3>1
    <3>3. \A i \in Ids : Listens(i, t) => TransferOf(i) = t
      BY DEF Listens, TransferOf
    <3> QED
      BY <1>3, <3>1, <3>2, <3>3
  <2> QED
    BY <2>1, <2>2
<1>5. /\ ByteTypes' /\ NoByteTwice'
      /\ \A i \in Waits :
           /\ observed[i] \in Nat /\ observed'[i] \in Nat /\ observed'[i] >= observed[i]
           /\ wire[TransferOf(i)] \in Nat /\ wire'[TransferOf(i)] \in Nat
           /\ observed'[i] + wire'[TransferOf(i)] <= observed[i] + wire[TransferOf(i)]
  BY <1>1, <1>2, <1>4, PacketLeaves
<1>6. LossLeavesMark'
  <2> SUFFICES ASSUME losses > 0
               PROVE  \E i \in Waits : /\ issued[TransferOf(i)] # 0
                                       /\ observed'[i] + wire'[TransferOf(i)] < graph[i].bytes
    BY <1>1 DEF LossLeavesMark, TransferOf, Waits
  <2>1. PICK i \in Waits : /\ issued[TransferOf(i)] # 0
                           /\ observed[i] + wire[TransferOf(i)] < graph[i].bytes
    BY DEF ByteInv, LossLeavesMark
  <2>2. graph[i].bytes \in Nat
    BY WaitFacts
  <2>3. observed'[i] + wire'[TransferOf(i)] < graph[i].bytes
    BY <1>5, <2>1, <2>2
  <2> QED
    BY <2>1, <2>3
<1>7. /\ complete' = complete
      /\ \A i \in Ids : state[i] = "COMPLETED" => state'[i] = "COMPLETED"
      /\ \A i \in Waits : state'[i] = "COMPLETED" =>
           state[i] = "COMPLETED" \/ observed'[i] >= graph[i].bytes
  <2>1. CASE complete \/ Satisfied(t, 1) = {}
    BY <1>1, <2>1 DEF NotifyEvent, runtime
  <2>2. CASE ~complete /\ Satisfied(t, 1) # {}
    <3>1. MarkCompleted(Satisfied(t, 1), ready) /\ complete' = complete
          /\ observed' = [i \in Ids |-> IF Listens(i, t) THEN observed[i] + 1 ELSE observed[i]]
      BY <1>1, <2>2 DEF NotifyEvent
    <3>2. \A i \in Satisfied(t, 1) : observed'[i] >= graph[i].bytes
      BY <1>3, <3>1 DEF Satisfied
    <3> QED
      BY <1>3, <3>1, <3>2 DEF MarkCompleted
  <2> QED
    BY <2>1, <2>2
<1>8. CompletedHasAll'
  <2> SUFFICES ASSUME NEW i \in Waits, state'[i] = "COMPLETED"
               PROVE  observed'[i] >= graph[i].bytes
    BY <1>1 DEF CompletedHasAll, Waits
  <2>1. CASE state[i] = "COMPLETED"
    <3>1. observed[i] >= graph[i].bytes
      BY <2>1 DEF ByteInv, CompletedHasAll
    <3>2. graph[i].bytes \in Nat
      BY WaitFacts
    <3> QED
      BY <1>5, <3>1, <3>2
  <2> QED
    BY <1>7, <2>1
<1>9. CompleteIsNode'
  BY <1>1, <1>7 DEF ByteInv, CompleteIsNode, OfType, Ids
<1> QED
  BY <1>5, <1>6, <1>8, <1>9 DEF ByteInv

LEMMA LoseBytes ==
    ASSUME IInv, HeardInv, ByteInv, NEW t \in Transfers, Lose(t)
    PROVE  ByteInv'
<1>1. /\ wire[t] > 0 /\ wire' = [wire EXCEPT ![t] = @ - 1]
      /\ losses' = losses + 1
      /\ UNCHANGED <<graph, issued, state, observed, complete>>
  BY DEF Lose, runtime
<1>2. observed \in [Ids -> Nat] /\ losses' \in Nat /\ wire \in [Transfers -> Nat]
  BY <1>1 DEF ByteInv, ByteTypes
<1>3. ByteTypes' /\ NoByteTwice'
  BY <1>1, <1>2, PacketLeaves
<1>4. LossLeavesMark'
  <2>1. PICK a \in Actions : TransferOf(a) = t
    BY DEF Transfers, TransferOf
  <2>2. PICK i \in Waits : graph[i].deps = {a}
    BY <2>1 DEF HeardInv, GraphPaired, Paired, Waits, Actions
  <2>3. TransferOf(i) = t
    <3>1. PICK b \in Actions : graph[i].deps = {b} /\ TransferOf(b) = TransferOf(i)
      BY PairOfWait DEF HeardInv
    <3> QED
      BY <2>1, <2>2, <3>1
  <2>4. issued[t] # 0
    BY <1>1 DEF ByteInv, ByteTypes
  <2>5. observed[i] + wire[t] <= graph[i].bytes
    BY <2>3, <2>4 DEF ByteInv, NoByteTwice
  <2>6. i \in Ids /\ graph[i].bytes \in Nat
    BY WaitFacts
  <2>7. wire'[t] = wire[t] - 1
    BY <1>1, <1>2
  <2>8. wire[t] \in Nat /\ observed[i] \in Nat
    BY <1>2, <2>6
  <2>9. observed[i] + wire'[t] < graph[i].bytes
    BY <2>5, <2>6, <2>7, <2>8
  <2> QED
    BY <1>1, <2>3, <2>4, <2>9 DEF LossLeavesMark, TransferOf, Waits
<1>5. CompletedHasAll' /\ CompleteIsNode'
  BY <1>1 DEF ByteInv, CompletedHasAll, CompleteIsNode, Waits
<1> QED
  BY <1>3, <1>4, <1>5 DEF ByteInv

LEMMA ByteStep == IInv /\ HeardInv /\ ByteInv /\ [ExecNext]_execVars => ByteInv'
<1> SUFFICES ASSUME IInv, HeardInv, ByteInv, [ExecNext]_execVars PROVE ByteInv'
  OBVIOUS
<1>1. ASSUME UNCHANGED <<graph, wire, observed, losses, issued, state, complete>>
      PROVE  ByteInv'
  BY <1>1, NoByteMoves
<1>2. CASE Start \/ BeginIssue \/ EndPass
  BY <1>1, <1>2 DEF Start, BeginIssue, EndPass, runtime
<1>3. CASE Drain
  BY <1>3, DrainBytes
<1>4. ASSUME NEW a \in actions, Issue(a) PROVE ByteInv'
  BY <1>4, IssueBytes
<1>5. ASSUME NEW t \in Transfers, Deliver(t) \/ Lose(t) PROVE ByteInv'
  BY <1>5, DeliverBytes, LoseBytes
<1>6. ASSUME NEW i \in Ids, OnDelayExpired(i) PROVE ByteInv'
  <2>1. /\ UNCHANGED <<graph, wire, observed, losses, issued, complete>>
        /\ MarkCompleted({i}, ready) /\ i \notin Waits /\ Waits \subseteq Ids
    BY <1>6 DEF OnDelayExpired, Waits, OfType, Ids
  <2>2. /\ \A j \in Waits : state'[j] = state[j]
        /\ \A j \in Ids : state[j] = "COMPLETED" => state'[j] = "COMPLETED"
    BY <2>1 DEF MarkCompleted
  <2> QED
    BY <2>1, <2>2, NoByteMoves
<1>7. CASE UNCHANGED execVars
  BY <1>1, <1>7 DEF execVars, runtime
<1> QED
  BY <1>2, <1>3, <1>4, <1>5, <1>6, <1>7 DEF ExecNext

LEMMA InitBytes == ExecInit => ByteInv
<1> SUFFICES ASSUME ExecInit PROVE ByteInv
  OBVIOUS
<1>1. /\ wire = [t \in Transfers |-> 0] /\ issued = [t \in Transfers |-> 0]
      /\ observed = [i \in Ids |-> 0] /\ state = [i \in Ids |-> "PENDING"]
      /\ losses = 0 /\ complete = FALSE
  BY DEF ExecInit, InitializeRuntime
<1>2. \A i \in Waits : i \in Ids /\ TransferOf(i) \in Transfers
  BY InitHeard, WaitFacts
<1> QED
  BY <1>1, <1>2 DEF ByteInv, ByteTypes, NoByteTwice, CompletedHasAll, LossLeavesMark,
                    CompleteIsNode

\* On every graph put together from AddTransaction's pairs, completion that
\* asks for all comes after every node, and never if a packet was lost for
\* good: the collective stalls rather than report a sum that misses it.
THEOREM CompletionIsTotal == ExecSpec => []CompleteIsTotal
<1>1. IInv /\ HeardInv /\ ByteInv => CompleteIsTotal
  <2> SUFFICES ASSUME IInv, HeardInv, ByteInv, complete, \A i \in Ids : ~graph[i].any
               PROVE  losses = 0 /\ \A i \in Ids : state[i] = "COMPLETED"
    BY DEF CompleteIsTotal
  <2> DEFINE C == {i \in Ids : state[i] = "COMPLETED"}
  <2>1. OfType(graph, "COMPLETE") \subseteq C
    <3>1. PICK c \in OfType(graph, "COMPLETE") : state[c] = "COMPLETED"
      BY DEF ByteInv, CompleteIsNode
    <3>2. OfType(graph, "COMPLETE") \in SUBSET Ids /\ IsFiniteSet(Ids)
          /\ Cardinality(OfType(graph, "COMPLETE")) = 1
      BY DEF HeardInv, GraphPaired, Validate, OfType, Ids
    <3>3. IsFiniteSet(OfType(graph, "COMPLETE"))
      BY <3>2, FS_Subset
    <3>4. PICK x : OfType(graph, "COMPLETE") = {x}
      BY <3>2, <3>3, FS_Singleton
    <3> QED
      BY <3>1, <3>2, <3>4
  <2>2. \A i \in C \cap Ids : graph[i].deps \subseteq C
    <3> SUFFICES ASSUME NEW i \in C, NEW d \in graph[i].deps PROVE d \in C
      OBVIOUS
    <3>1. Released(i)
      BY DEF IInv, RunReleased
    <3>2. Open(i) = {}
      BY <3>1 DEF Released
    <3> QED
      BY <3>2 DEF Open, IInv, GraphOK
  <2>3. \A i \in Ids : graph[i].deps \subseteq Ids
    BY DEF IInv, GraphOK
  <2>4. AllReachCompletion(graph) /\ IsFiniteSet(Ids)
    BY DEF HeardInv, GraphPaired, Validate
  <2> HIDE DEF C
  <2>5. Ids \subseteq C
    BY <2>1, <2>2, <2>3, <2>4, SearchStaysInside DEF Ids
  <2>6. \A i \in Ids : state[i] = "COMPLETED"
    BY <2>5 DEF C
  <2>7. losses = 0
    <3> SUFFICES ASSUME losses > 0 PROVE FALSE
      BY DEF ByteInv, ByteTypes
    <3>1. PICK i \in Waits : observed[i] + wire[TransferOf(i)] < graph[i].bytes
      BY DEF ByteInv, LossLeavesMark
    <3>2. i \in Ids /\ TransferOf(i) \in Transfers /\ graph[i].bytes \in Nat
      BY WaitFacts
    <3>3. observed[i] >= graph[i].bytes
      BY <2>6, <3>2 DEF ByteInv, CompletedHasAll
    <3>4. observed[i] \in Nat /\ wire[TransferOf(i)] \in Nat
      BY <3>2 DEF ByteInv, ByteTypes
    <3> QED
      BY <3>1, <3>2, <3>3, <3>4
  <2> QED
    BY <2>6, <2>7
<1> QED
  BY <1>1, InitKeeps, StepKeeps, InitHeard, HeardStep, InitBytes, ByteStep, PTL DEF ExecSpec
=============================================================================
