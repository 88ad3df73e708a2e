------------------------ MODULE RdmaSubmissionProofs ------------------------
(***************************************************************************)
(* What holds of the submission of RDMA works for any configuration and    *)
(* any calls: no work leaves the NIC before what it was ordered behind is  *)
(* remotely visible, a callback is told once, when all it waits for is     *)
(* observed, and every queue pair keeps the order of its works.            *)
(***************************************************************************)
EXTENDS RdmaSubmission, FiniteSetTheorems, TLAPS

-----------------------------------------------------------------------------
(* Numbers and sequences.                                                  *)

\* A set of numbers that is not empty has a least element.
LEMMA Smallest ==
    ASSUME NEW T \in SUBSET Nat, T # {}
    PROVE  \E n \in T : \A k \in T : n <= k
<1> DEFINE R == {ss \in Nat \X Nat : ss[1] < ss[2]}
<1>1. IsWellFoundedOn(R, Nat)
  BY NatLessThanWellFounded, Zenon DEF OpToRel
<1>2. \A y, z \in Nat : y < z => <<y, z>> \in R
  OBVIOUS
<1> HIDE DEF R
<1>3. PICK n \in T : \A k \in T : ~(<<k, n>> \in R)
  BY <1>1, WFMin
<1>4. \A k \in T : ~(k < n)
  BY <1>2, <1>3
<1> QED
  BY <1>4

\* The largest of the numbers up to a bound is one of them.
LEMMA Largest ==
    ASSUME NEW b \in Nat, NEW T \in SUBSET (0 .. b), T # {}
    PROVE  Max(T) \in T /\ \A y \in T : y <= Max(T)
<1> DEFINE U == {b - n : n \in T}
<1>1. U \in SUBSET Nat /\ U # {}
  <2>1. \A n \in T : b - n \in Nat
    OBVIOUS
  <2>2. PICK n \in T : TRUE
    OBVIOUS
  <2> QED
    BY <2>1, <2>2
<1>2. PICK u \in U : \A v \in U : u <= v
  BY <1>1, Smallest
<1>3. PICK x \in T : u = b - x
  BY <1>2
<1>4. \A y \in T : x >= y
  <2> SUFFICES ASSUME NEW y \in T PROVE x >= y
    OBVIOUS
  <2>1. b - x <= b - y
    BY <1>2, <1>3
  <2> QED
    BY <2>1
<1> HIDE DEF U
<1> QED
  BY <1>3, <1>4 DEF Max

\* What a queue holds is what its parts hold.
LEMMA Parts ==
    ASSUME NEW T, NEW q \in Seq(T), NEW r \in Seq(T)
    PROVE  /\ q \o r \in Seq(T)
           /\ ToSet(q \o r) = ToSet(q) \cup ToSet(r)
<1>1. /\ q \o r \in Seq(T) /\ DOMAIN (q \o r) = 1 .. Len(q) + Len(r)
      /\ Len(q) \in Nat /\ Len(r) \in Nat
      /\ DOMAIN q = 1 .. Len(q) /\ DOMAIN r = 1 .. Len(r)
      /\ \A i \in 1 .. Len(q) + Len(r) :
           (q \o r)[i] = IF i <= Len(q) THEN q[i] ELSE r[i - Len(q)]
  OBVIOUS
<1> DEFINE s == q \o r
<1> HIDE DEF s
<1>2. ASSUME NEW i \in DOMAIN q PROVE i \in DOMAIN s /\ s[i] = q[i]
  BY <1>1 DEF s
<1>3. ASSUME NEW i \in DOMAIN r PROVE Len(q) + i \in DOMAIN s /\ s[Len(q) + i] = r[i]
  BY <1>1 DEF s
<1>4. ASSUME NEW i \in DOMAIN s
      PROVE  (i \in DOMAIN q /\ s[i] = q[i]) \/ (i - Len(q) \in DOMAIN r /\ s[i] = r[i - Len(q)])
  BY <1>1 DEF s
<1>5. ToSet(s) = ToSet(q) \cup ToSet(r)
  BY <1>2, <1>3, <1>4 DEF ToSet
<1> QED
  BY <1>1, <1>5 DEF s

\* A part of a queue holds a part of what the queue holds.
LEMMA Part ==
    ASSUME NEW T, NEW q \in Seq(T), NEW a \in Nat \ {0}, NEW b \in 0 .. Len(q)
    PROVE  /\ SubSeq(q, a, b) \in Seq(T)
           /\ ToSet(SubSeq(q, a, b)) \subseteq ToSet(q)
           /\ \A x \in ToSet(SubSeq(q, a, b)) : \E j \in a .. b : x = q[j]
<1>1. /\ SubSeq(q, a, b) \in Seq(T) /\ Len(q) \in Nat /\ DOMAIN q = 1 .. Len(q)
      /\ DOMAIN SubSeq(q, a, b) = 1 .. Len(SubSeq(q, a, b))
      /\ Len(SubSeq(q, a, b)) = IF a <= b THEN b - a + 1 ELSE 0
      /\ \A i \in 1 .. b - a + 1 : SubSeq(q, a, b)[i] = q[a + i - 1]
  OBVIOUS
<1>2. ASSUME NEW x \in ToSet(SubSeq(q, a, b)) PROVE \E j \in a .. b : x = q[j] /\ j \in DOMAIN q
  <2>1. PICK i \in DOMAIN SubSeq(q, a, b) : x = SubSeq(q, a, b)[i]
    BY DEF ToSet
  <2>2. i \in 1 .. b - a + 1
    BY <1>1, <2>1
  <2>3. a + i - 1 \in a .. b /\ a + i - 1 \in DOMAIN q /\ x = q[a + i - 1]
    BY <1>1, <2>1, <2>2
  <2> QED
    BY <2>3
<1> QED
  BY <1>1, <1>2 DEF ToSet

\* The first of a queue and the others.
LEMMA FirstAndRest ==
    ASSUME NEW T, NEW q \in Seq(T), q # <<>>
    PROVE  /\ Head(q) \in T /\ Head(q) \in ToSet(q)
           /\ Tail(q) \in Seq(T) /\ ToSet(Tail(q)) \subseteq ToSet(q)
<1>1. /\ Len(q) \in Nat \ {0} /\ DOMAIN q = 1 .. Len(q) /\ Head(q) = q[1] /\ q[1] \in T
      /\ Tail(q) \in Seq(T) /\ DOMAIN Tail(q) = 1 .. Len(q) - 1
      /\ \A n \in 1 .. Len(q) - 1 : Tail(q)[n] = q[n + 1]
  OBVIOUS
<1>2. Head(q) \in ToSet(q)
  BY <1>1 DEF ToSet
<1>3. ASSUME NEW x \in ToSet(Tail(q)) PROVE x \in ToSet(q)
  <2>1. PICK n \in 1 .. Len(q) - 1 : x = Tail(q)[n]
    BY <1>1 DEF ToSet
  <2>2. n + 1 \in DOMAIN q /\ x = q[n + 1]
    BY <1>1, <2>1
  <2> QED
    BY <2>2 DEF ToSet
<1> QED
  BY <1>1, <1>2, <1>3

\* A queue with one more at its end.
LEMMA OneMore ==
    ASSUME NEW T, NEW q \in Seq(T), NEW x \in T
    PROVE  /\ Append(q, x) \in Seq(T)
           /\ ToSet(Append(q, x)) = ToSet(q) \cup {x}
<1>1. /\ Append(q, x) \in Seq(T) /\ Len(q) \in Nat /\ DOMAIN q = 1 .. Len(q)
      /\ DOMAIN Append(q, x) = 1 .. Len(q) + 1
      /\ \A i \in 1 .. Len(q) : Append(q, x)[i] = q[i]
      /\ Append(q, x)[Len(q) + 1] = x
  OBVIOUS
<1> DEFINE r == Append(q, x)
<1> HIDE DEF r
<1>2. \A i \in DOMAIN q : i \in DOMAIN r /\ r[i] = q[i]
  BY <1>1 DEF r
<1>3. Len(q) + 1 \in DOMAIN r /\ r[Len(q) + 1] = x
  BY <1>1 DEF r
<1>4. \A i \in DOMAIN r : i = Len(q) + 1 \/ i \in DOMAIN q
  BY <1>1 DEF r
<1>5. ToSet(r) = ToSet(q) \cup {x}
  BY <1>2, <1>3, <1>4 DEF ToSet
<1> QED
  BY <1>1, <1>5 DEF r

\* A sequence holds finitely many things.
LEMMA FinitelyHeld ==
    ASSUME NEW T, NEW q \in Seq(T)
    PROVE  IsFiniteSet(ToSet(q)) /\ ToSet(q) \subseteq T
<1>1. Len(q) \in Nat /\ DOMAIN q = 1 .. Len(q) /\ \A n \in DOMAIN q : q[n] \in T
  OBVIOUS
<1>2. IsFiniteSet(1 .. Len(q))
  BY <1>1, FS_Interval
<1>3. q \in Surjection(1 .. Len(q), ToSet(q))
  BY <1>1 DEF Surjection, ToSet
<1>4. IsFiniteSet(ToSet(q))
  BY <1>2, <1>3, FS_Surjection
<1> QED
  BY <1>1, <1>4 DEF ToSet

\* Ascending lists the numbers of a finite set, each once and in order.  (The
\* rank of a number among them is a bijection.)
LEMMA AscendingIs ==
    ASSUME NEW S, S \subseteq Nat, IsFiniteSet(S)
    PROVE  /\ Ascending(S) \in Seq(S)
           /\ ToSet(Ascending(S)) = S
           /\ \A i, j \in DOMAIN Ascending(S) : i < j => Ascending(S)[i] < Ascending(S)[j]
<1> DEFINE c == Cardinality(S)
           UpTo(n) == {k \in S : k <= n}
           rank == [n \in S |-> Cardinality(UpTo(n))]
<1>1. /\ IsFiniteSet(S) /\ c \in Nat
      /\ \A n \in S : n \in Nat
  BY FS_CardinalityType
<1>2. \A n \in S : IsFiniteSet(UpTo(n)) /\ Cardinality(UpTo(n)) \in Nat
  <2> SUFFICES ASSUME NEW n \in S
               PROVE  IsFiniteSet(UpTo(n)) /\ Cardinality(UpTo(n)) \in Nat
    OBVIOUS
  <2>1. UpTo(n) \in SUBSET S
    OBVIOUS
  <2>2. IsFiniteSet(UpTo(n))
    BY <1>1, <2>1, FS_Subset
  <2> QED
    BY <2>2, FS_CardinalityType
<1>3. ASSUME NEW k \in S, NEW n \in S, k < n PROVE rank[k] < rank[n]
  <2>0. k \in Nat /\ n \in Nat /\ \A j \in S : j \in Nat /\ (j <= k => j <= n)
    BY <1>1, <1>3
  <2>1. UpTo(k) \cup {n} \in SUBSET UpTo(n)
    <3> SUFFICES ASSUME NEW j \in UpTo(k) \cup {n} PROVE j \in UpTo(n)
      OBVIOUS
    <3>1. j \in S /\ j <= n
      BY <2>0
    <3> QED
      BY <3>1
  <2>2. n \notin UpTo(k)
    BY <1>1, <1>3
  <2>3. Cardinality(UpTo(k) \cup {n}) = Cardinality(UpTo(k)) + 1
    BY <1>2, <2>2, FS_AddElement
  <2>4. Cardinality(UpTo(k) \cup {n}) <= Cardinality(UpTo(n))
    BY <1>2, <2>1, FS_Subset
  <2> HIDE DEF UpTo
  <2>5. rank[k] = Cardinality(UpTo(k)) /\ rank[n] = Cardinality(UpTo(n))
    OBVIOUS
  <2> QED
    BY <1>2, <2>3, <2>4, <2>5
<1>4. ASSUME NEW n \in S PROVE rank[n] \in 1..c
  <2>1. UpTo(n) \in SUBSET S /\ n \in UpTo(n)
    BY <1>1
  <2>2. Cardinality(UpTo(n)) <= c
    BY <1>1, <2>1, FS_Subset
  <2>3. Cardinality(UpTo(n)) # 0
    BY <1>2, <2>1, FS_EmptySet
  <2>4. rank[n] = Cardinality(UpTo(n))
    OBVIOUS
  <2> HIDE DEF UpTo, c, rank
  <2> QED
    BY <1>1, <1>2, <2>2, <2>3, <2>4
<1>5. \A n \in S : rank[n] = Cardinality({k \in S : k <= n})
  OBVIOUS
<1> HIDE DEF c, UpTo
<1>6. rank \in [S -> 1..c]
  BY <1>4
<1> HIDE DEF rank
<1>7. \A k, n \in S : rank[k] = rank[n] => k = n
  <2> SUFFICES ASSUME NEW k \in S, NEW n \in S, rank[k] = rank[n]
               PROVE  k = n
    OBVIOUS
  <2>1. rank[k] \in Int /\ rank[n] \in Int
    BY <1>4
  <2>2. ~(k < n) /\ ~(n < k)
    BY <1>3, <2>1
  <2> QED
    BY <1>1, <2>2
<1>8. rank \in Surjection(S, 1..c)
  <2>1. IsFiniteSet(1..c) /\ Cardinality(1..c) = c
    BY <1>1, FS_Interval
  <2>2. rank \in Injection(S, 1..c)
    BY <1>6, <1>7 DEF Injection, IsInjective
  <2> QED
    BY <2>1, <2>2, FS_Injection DEF c
<1>9. \A i \in 1..c : \E n \in S : rank[n] = i
  BY <1>8 DEF Surjection
<1> DEFINE Nth(i) == CHOOSE n \in S : Cardinality({k \in S : k <= n}) = i
<1>10. ASSUME NEW i \in 1..c PROVE Nth(i) \in S /\ rank[Nth(i)] = i
  <2>1. \E n \in S : Cardinality({k \in S : k <= n}) = i
    BY <1>5, <1>9
  <2>2. Nth(i) \in S /\ Cardinality({k \in S : k <= Nth(i)}) = i
    BY <2>1
  <2> QED
    BY <1>5, <2>2
<1> DEFINE r == Ascending(S)
<1>11. r = [i \in 1..c |-> Nth(i)]
  BY DEF Ascending, c
<1> HIDE DEF Nth, r
<1>12. r \in [1..c -> S] /\ DOMAIN r = 1..c /\ \A i \in 1..c : r[i] = Nth(i)
  BY <1>10, <1>11
<1>13. r \in Seq(S)
  BY <1>1, <1>12
<1>14. ToSet(r) = S
  <2>1. \A n \in S : rank[n] \in 1..c /\ Nth(rank[n]) = n
    BY <1>4, <1>7, <1>10
  <2> QED
    BY <1>12, <2>1 DEF ToSet
<1>15. ASSUME NEW i \in 1..c, NEW j \in 1..c, i < j PROVE r[i] < r[j]
  <2>1. /\ Nth(i) \in S /\ Nth(j) \in S
        /\ rank[Nth(i)] = i /\ rank[Nth(j)] = j
    BY <1>10
  <2>2. Nth(i) \in Nat /\ Nth(j) \in Nat /\ i \in Nat /\ j \in Nat /\ ~(j < i) /\ i # j
    <3>1. c \in Nat /\ i < j
      BY <1>1, <1>15
    <3>2. i \in Nat /\ j \in Nat /\ ~(j < i) /\ i # j
      BY <3>1
    <3>3. Nth(i) \in Nat /\ Nth(j) \in Nat
      BY <1>1, <2>1
    <3> QED
      BY <3>2, <3>3
  <2>3. ~(Nth(j) < Nth(i)) /\ Nth(i) # Nth(j)
    <3>1. Nth(i) # Nth(j)
      BY <2>1, <2>2
    <3>2. ASSUME Nth(j) < Nth(i) PROVE FALSE
      <4>1. rank[Nth(j)] < rank[Nth(i)]
        BY <1>3, <2>1, <3>2
      <4> QED
        BY <2>1, <2>2, <4>1
    <3> QED
      BY <3>1, <3>2
  <2>4. Nth(i) < Nth(j)
    BY <2>2, <2>3
  <2> QED
    BY <1>12, <2>4
<1> QED
  BY <1>12, <1>13, <1>14, <1>15 DEF r

-----------------------------------------------------------------------------
(* The shape of the state, and what makes a fence hold.                    *)

Fields == {"nextId", "nextQp", "work", "qps", "fences", "handoff", "staging", "used",
           "copying", "serving", "cqes", "quiet", "succeeded", "failed"}

WorkFields == {"call", "peer", "qp", "opcode", "bytes", "fenceThrough", "acknowledged",
               "acked", "failed", "stagingAllocated", "issued", "executed"}

QueueFields == {"waiting", "building", "published", "timer", "fetching", "outstanding",
                "occupied", "readAtomic"}

\* The ids given out so far.
Ids(s) == 1 .. s.nextId - 1

\* A queue of copies: each for one of those, or for a responder's answer.
IsLane(q, n) == q \in Seq(ToSet(q)) /\ \A e \in ToSet(q) : e.id \in Int /\ e.id < n

WorkShape(w) ==
    /\ DOMAIN w = WorkFields
    /\ w.peer \in conf.peers /\ w.qp \in 0 .. conf.qpsPerPeer - 1
    /\ w.fenceThrough \in Int

QueueShape(q, ids) ==
    /\ DOMAIN q = QueueFields
    /\ q.waiting \in Seq(ids) /\ q.building \in Seq(ids) /\ q.published \in Seq(ids)
    /\ q.fetching \in Seq(ids) /\ q.outstanding \in Seq(ids)

Shape(s) ==
    /\ DOMAIN s = Fields
    /\ s.nextId \in Nat \ {0}
    /\ DOMAIN s.work \subseteq Ids(s)
    /\ \A i \in DOMAIN s.work : WorkShape(s.work[i])
    /\ DOMAIN s.qps = Keys
    /\ \A k \in Keys : QueueShape(s.qps[k], Ids(s))
    /\ IsLane(s.copying, s.nextId) /\ IsLane(s.staging, s.nextId)
    /\ s.handoff \in Seq(Seq(Ids(s)))
    /\ s.cqes \in Seq([key : Keys, through : Ids(s)])

\* The works issued and not yet handed to the executor.
InPipe(q) == ToSet(q.building) \cup ToSet(q.published) \cup ToSet(q.fetching)

\* What was issued was not held back by a fence, and only that is executed.
Fenced(s) ==
    /\ \A k \in Keys : \A i \in InPipe(s.qps[k]) : i \in DOMAIN s.work => s.work[i].issued
    /\ \A i \in DOMAIN s.work : /\ s.work[i].executed => s.work[i].issued
                                /\ s.work[i].issued => ~BlockedByFence(s, s.work[i])

Good(s) == Shape(s) /\ Fenced(s)

\* From s to t works may go, and what orders the others is not touched.
Same(s, t) ==
    /\ t.nextId = s.nextId /\ t.fences = s.fences /\ t.nextQp = s.nextQp
    /\ DOMAIN t.work \subseteq DOMAIN s.work
    /\ \A i \in DOMAIN t.work : /\ t.work[i].peer = s.work[i].peer
                                /\ t.work[i].opcode = s.work[i].opcode
                                /\ t.work[i].fenceThrough = s.work[i].fenceThrough

\* From s to t nothing is issued that a fence holds back, and no work enters
\* the pipe or is executed that is not issued.
Grown(s, t) ==
    /\ \A i \in DOMAIN t.work :
         /\ s.work[i].acked => t.work[i].acked
         /\ s.work[i].issued => t.work[i].issued
         /\ t.work[i].issued => s.work[i].issued \/ ~BlockedByFence(t, t.work[i])
         /\ t.work[i].executed => s.work[i].executed \/ t.work[i].issued
    /\ \A k \in Keys : \A i \in InPipe(t.qps[k]) :
         i \in DOMAIN t.work => i \in InPipe(s.qps[k]) \/ t.work[i].issued

\* A step of that kind keeps the fences.
LEMMA GrownKeeps ==
    ASSUME NEW s, NEW t, Fenced(s), Same(s, t), Grown(s, t)
    PROVE  Fenced(t)
<1>1. ASSUME NEW k \in Keys, NEW i \in InPipe(t.qps[k]), i \in DOMAIN t.work
      PROVE  t.work[i].issued
  BY <1>1 DEF Fenced, Same, Grown
<1>2. ASSUME NEW i \in DOMAIN t.work, t.work[i].executed
      PROVE  t.work[i].issued
  BY <1>2 DEF Fenced, Same, Grown
<1>3. ASSUME NEW i \in DOMAIN t.work, t.work[i].issued
      PROVE  ~BlockedByFence(t, t.work[i])
  <2>1. CASE ~s.work[i].issued
    BY <1>3, <2>1 DEF Grown
  <2>2. CASE s.work[i].issued
    <3>1. i \in DOMAIN s.work /\ ~BlockedByFence(s, s.work[i])
      BY <2>2 DEF Fenced, Same
    <3>2. ASSUME NEW j \in DOMAIN t.work, j <= t.work[i].fenceThrough,
                 t.work[j].peer = t.work[i].peer, ~t.work[j].acked
          PROVE  FALSE
      <4>1. /\ j \in DOMAIN s.work /\ j <= s.work[i].fenceThrough
            /\ s.work[j].peer = s.work[i].peer
        BY <3>2 DEF Same
      <4>2. ~s.work[j].acked
        BY <3>2 DEF Grown
      <4> QED
        BY <3>1, <4>1, <4>2 DEF BlockedByFence
    <3> QED
      BY <3>2 DEF BlockedByFence
  <2> QED
    BY <2>1, <2>2
<1> QED
  BY <1>1, <1>2, <1>3 DEF Fenced

\* Steps compose.
LEMMA SameComposes ==
    ASSUME NEW s, NEW t, NEW u, Same(s, t), Same(t, u)
    PROVE  Same(s, u)
BY DEF Same

-----------------------------------------------------------------------------
(* The operators that take several steps, spelled out.                     *)

\* What the works of a request that need a copy become in the staging queue.
Copies(s, ids) ==
    LET staged == Ascending({i \in ToSet(ids) : Staged /\ HasSourcePayload(s.work[i].opcode)})
    IN  [n \in DOMAIN staged |-> [id |-> staged[n], bytes |-> s.work[staged[n]].bytes]]

Direct(s, ids) == {i \in ToSet(ids) : ~(Staged /\ HasSourcePayload(s.work[i].opcode))}

LEMMA PumpIs ==
    ASSUME NEW s, NEW keys
    PROVE  Pump(s, keys) = Taking(s, keys, [k \in keys |-> Pumped(s, k)])
<1> DEFINE p == [k \in keys |-> Pumped(s, k)]
<1>1. {Taking(s, keys, x) : x \in {p}} = {Taking(s, keys, p)}
  OBVIOUS
<1> QED
  BY <1>1 DEF Pump, Then

LEMMA StartedIs ==
    ASSUME NEW s, NEW ids
    PROVE  Started(s, ids) =
             PumpSourceStaging(Enqueued([s EXCEPT !.staging = @ \o Copies(s, ids)],
                                        Direct(s, ids)))
<1> DEFINE t == [s EXCEPT !.staging = @ \o Copies(s, ids)]
           u == Enqueued(t, Direct(s, ids))
           F(x) == Then(Enqueued(x, Direct(s, ids)), PumpSourceStaging)
<1>1. Started(s, ids) = Then(t, F)
  BY DEF Started, Copies, Direct
<1>2. {F(x) : x \in {t}} = {F(t)}
  OBVIOUS
<1>3. {PumpSourceStaging(x) : x \in {u}} = {PumpSourceStaging(u)}
  OBVIOUS
<1>4. F(t) = PumpSourceStaging(u)
  BY <1>3 DEF Then
<1> HIDE DEF F, t, u
<1>5. Then(t, F) = F(t)
  BY <1>2 DEF Then
<1>6. Started(s, ids) = PumpSourceStaging(u)
  BY <1>1, <1>4, <1>5
<1> QED
  BY <1>6 DEF t, u

LEMMA AcknowledgedIs ==
    ASSUME NEW s, NEW i
    PROVE  LET u == Progress([s EXCEPT !.work[i].acked = TRUE], KeyOf(s.work[i]))
           IN  Acknowledged(s, i) = Pump(u, DOMAIN u.qps)
<1> DEFINE t == [s EXCEPT !.work[i].acked = TRUE]
           k == KeyOf(s.work[i])
           u == Progress(t, k)
           v == Pump(u, DOMAIN u.qps)
           G(y) == Pump(y, DOMAIN y.qps)
           F(x) == Then(Progress(x, k), G)
<1>1. Acknowledged(s, i) = Then(t, F)
  BY DEF Acknowledged
<1>2. {G(x) : x \in {u}} = {G(u)}
  OBVIOUS
<1>3. F(t) = G(u)
  BY <1>2 DEF Then
<1>4. {F(x) : x \in {t}} = {F(t)}
  OBVIOUS
<1>5. G(u) = v
  OBVIOUS
<1> HIDE DEF F, t, u, v
<1>6. Then(t, F) = F(t)
  BY <1>4 DEF Then
<1>7. Acknowledged(s, i) = v
  BY <1>1, <1>3, <1>5, <1>6
<1> QED
  BY <1>7 DEF t, u, v

LEMMA CompletedIs ==
    ASSUME NEW s, NEW i, NEW success
    PROVE  Completed(s, i, success) = Acknowledged(IF success THEN s ELSE Failed(s, i), i)
<1> DEFINE t == IF success THEN s ELSE Failed(s, i)
           F(x) == Acknowledged(x, i)
<1>1. Completed(s, i, success) = Then(t, F)
  BY DEF Completed
<1>2. {F(x) : x \in {t}} = {F(t)}
  OBVIOUS
<1> HIDE DEF t
<1>3. Then(t, F) = Acknowledged(t, i)
  BY <1>2 DEF Then
<1> QED
  BY <1>1, <1>3 DEF t

-----------------------------------------------------------------------------
(* The operators of the model, one lemma each.                             *)

\* Queues of copies joined, and a part of one.
LEMMA LaneParts ==
    ASSUME NEW n, NEW q, NEW r, IsLane(q, n), IsLane(r, n)
    PROVE  IsLane(q \o r, n)
<1> DEFINE T == ToSet(q) \cup ToSet(r)
           s == q \o r
<1>1. q \in Seq(ToSet(q)) /\ r \in Seq(ToSet(r))
  BY DEF IsLane
<1>2. q \in Seq(T) /\ r \in Seq(T)
  BY <1>1
<1>3. s \in Seq(T) /\ ToSet(s) = T
  BY <1>2, Parts
<1>4. \A e \in T : e.id \in Int /\ e.id < n
  BY DEF IsLane
<1> HIDE DEF T, s
<1>5. IsLane(s, n)
  BY <1>3, <1>4 DEF IsLane
<1> QED
  BY <1>5 DEF s

LEMMA LanePart ==
    ASSUME NEW n, NEW q, IsLane(q, n), NEW a \in Nat \ {0}, NEW b \in 0 .. Len(q)
    PROVE  IsLane(SubSeq(q, a, b), n)
<1> DEFINE s == SubSeq(q, a, b)
           T == ToSet(q)
<1>1. q \in Seq(T)
  BY DEF IsLane
<1>2. \A e \in T : e.id \in Int /\ e.id < n
  BY DEF IsLane
<1> HIDE DEF T
<1>3. s \in Seq(T) /\ ToSet(s) \subseteq ToSet(q)
  BY <1>1, Part
<1> HIDE DEF s
<1>4. s \in Seq(ToSet(s))
  <2>1. Len(s) \in Nat /\ s \in [1 .. Len(s) -> T] /\ DOMAIN s = 1 .. Len(s)
    BY <1>3
  <2>2. \A j \in 1 .. Len(s) : s[j] \in ToSet(s)
    BY <2>1 DEF ToSet
  <2>3. s \in [1 .. Len(s) -> ToSet(s)]
    BY <2>1, <2>2
  <2> QED
    BY <2>1, <2>3
<1>5. IsLane(s, n)
  BY <1>2, <1>3, <1>4 DEF IsLane, T
<1> QED
  BY <1>5 DEF s

\* Pump takes works from the head of a send queue, none that a fence holds back.
LEMMA PumpedIs ==
    ASSUME NEW s, Shape(s), NEW k \in Keys
    PROVE  /\ Pumped(s, k).taken \in Seq(Ids(s))
           /\ Len(Pumped(s, k).taken) \in 0 .. Len(s.qps[k].waiting)
           /\ \A i \in ToSet(Pumped(s, k).taken) : ~BlockedByFence(s, s.work[i])
<1> DEFINE q == s.qps[k]
           Reads(n) == Cardinality({j \in 1 .. n :
                         UsesReadAtomicCredit(s.work[q.waiting[j]].opcode)})
           Passes(n) ==
             /\ q.occupied + n <= conf.queueDepth
             /\ UsesReadAtomicCredit(s.work[q.waiting[n]].opcode)
                  => q.readAtomic + Reads(n) <= conf.maxReadAtomic
             /\ ~BlockedByFence(s, s.work[q.waiting[n]])
           fits == {n \in 0 .. Len(q.waiting) : \A j \in 1 .. n : Passes(j)}
           count == Max(fits)
<1>1. Pumped(s, k).taken = SubSeq(q.waiting, 1, count)
  BY DEF Pumped
<1>2. \A n : Passes(n) => ~BlockedByFence(s, s.work[q.waiting[n]])
  OBVIOUS
<1>3. q.waiting \in Seq(Ids(s)) /\ Len(q.waiting) \in Nat
  BY DEF Shape, QueueShape
<1> HIDE DEF Passes, Reads, q
<1>4. fits \subseteq 0 .. Len(q.waiting) /\ 0 \in fits
  BY <1>3
<1>5. \A n \in fits : \A j \in 1 .. n : Passes(j)
  OBVIOUS
<1> HIDE DEF fits
<1>6. count \in fits
  BY <1>3, <1>4, Largest
<1> HIDE DEF count
<1>7. /\ count \in 0 .. Len(q.waiting)
      /\ \A j \in 1 .. count : ~BlockedByFence(s, s.work[q.waiting[j]])
  BY <1>2, <1>4, <1>5, <1>6
<1>8. /\ SubSeq(q.waiting, 1, count) \in Seq(Ids(s))
      /\ \A i \in ToSet(SubSeq(q.waiting, 1, count)) : \E j \in 1 .. count : i = q.waiting[j]
  BY <1>3, <1>7, Part
<1>9. Len(SubSeq(q.waiting, 1, count)) = count
  BY <1>3, <1>7
<1> QED
  BY <1>1, <1>7, <1>8, <1>9 DEF q

\* Pump keeps the fences.
LEMMA PumpKeeps ==
    ASSUME NEW s, Good(s), NEW keys \in SUBSET Keys
    PROVE  Good(Pump(s, keys)) /\ Same(s, Pump(s, keys))
<1> DEFINE p == [k \in keys |-> Pumped(s, k)]
           t == Taking(s, keys, p)
           taken == UNION {ToSet(p[k].taken) : k \in keys}
<1>1. Pump(s, keys) = t
  BY PumpIs
<1>2. \A k \in keys : /\ p[k].taken \in Seq(Ids(s))
                      /\ Len(p[k].taken) \in 0 .. Len(s.qps[k].waiting)
                      /\ \A i \in ToSet(p[k].taken) : ~BlockedByFence(s, s.work[i])
  BY PumpedIs DEF Good
<1> HIDE DEF p
<1>3. \A i \in taken : ~BlockedByFence(s, s.work[i])
  BY <1>2
<1>4. \A k \in keys : ToSet(p[k].taken) \subseteq taken
  OBVIOUS
<1>5. DOMAIN s = Fields /\ DOMAIN s.qps = Keys
  BY DEF Good, Shape
<1>6. /\ DOMAIN t = Fields
      /\ t.work = [i \in DOMAIN s.work |->
                     IF i \in taken THEN [s.work[i] EXCEPT !.issued = TRUE] ELSE s.work[i]]
      /\ t.qps = [k \in DOMAIN s.qps |->
                    IF k \in keys THEN Issuing(s.qps[k], p[k]) ELSE s.qps[k]]
      /\ t.nextId = s.nextId /\ t.fences = s.fences /\ t.nextQp = s.nextQp /\ t.copying = s.copying
      /\ t.staging = s.staging /\ t.handoff = s.handoff /\ t.cqes = s.cqes
  BY <1>5 DEF Taking, Fields
<1> HIDE DEF t, taken
<1>7. Ids(t) = Ids(s)
  BY <1>6 DEF Ids
<1>8. ASSUME NEW i \in DOMAIN s.work
      PROVE  /\ WorkShape(t.work[i])
             /\ t.work[i].peer = s.work[i].peer /\ t.work[i].opcode = s.work[i].opcode
             /\ t.work[i].fenceThrough = s.work[i].fenceThrough
             /\ t.work[i].acked = s.work[i].acked /\ t.work[i].executed = s.work[i].executed
             /\ t.work[i].issued = IF i \in taken THEN TRUE ELSE s.work[i].issued
  <2>1. WorkShape(s.work[i]) /\ DOMAIN s.work[i] = WorkFields
    BY DEF Good, Shape, WorkShape
  <2>2. t.work[i] = IF i \in taken THEN [s.work[i] EXCEPT !.issued = TRUE] ELSE s.work[i]
    BY <1>6
  <2> QED
    BY <2>1, <2>2 DEF WorkShape, WorkFields
<1>9. ASSUME NEW k \in Keys
      PROVE  /\ QueueShape(t.qps[k], Ids(s))
             /\ InPipe(t.qps[k]) \subseteq InPipe(s.qps[k]) \cup taken
  <2>1. QueueShape(s.qps[k], Ids(s))
    BY DEF Good, Shape
  <2>2. CASE k \notin keys
    BY <1>5, <1>6, <2>1, <2>2
  <2>3. CASE k \in keys
    <3> DEFINE q == s.qps[k]
               r == Issuing(q, p[k])
    <3>1. t.qps[k] = r
      BY <1>5, <1>6, <2>3
    <3>2. /\ DOMAIN q = QueueFields
          /\ q.waiting \in Seq(Ids(s)) /\ q.building \in Seq(Ids(s)) /\ q.published \in Seq(Ids(s))
          /\ q.fetching \in Seq(Ids(s)) /\ q.outstanding \in Seq(Ids(s))
      BY <2>1 DEF QueueShape
    <3> HIDE DEF q
    <3>3. /\ DOMAIN r = QueueFields
          /\ r.waiting = SubSeq(q.waiting, Len(p[k].taken) + 1, Len(q.waiting))
          /\ r.building = q.building \o p[k].taken
          /\ r.outstanding = q.outstanding \o p[k].taken
          /\ r.published = q.published /\ r.fetching = q.fetching
      BY <3>2 DEF Issuing, QueueFields
    <3> HIDE DEF r
    <3>4. p[k].taken \in Seq(Ids(s)) /\ Len(p[k].taken) \in Nat
      BY <1>2, <2>3
    <3>5. /\ r.building \in Seq(Ids(s)) /\ r.outstanding \in Seq(Ids(s))
          /\ ToSet(r.building) = ToSet(q.building) \cup ToSet(p[k].taken)
      BY <3>2, <3>3, <3>4, Parts
    <3>6. r.waiting \in Seq(Ids(s))
      BY <3>2, <3>3, <3>4
    <3>7. QueueShape(r, Ids(s))
      BY <3>2, <3>3, <3>5, <3>6 DEF QueueShape
    <3>8. InPipe(r) \subseteq InPipe(q) \cup taken
      BY <1>4, <2>3, <3>3, <3>5 DEF InPipe
    <3> QED
      BY <3>1, <3>7, <3>8 DEF q
  <2> QED
    BY <2>2, <2>3
<1>10. DOMAIN t.work = DOMAIN s.work /\ DOMAIN t.qps = Keys
  BY <1>5, <1>6
<1>11. Shape(t)
  BY <1>6, <1>7, <1>8, <1>9, <1>10 DEF Good, Shape
<1>12. Same(s, t)
  BY <1>6, <1>8, <1>10 DEF Same
<1>13. ASSUME NEW i \in DOMAIN t.work, i \in taken
       PROVE  ~BlockedByFence(t, t.work[i])
  <2>1. ~BlockedByFence(s, s.work[i])
    BY <1>3, <1>13
  <2> QED
    BY <1>8, <1>10, <2>1 DEF BlockedByFence
<1>14. Grown(s, t)
  BY <1>8, <1>9, <1>10, <1>13 DEF Grown
<1> QED
  BY <1>1, <1>11, <1>12, <1>14, GrownKeeps DEF Good

\* A step that leaves the works alone and brings none into the pipe.
LEMMA WorksStay ==
    ASSUME NEW s, NEW t, Good(s), Shape(t),
           t.nextId = s.nextId, t.fences = s.fences, t.nextQp = s.nextQp, t.work = s.work,
           \A k \in Keys : InPipe(t.qps[k]) \subseteq InPipe(s.qps[k])
    PROVE  Good(t) /\ Same(s, t)
<1>1. Same(s, t)
  BY DEF Same
<1>2. Grown(s, t)
  BY DEF Grown
<1> QED
  BY <1>1, <1>2, GrownKeeps DEF Good

\* Ids that were given out join the send queues.
LEMMA EnqueuedKeeps ==
    ASSUME NEW s, Good(s), NEW ids \in SUBSET Ids(s)
    PROVE  Good(Enqueued(s, ids)) /\ Same(s, Enqueued(s, ids))
<1> DEFINE Of(k) == {i \in ids : KeyOf(s.work[i]) = k}
           At(k) == ToSet(s.qps[k].waiting) \cup Of(k)
           t == [s EXCEPT !.qps = [k \in DOMAIN s.qps |->
                    [s.qps[k] EXCEPT !.waiting = Ascending(At(k))]]]
           keys == {k \in DOMAIN s.qps : Of(k) # {}}
<1>1. Enqueued(s, ids) = Pump(t, keys)
  BY DEF Enqueued
<1>2. DOMAIN s = Fields /\ DOMAIN s.qps = Keys /\ s.nextId \in Nat \ {0}
  BY DEF Good, Shape
<1>3. /\ DOMAIN t = Fields
      /\ t.qps = [k \in Keys |-> [s.qps[k] EXCEPT !.waiting = Ascending(At(k))]]
      /\ t.work = s.work /\ t.nextId = s.nextId /\ t.fences = s.fences /\ t.nextQp = s.nextQp
      /\ t.copying = s.copying /\ t.staging = s.staging /\ t.handoff = s.handoff
      /\ t.cqes = s.cqes
  BY <1>2 DEF Fields
<1>4. keys \in SUBSET Keys
  BY <1>2
<1>5. ASSUME NEW k \in Keys
      PROVE  Ascending(At(k)) \in Seq(Ids(s))
  <2>1. s.qps[k].waiting \in Seq(Ids(s))
    BY DEF Good, Shape, QueueShape
  <2>2. ToSet(s.qps[k].waiting) \subseteq Ids(s)
    BY <2>1, FinitelyHeld
  <2>3. At(k) \subseteq Ids(s)
    BY <2>2
  <2> DEFINE S == At(k)
  <2> HIDE DEF At, S
  <2>4. IsFiniteSet(Ids(s)) /\ Ids(s) \subseteq Nat
    BY <1>2, FS_Interval DEF Ids
  <2>5. S \subseteq Ids(s) /\ S \subseteq Nat /\ IsFiniteSet(S)
    BY <2>3, <2>4, FS_Subset DEF S
  <2>6. Ascending(S) \in Seq(S)
    BY <2>5, AscendingIs
  <2> QED
    BY <2>5, <2>6 DEF S
<1> HIDE DEF At, keys, t
<1>6. ASSUME NEW k \in Keys
      PROVE  QueueShape(t.qps[k], Ids(s)) /\ InPipe(t.qps[k]) = InPipe(s.qps[k])
  <2>1. t.qps[k] = [s.qps[k] EXCEPT !.waiting = Ascending(At(k))]
    BY <1>3
  <2>2. QueueShape(s.qps[k], Ids(s))
    BY DEF Good, Shape
  <2> QED
    BY <1>5, <2>1, <2>2 DEF QueueShape, QueueFields, InPipe
<1>7. Ids(t) = Ids(s) /\ DOMAIN t.qps = Keys
  BY <1>3 DEF Ids
<1>8. Shape(t)
  BY <1>3, <1>6, <1>7 DEF Good, Shape
<1>9. Good(t) /\ Same(s, t)
  BY <1>3, <1>6, <1>8, WorksStay
<1>10. Good(Pump(t, keys)) /\ Same(t, Pump(t, keys))
  BY <1>4, <1>9, PumpKeeps
<1> QED
  BY <1>1, <1>9, <1>10, SameComposes

\* Copies start; the works they are for stay as they are but for the mark.
LEMMA PumpSourceStagingKeeps ==
    ASSUME NEW s, Good(s)
    PROVE  Good(PumpSourceStaging(s)) /\ Same(s, PumpSourceStaging(s))
<1> DEFINE fits == {n \in 0 .. Len(s.staging) :
                      \A j \in 1 .. n : s.used + Bytes(s.staging, j) <= conf.stagingBuffer}
           count == Max(fits)
           started == SubSeq(s.staging, 1, count)
           ids == {e.id : e \in ToSet(started)}
           t == PumpSourceStaging(s)
<1>1. /\ DOMAIN s = Fields
      /\ IsLane(s.staging, s.nextId) /\ IsLane(s.copying, s.nextId)
      /\ Len(s.staging) \in Nat
  BY DEF Good, Shape, IsLane
<1>2. /\ DOMAIN t = Fields
      /\ t.staging = SubSeq(s.staging, count + 1, Len(s.staging))
      /\ t.copying = s.copying \o started
      /\ t.work = [i \in DOMAIN s.work |->
                     [s.work[i] EXCEPT !.stagingAllocated = @ \/ i \in ids]]
      /\ t.qps = s.qps /\ t.nextId = s.nextId /\ t.fences = s.fences /\ t.nextQp = s.nextQp
      /\ t.handoff = s.handoff /\ t.cqes = s.cqes
  BY <1>1 DEF PumpSourceStaging, Fields
<1> HIDE DEF ids
<1>3. fits \subseteq 0 .. Len(s.staging) /\ 0 \in fits
  BY <1>1
<1> HIDE DEF fits
<1>4. count \in 0 .. Len(s.staging)
  <2>1. count \in fits
    BY <1>1, <1>3, Largest
  <2> HIDE DEF count
  <2> QED
    BY <1>3, <2>1
<1> HIDE DEF count
<1> HIDE DEF t
<1>5. IsLane(t.staging, t.nextId) /\ IsLane(t.copying, t.nextId)
  <2>1. count + 1 \in Nat \ {0} /\ Len(s.staging) \in 0 .. Len(s.staging)
    BY <1>1, <1>4
  <2>2. IsLane(t.staging, t.nextId)
    <3>1. IsLane(SubSeq(s.staging, count + 1, Len(s.staging)), s.nextId)
      BY <1>1, <2>1, LanePart, Zenon
    <3> QED
      BY <1>2, <3>1
  <2>3. IsLane(started, s.nextId) /\ t.nextId = s.nextId
    <3>1. 1 \in Nat \ {0}
      OBVIOUS
    <3> QED
      BY <1>1, <1>2, <1>4, <3>1, LanePart, Zenon
  <2> QED
    BY <1>1, <1>2, <2>2, <2>3, LaneParts
<1> HIDE DEF started
<1>6. ASSUME NEW i \in DOMAIN s.work
      PROVE  /\ WorkShape(t.work[i])
             /\ t.work[i].peer = s.work[i].peer /\ t.work[i].opcode = s.work[i].opcode
             /\ t.work[i].fenceThrough = s.work[i].fenceThrough
             /\ t.work[i].acked = s.work[i].acked /\ t.work[i].executed = s.work[i].executed
             /\ t.work[i].issued = s.work[i].issued
  <2>1. WorkShape(s.work[i])
    BY DEF Good, Shape
  <2>2. t.work[i] = [s.work[i] EXCEPT !.stagingAllocated = @ \/ i \in ids]
    BY <1>2
  <2> QED
    BY <2>1, <2>2 DEF WorkShape, WorkFields
<1>7. Ids(t) = Ids(s) /\ DOMAIN t.work = DOMAIN s.work
  BY <1>2 DEF Ids
<1>8. Shape(t)
  BY <1>2, <1>5, <1>6, <1>7 DEF Good, Shape
<1>9. Same(s, t)
  BY <1>2, <1>6, <1>7 DEF Same
<1>10. Grown(s, t)
  BY <1>2, <1>6, <1>7 DEF Grown, BlockedByFence
<1> QED
  BY <1>8, <1>9, <1>10, GrownKeeps DEF Good, t

\* The copies a request needs, in the order of their works.
LEMMA CopiesAre ==
    ASSUME NEW s, Shape(s), NEW ids \in Seq(Ids(s))
    PROVE  LET copies == Copies(s, ids) IN
           /\ IsLane(copies, s.nextId) /\ Len(copies) \in Nat /\ DOMAIN copies = 1 .. Len(copies)
           /\ {e.id : e \in ToSet(copies)} =
                {i \in ToSet(ids) : Staged /\ HasSourcePayload(s.work[i].opcode)}
           /\ \A e \in ToSet(copies) : e = [id |-> e.id, bytes |-> s.work[e.id].bytes]
           /\ \A a, b \in DOMAIN copies : a < b => copies[a].id < copies[b].id
<1> DEFINE S == {i \in ToSet(ids) : Staged /\ HasSourcePayload(s.work[i].opcode)}
           staged == Ascending(S)
           copies == [n \in DOMAIN staged |->
                        [id |-> staged[n], bytes |-> s.work[staged[n]].bytes]]
<1>1. Copies(s, ids) = copies
  BY DEF Copies
<1>2. s.nextId \in Nat \ {0}
  BY DEF Shape
<1>3. IsFiniteSet(ToSet(ids)) /\ ToSet(ids) \subseteq Ids(s)
  BY FinitelyHeld
<1>4. S \subseteq Ids(s) /\ IsFiniteSet(S)
  <2>1. S \subseteq ToSet(ids)
    OBVIOUS
  <2> QED
    BY <1>3, <2>1, FS_Subset
<1> HIDE DEF S
<1>5. Ids(s) \subseteq Nat /\ \A i \in Ids(s) : i \in Int /\ i < s.nextId
  BY <1>2 DEF Ids
<1>6. /\ staged \in Seq(S) /\ ToSet(staged) = S
      /\ \A a, b \in DOMAIN staged : a < b => staged[a] < staged[b]
  BY <1>4, <1>5, AscendingIs
<1> HIDE DEF staged
<1>7. /\ Len(staged) \in Nat /\ DOMAIN staged = 1 .. Len(staged)
      /\ \A n \in DOMAIN staged : staged[n] \in S
  BY <1>6
<1>8. /\ DOMAIN copies = DOMAIN staged
      /\ \A n \in DOMAIN staged : /\ copies[n].id = staged[n]
                                  /\ copies[n] = [id |-> staged[n], bytes |-> s.work[staged[n]].bytes]
      /\ copies = [n \in 1 .. Len(staged) |-> copies[n]]
  BY <1>7
<1> HIDE DEF copies
<1>9. IsLane(copies, s.nextId) /\ Len(copies) \in Nat /\ DOMAIN copies = 1 .. Len(copies)
  <2>1. \A n \in 1 .. Len(staged) : copies[n] \in ToSet(copies)
    BY <1>7, <1>8 DEF ToSet
  <2>2. copies \in [1 .. Len(staged) -> ToSet(copies)]
    BY <1>8, <2>1
  <2>3. copies \in Seq(ToSet(copies))
    BY <1>7, <2>2
  <2>4. ASSUME NEW e \in ToSet(copies) PROVE e.id \in S
    BY <1>7, <1>8 DEF ToSet
  <2> QED
    BY <1>4, <1>5, <2>3, <2>4 DEF IsLane
<1>10. {e.id : e \in ToSet(copies)} = S
  <2>1. ASSUME NEW i \in S PROVE i \in {e.id : e \in ToSet(copies)}
    <3>1. PICK n \in DOMAIN staged : staged[n] = i
      BY <1>6 DEF ToSet
    <3>2. copies[n] \in ToSet(copies) /\ copies[n].id = i
      BY <1>8, <3>1 DEF ToSet
    <3> QED
      BY <3>2
  <2>2. ASSUME NEW e \in ToSet(copies) PROVE e.id \in S
    BY <1>7, <1>8 DEF ToSet
  <2> QED
    BY <2>1, <2>2
<1>11. ASSUME NEW e \in ToSet(copies) PROVE e = [id |-> e.id, bytes |-> s.work[e.id].bytes]
  <2>1. PICK n \in DOMAIN staged : e = copies[n]
    BY <1>8 DEF ToSet
  <2>2. e.id = staged[n] /\ e = [id |-> staged[n], bytes |-> s.work[staged[n]].bytes]
    BY <1>8, <2>1
  <2> QED
    BY <2>2
<1>12. ASSUME NEW a \in DOMAIN copies, NEW b \in DOMAIN copies, a < b
       PROVE  copies[a].id < copies[b].id
  <2>1. copies[a].id = staged[a] /\ copies[b].id = staged[b] /\ staged[a] < staged[b]
    BY <1>6, <1>8, <1>12
  <2> QED
    BY <2>1
<1> QED
  BY <1>1, <1>9, <1>10, <1>11, <1>12 DEF S

\* The works of a request go to the queue of copies or to their send queues.
LEMMA StartedKeeps ==
    ASSUME NEW s, Good(s), NEW ids \in Seq(Ids(s))
    PROVE  Good(Started(s, ids)) /\ Same(s, Started(s, ids))
<1> DEFINE copies == Copies(s, ids)
           others == Direct(s, ids)
           t == [s EXCEPT !.staging = @ \o copies]
           u == Enqueued(t, others)
<1>1. Started(s, ids) = PumpSourceStaging(u)
  BY StartedIs
<1>2. DOMAIN s = Fields /\ IsLane(s.staging, s.nextId)
  BY DEF Good, Shape
<1>3. ToSet(ids) \subseteq Ids(s)
  BY FinitelyHeld
<1>4. others \subseteq Ids(s)
  BY <1>3 DEF Direct
<1>5. IsLane(copies, s.nextId)
  BY CopiesAre DEF Good
<1> HIDE DEF copies, others
<1>6. IsLane(s.staging \o copies, s.nextId)
  BY <1>2, <1>5, LaneParts
<1>7. /\ DOMAIN t = Fields /\ t.staging = s.staging \o copies
      /\ t.work = s.work /\ t.qps = s.qps /\ t.nextId = s.nextId
      /\ t.fences = s.fences /\ t.nextQp = s.nextQp
      /\ t.copying = s.copying /\ t.handoff = s.handoff /\ t.cqes = s.cqes
  BY <1>2 DEF Fields
<1> HIDE DEF t
<1>8. Ids(t) = Ids(s)
  BY <1>7 DEF Ids
<1>9. Shape(t)
  BY <1>6, <1>7, <1>8 DEF Good, Shape
<1>10. Good(t) /\ Same(s, t)
  BY <1>7, <1>9, WorksStay
<1>11. Good(u) /\ Same(t, u)
  BY <1>4, <1>8, <1>10, EnqueuedKeeps
<1> HIDE DEF u
<1>12. Good(PumpSourceStaging(u)) /\ Same(u, PumpSourceStaging(u))
  BY <1>11, PumpSourceStagingKeeps
<1> QED
  BY <1>1, <1>10, <1>11, <1>12, SameComposes

\* The doorbells of some queue pairs.
LEMMA RingKeeps ==
    ASSUME NEW s, Good(s), NEW keys
    PROVE  Good(Ring(s, keys)) /\ Same(s, Ring(s, keys))
<1> DEFINE t == Ring(s, keys)
<1>1. DOMAIN s = Fields /\ DOMAIN s.qps = Keys
  BY DEF Good, Shape
<1>2. /\ DOMAIN t = Fields
      /\ t.qps = [k \in Keys |->
           IF k \notin keys THEN s.qps[k]
           ELSE [s.qps[k] EXCEPT !.timer = FALSE,
                                 !.fetching = @ \o s.qps[k].published,
                                 !.published = <<>>]]
      /\ t.work = s.work /\ t.nextId = s.nextId /\ t.fences = s.fences /\ t.nextQp = s.nextQp
      /\ t.copying = s.copying /\ t.staging = s.staging /\ t.handoff = s.handoff
      /\ t.cqes = s.cqes
  BY <1>1 DEF Ring, Fields
<1> HIDE DEF t
<1>3. ASSUME NEW k \in Keys
      PROVE  QueueShape(t.qps[k], Ids(s)) /\ InPipe(t.qps[k]) \subseteq InPipe(s.qps[k])
  <2> DEFINE q == s.qps[k]
             r == t.qps[k]
  <2>1. QueueShape(q, Ids(s))
    BY DEF Good, Shape
  <2>2. r = IF k \notin keys THEN q
            ELSE [q EXCEPT !.timer = FALSE, !.fetching = @ \o q.published, !.published = <<>>]
    BY <1>2
  <2> HIDE DEF q, r
  <2>3. CASE k \notin keys
    BY <2>1, <2>2, <2>3 DEF q, r
  <2>4. CASE k \in keys
    <3>1. /\ DOMAIN r = QueueFields
          /\ r.fetching = q.fetching \o q.published /\ r.published = <<>>
          /\ r.waiting = q.waiting /\ r.building = q.building /\ r.outstanding = q.outstanding
      BY <2>1, <2>2, <2>4 DEF QueueShape, QueueFields
    <3>2. /\ r.fetching \in Seq(Ids(s))
          /\ ToSet(r.fetching) = ToSet(q.fetching) \cup ToSet(q.published)
      BY <2>1, <3>1, Parts DEF QueueShape
    <3>3. r.published \in Seq(Ids(s)) /\ ToSet(r.published) = {}
      BY <3>1 DEF ToSet
    <3>4. QueueShape(r, Ids(s))
      BY <2>1, <3>1, <3>2, <3>3 DEF QueueShape
    <3>5. InPipe(r) \subseteq InPipe(q)
      BY <3>1, <3>2, <3>3 DEF InPipe
    <3> QED
      BY <3>4, <3>5 DEF q, r
  <2> QED
    BY <2>3, <2>4
<1>4. Ids(t) = Ids(s) /\ DOMAIN t.qps = Keys
  BY <1>2 DEF Ids
<1>5. Shape(t)
  BY <1>2, <1>3, <1>4 DEF Good, Shape
<1>6. t.nextId = s.nextId /\ t.fences = s.fences /\ t.nextQp = s.nextQp /\ t.work = s.work
  BY <1>2
<1>7. Good(t) /\ Same(s, t)
  BY <1>3, <1>5, <1>6, WorksStay
<1> QED
  BY <1>7 DEF t

\* A completion is written for the acknowledged prefix.
LEMMA ProgressKeeps ==
    ASSUME NEW s, Good(s), NEW k \in Keys
    PROVE  Good(Progress(s, k)) /\ Same(s, Progress(s, k))
<1> DEFINE q == s.qps[k]
           prefixes == {n \in 0 .. Len(q.outstanding) :
                          \A j \in 1 .. n : s.work[q.outstanding[j]].acked}
           ready == Max(prefixes)
           rest == SubSeq(q.outstanding, ready + 1, Len(q.outstanding))
           cqe == [key |-> k, through |-> q.outstanding[ready]]
           t == [s EXCEPT !.qps[k].outstanding = SubSeq(@, ready + 1, Len(@)),
                          !.cqes = Append(@, cqe)]
<1>1. CASE Progress(s, k) = s
  <2>1. Same(s, s)
    BY DEF Same
  <2> QED
    BY <1>1, <2>1
<1>2. CASE ready # 0 /\ Progress(s, k) = t
  <2>1. /\ DOMAIN s = Fields /\ DOMAIN s.qps = Keys
        /\ s.cqes \in Seq([key : Keys, through : Ids(s)])
        /\ QueueShape(q, Ids(s)) /\ DOMAIN q = QueueFields
        /\ q.outstanding \in Seq(Ids(s)) /\ Len(q.outstanding) \in Nat
    BY DEF Good, Shape, QueueShape
  <2>2. prefixes \subseteq 0 .. Len(q.outstanding) /\ 0 \in prefixes
    BY <2>1
  <2> HIDE DEF prefixes
  <2>3. ready \in 0 .. Len(q.outstanding)
    BY <2>1, <2>2, Largest
  <2> HIDE DEF ready
  <2>4. /\ DOMAIN t = Fields
        /\ t.qps = [s.qps EXCEPT ![k] = [q EXCEPT !.outstanding = rest]]
        /\ t.cqes = Append(s.cqes, cqe)
        /\ t.work = s.work /\ t.nextId = s.nextId /\ t.fences = s.fences /\ t.nextQp = s.nextQp
        /\ t.copying = s.copying /\ t.staging = s.staging /\ t.handoff = s.handoff
    BY <2>1 DEF Fields, QueueFields
  <2>5. cqe \in [key : Keys, through : Ids(s)] /\ rest \in Seq(Ids(s))
    BY <1>2, <2>1, <2>3
  <2> HIDE DEF t, cqe, rest
  <2>6. t.cqes \in Seq([key : Keys, through : Ids(s)])
    BY <2>1, <2>4, <2>5
  <2>7. ASSUME NEW l \in Keys
        PROVE  QueueShape(t.qps[l], Ids(s)) /\ InPipe(t.qps[l]) \subseteq InPipe(s.qps[l])
    <3>1. QueueShape(s.qps[l], Ids(s))
      BY DEF Good, Shape
    <3>2. t.qps[l] = IF l = k THEN [q EXCEPT !.outstanding = rest] ELSE s.qps[l]
      BY <2>1, <2>4
    <3> HIDE DEF q
    <3>3. CASE l # k
      BY <3>1, <3>2, <3>3
    <3>4. CASE l = k
      <4> DEFINE r == [q EXCEPT !.outstanding = rest]
      <4>1. QueueShape(r, Ids(s)) /\ InPipe(r) = InPipe(q)
        BY <2>1, <2>5 DEF QueueShape, QueueFields, InPipe
      <4> QED
        BY <3>2, <3>4, <4>1 DEF q
    <3> QED
      BY <3>3, <3>4
  <2>8. Ids(t) = Ids(s) /\ DOMAIN t.qps = Keys
    BY <2>1, <2>4 DEF Ids
  <2>9. Shape(t)
    BY <2>4, <2>6, <2>7, <2>8 DEF Good, Shape
  <2>10. Good(t) /\ Same(s, t)
    BY <2>4, <2>7, <2>9, WorksStay
  <2> QED
    BY <1>2, <2>10
<1>3. \/ Progress(s, k) = s
      \/ ready # 0 /\ Progress(s, k) = t
  BY DEF Progress
<1> QED
  BY <1>1, <1>2, <1>3

\* One work is marked: as failed, as remotely visible or, once it is issued,
\* as executed.
LEMMA MarkKeeps ==
    ASSUME NEW s, Good(s), NEW i \in DOMAIN s.work, NEW t, NEW w,
           DOMAIN t = Fields, t.work = [s.work EXCEPT ![i] = w],
           t.qps = s.qps, t.nextId = s.nextId, t.fences = s.fences, t.nextQp = s.nextQp,
           t.copying = s.copying,
           t.staging = s.staging, t.handoff = s.handoff, t.cqes = s.cqes,
           WorkShape(w),
           w.peer = s.work[i].peer, w.opcode = s.work[i].opcode,
           w.fenceThrough = s.work[i].fenceThrough,
           w.issued = s.work[i].issued, s.work[i].acked => w.acked,
           w.executed => s.work[i].executed \/ s.work[i].issued
    PROVE  Good(t) /\ Same(s, t) /\ DOMAIN t.work = DOMAIN s.work
<1>1. /\ DOMAIN t.work = DOMAIN s.work
      /\ \A j \in DOMAIN s.work : t.work[j] = IF j = i THEN w ELSE s.work[j]
  OBVIOUS
<1>2. Ids(t) = Ids(s)
  BY DEF Ids
<1>3. Shape(t)
  BY <1>1, <1>2 DEF Good, Shape
<1>4. Same(s, t)
  BY <1>1 DEF Same
<1>5. Grown(s, t)
  BY <1>1 DEF Grown
<1> QED
  BY <1>1, <1>3, <1>4, <1>5, GrownKeeps DEF Good

\* A work is remotely complete.
LEMMA AcknowledgedKeeps ==
    ASSUME NEW s, Good(s), NEW i \in DOMAIN s.work
    PROVE  Good(Acknowledged(s, i)) /\ Same(s, Acknowledged(s, i))
<1> DEFINE w == [s.work[i] EXCEPT !.acked = TRUE]
           t == [s EXCEPT !.work[i].acked = TRUE]
           k == KeyOf(s.work[i])
           u == Progress(t, k)
           v == Pump(u, DOMAIN u.qps)
<1>1. Acknowledged(s, i) = v
  BY AcknowledgedIs
<1>2. DOMAIN s = Fields /\ WorkShape(s.work[i])
  BY DEF Good, Shape
<1>3. /\ DOMAIN t = Fields /\ t.work = [s.work EXCEPT ![i] = w]
      /\ t.qps = s.qps /\ t.nextId = s.nextId /\ t.fences = s.fences
      /\ t.nextQp = s.nextQp /\ t.copying = s.copying
      /\ t.staging = s.staging /\ t.handoff = s.handoff /\ t.cqes = s.cqes
  BY <1>2 DEF Fields
<1>4. /\ WorkShape(w) /\ w.acked = TRUE
      /\ w.peer = s.work[i].peer /\ w.opcode = s.work[i].opcode
      /\ w.fenceThrough = s.work[i].fenceThrough
      /\ w.issued = s.work[i].issued /\ w.executed = s.work[i].executed
  BY <1>2 DEF WorkShape, WorkFields
<1>5. k \in Keys
  BY <1>2 DEF WorkShape, KeyOf, Keys
<1> HIDE DEF t, w, k
<1>6. Good(t) /\ Same(s, t)
  BY <1>3, <1>4, MarkKeeps
<1>7. Good(u) /\ Same(t, u)
  BY <1>5, <1>6, ProgressKeeps
<1>8. DOMAIN u.qps = Keys
  BY <1>7 DEF Good, Shape
<1> HIDE DEF u
<1>9. Good(v) /\ Same(u, v)
  BY <1>7, <1>8, PumpKeeps
<1> HIDE DEF v
<1> QED
  BY <1>1, <1>6, <1>7, <1>9, SameComposes

\* A work has failed.
LEMMA FailedKeeps ==
    ASSUME NEW s, Good(s), NEW i \in DOMAIN s.work
    PROVE  Good(Failed(s, i)) /\ Same(s, Failed(s, i)) /\ DOMAIN Failed(s, i).work = DOMAIN s.work
<1> DEFINE w == [s.work[i] EXCEPT !.failed = TRUE]
           t == [s EXCEPT !.work[i].failed = TRUE,
                          !.succeeded[s.work[i].call] = FALSE,
                          !.failed = @ + 1]
<1>1. CASE Failed(s, i) = s
  <2>1. Same(s, s)
    BY DEF Same
  <2> QED
    BY <1>1, <2>1
<1>2. CASE Failed(s, i) = t
  <2>1. DOMAIN s = Fields /\ WorkShape(s.work[i])
    BY DEF Good, Shape
  <2>2. /\ DOMAIN t = Fields /\ t.work = [s.work EXCEPT ![i] = w]
        /\ t.qps = s.qps /\ t.nextId = s.nextId /\ t.fences = s.fences
        /\ t.nextQp = s.nextQp /\ t.copying = s.copying
        /\ t.staging = s.staging /\ t.handoff = s.handoff /\ t.cqes = s.cqes
    BY <2>1 DEF Fields
  <2>3. /\ WorkShape(w) /\ w.acked = s.work[i].acked
        /\ w.peer = s.work[i].peer /\ w.opcode = s.work[i].opcode
        /\ w.fenceThrough = s.work[i].fenceThrough
        /\ w.issued = s.work[i].issued /\ w.executed = s.work[i].executed
    BY <2>1 DEF WorkShape, WorkFields
  <2> HIDE DEF t, w
  <2>4. Good(t) /\ Same(s, t) /\ DOMAIN t.work = DOMAIN s.work
    BY <2>2, <2>3, MarkKeeps
  <2> QED
    BY <1>2, <2>4
<1>3. Failed(s, i) = s \/ Failed(s, i) = t
  BY DEF Failed
<1> QED
  BY <1>1, <1>2, <1>3

\* A work has completed, well or not.
LEMMA CompletedKeeps ==
    ASSUME NEW s, Good(s), NEW i \in DOMAIN s.work, NEW success \in BOOLEAN
    PROVE  Good(Completed(s, i, success)) /\ Same(s, Completed(s, i, success))
<1> DEFINE t == IF success THEN s ELSE Failed(s, i)
<1>1. Completed(s, i, success) = Acknowledged(t, i)
  BY CompletedIs
<1>2. Same(s, s)
  BY DEF Same
<1>3. Good(t) /\ Same(s, t) /\ DOMAIN t.work = DOMAIN s.work
  BY <1>2, FailedKeeps
<1> HIDE DEF t
<1>4. Good(Acknowledged(t, i)) /\ Same(t, Acknowledged(t, i))
  BY <1>3, AcknowledgedKeeps
<1> QED
  BY <1>1, <1>3, <1>4, SameComposes

\* Works that were observed are gone.
LEMMA FreedKeeps ==
    ASSUME NEW s, Good(s), NEW k, NEW gone
    PROVE  Good(Freed(s, k, gone)) /\ Same(s, Freed(s, k, gone))
<1> DEFINE t == Freed(s, k, gone)
           less == Cardinality(gone)
           reads == Cardinality({i \in gone : UsesReadAtomicCredit(s.work[i].opcode)})
<1>1. DOMAIN s = Fields /\ DOMAIN s.qps = Keys
  BY DEF Good, Shape
<1>2. /\ DOMAIN t = Fields
      /\ t.work = [i \in DOMAIN s.work \ gone |-> s.work[i]]
      /\ t.nextId = s.nextId /\ t.fences = s.fences /\ t.nextQp = s.nextQp /\ t.copying = s.copying
      /\ t.staging = s.staging /\ t.handoff = s.handoff /\ t.cqes = s.cqes
  BY <1>1 DEF Freed, Fields
<1>3. ASSUME NEW l \in Keys
      PROVE  QueueShape(t.qps[l], Ids(s)) /\ InPipe(t.qps[l]) = InPipe(s.qps[l])
  <2>1. QueueShape(s.qps[l], Ids(s))
    BY DEF Good, Shape
  <2>2. /\ DOMAIN t.qps[l] = DOMAIN s.qps[l]
        /\ t.qps[l].waiting = s.qps[l].waiting /\ t.qps[l].building = s.qps[l].building
        /\ t.qps[l].published = s.qps[l].published /\ t.qps[l].fetching = s.qps[l].fetching
        /\ t.qps[l].outstanding = s.qps[l].outstanding
    BY <1>1, <2>1 DEF Freed, Fields, QueueShape, QueueFields
  <2> HIDE DEF t
  <2> QED
    BY <2>1, <2>2 DEF QueueShape, InPipe
<1>4. Ids(t) = Ids(s) /\ DOMAIN t.qps = Keys
  BY <1>1 DEF Ids, Freed, Fields
<1> HIDE DEF t
<1>5. Shape(t)
  BY <1>2, <1>3, <1>4 DEF Good, Shape
<1>6. Same(s, t)
  BY <1>2 DEF Same
<1>7. Grown(s, t)
  BY <1>2, <1>3 DEF Grown
<1> QED
  BY <1>5, <1>6, <1>7, GrownKeeps DEF Good, t

\* The rest of the state does not matter.
LEMMA Alike ==
    ASSUME NEW s, NEW t, Good(s), DOMAIN t = Fields,
           t.work = s.work, t.qps = s.qps, t.nextId = s.nextId, t.copying = s.copying,
           t.staging = s.staging, t.handoff = s.handoff, t.cqes = s.cqes
    PROVE  Good(t)
<1>1. Ids(t) = Ids(s)
  BY DEF Ids
<1>2. Shape(t)
  BY <1>1 DEF Good, Shape
<1>3. Fenced(t)
  BY DEF Good, Fenced, BlockedByFence
<1> QED
  BY <1>2, <1>3 DEF Good

-----------------------------------------------------------------------------
(* The inductive invariant.                                                *)

\* How the works relate to the calls they came from: a work made after a fence
\* of its peer carries a mark behind all that was made before the fence.
Calls ==
    /\ conf \in Confs
    /\ made \in 0 .. Len(conf.calls)
    /\ origin \in Seq(1 .. made) /\ Len(origin) = m.nextId - 1
    /\ \A i \in DOMAIN origin : conf.calls[origin[i]].op = "submit"
    /\ m.nextQp \in [conf.peers -> Int]
    /\ m.fences \in [conf.peers -> 0 .. m.nextId - 1]
    /\ \A c \in 1 .. made : conf.calls[c].op = "fence" =>
         \A i \in DOMAIN origin : origin[i] < c => i <= m.fences[conf.calls[c].peer]
    /\ \A j \in DOMAIN m.work :
         /\ m.work[j].peer = conf.calls[origin[j]].peer
         /\ m.work[j].fenceThrough < m.nextId
         /\ m.work[j].opcode = "SIGNAL" => m.work[j].fenceThrough = j - 1
         /\ \A c \in 1 .. made :
              /\ conf.calls[c].op = "fence" /\ c < origin[j]
              /\ conf.calls[c].peer = m.work[j].peer
              => \A i \in DOMAIN origin : origin[i] < c => i <= m.work[j].fenceThrough

IInv == Good(m) /\ Calls

\* The invariant implies the order.
LEMMA InvariantOrders ==
    ASSUME IInv
    PROVE  FencedOrder
<1> SUFFICES ASSUME NEW j \in DOMAIN m.work, m.work[j].executed,
                    NEW i \in DOMAIN origin, MustPrecede(i, j),
                    i \in DOMAIN m.work, ~m.work[i].acked
             PROVE  FALSE
  BY DEF FencedOrder, Visible
<1>1. /\ DOMAIN m.work \subseteq Ids(m) /\ m.nextId \in Nat \ {0}
      /\ made \in Nat /\ origin \in Seq(1 .. made) /\ DOMAIN origin = Ids(m)
  <2>1. Len(conf.calls) \in Nat
    BY SubmissionAssumption DEF IInv, Calls
  <2> QED
    BY <2>1 DEF IInv, Good, Shape, Calls, Ids
<1>2. i \in Nat /\ j \in Nat /\ j \in DOMAIN origin
  BY <1>1 DEF Ids
<1>3. origin[i] \in 1 .. made /\ origin[j] \in 1 .. made
  BY <1>1, <1>2
<1>4. /\ m.work[i].peer = conf.calls[origin[i]].peer
      /\ m.work[j].peer = conf.calls[origin[j]].peer
      /\ conf.calls[origin[i]].op = "submit" /\ conf.calls[origin[j]].op = "submit"
  BY <1>2 DEF IInv, Calls
<1>5. ~(i <= m.work[j].fenceThrough /\ m.work[i].peer = m.work[j].peer)
  <2>1. ~BlockedByFence(m, m.work[j])
    BY DEF IInv, Good, Fenced
  <2> QED
    BY <2>1 DEF BlockedByFence
<1>6. CASE /\ conf.calls[origin[i]].peer = conf.calls[origin[j]].peer
           /\ \E c \in origin[i] .. origin[j] :
                conf.calls[c].op = "fence" /\ conf.calls[c].peer = conf.calls[origin[i]].peer
  <2>1. PICK c \in origin[i] .. origin[j] :
          conf.calls[c].op = "fence" /\ conf.calls[c].peer = conf.calls[origin[i]].peer
    BY <1>6
  <2>2. c \in 1 .. made /\ origin[i] <= c /\ c <= origin[j]
    BY <1>1, <1>3, <2>1
  <2>3. c # origin[i] /\ c # origin[j]
    BY <1>4, <2>1
  <2>4. origin[i] < c /\ c < origin[j]
    BY <1>1, <1>3, <2>2, <2>3
  <2>5. conf.calls[c].peer = m.work[j].peer
    BY <1>4, <1>6, <2>1
  <2>6. i <= m.work[j].fenceThrough
    BY <2>1, <2>2, <2>4, <2>5 DEF IInv, Calls
  <2> QED
    BY <1>4, <1>5, <1>6, <2>6
<1>7. CASE origin[i] = origin[j] /\ i < j /\ m.work[j].opcode = "SIGNAL"
  <2>1. m.work[j].fenceThrough = j - 1
    BY <1>7 DEF IInv, Calls
  <2>2. i <= j - 1
    BY <1>2, <1>7
  <2> QED
    BY <1>4, <1>5, <1>7, <2>1, <2>2
<1> QED
  BY <1>6, <1>7 DEF MustPrecede

\* The works stay with their calls while no call is made.
LEMMA CallsStay ==
    ASSUME Calls, Same(m, m'), UNCHANGED <<conf, made, origin>>
    PROVE  Calls'
<1>1. \A j \in DOMAIN m'.work :
         /\ j \in DOMAIN m.work
         /\ m'.work[j].peer = m.work[j].peer /\ m'.work[j].opcode = m.work[j].opcode
         /\ m'.work[j].fenceThrough = m.work[j].fenceThrough
  BY DEF Same
<1>2. m'.nextId = m.nextId /\ m'.fences = m.fences /\ m'.nextQp = m.nextQp
  BY DEF Same
<1> QED
  BY <1>1, <1>2 DEF Calls

-----------------------------------------------------------------------------
(* The initial states and the calls.                                       *)

\* At the start nothing is queued.
LEMMA InitEstablishes == Init => IInv
<1> SUFFICES ASSUME Init PROVE IInv
  OBVIOUS
<1>1. /\ m.nextId = 1 /\ m.nextQp = [p \in conf.peers |-> 0] /\ DOMAIN m.work = {}
      /\ m.qps = [k \in Keys |-> EmptyQp] /\ m.fences = [p \in conf.peers |-> 0]
      /\ m.handoff = <<>> /\ m.staging = <<>> /\ m.copying = <<>> /\ m.cqes = <<>>
      /\ DOMAIN m = Fields
  BY DEF Init, Fields
<1>2. conf \in Confs /\ made = 0 /\ origin = <<>>
  BY DEF Init
<1>3. \A q : QueueShape(EmptyQp, q) /\ InPipe(EmptyQp) = {}
  BY DEF EmptyQp, QueueShape, QueueFields, InPipe, ToSet
<1>4. IsLane(<<>>, 1)
  BY DEF IsLane, ToSet
<1>5. Shape(m)
  BY <1>1, <1>3, <1>4 DEF Shape
<1>6. Fenced(m)
  BY <1>1, <1>3 DEF Fenced
<1>7. Len(conf.calls) \in Nat
  BY <1>2, SubmissionAssumption
<1>8. Calls
  BY <1>1, <1>2, <1>7 DEF Calls
<1> QED
  BY <1>5, <1>6, <1>8 DEF IInv, Good

\* What is assumed of a call.
LEMMA CallIs ==
    ASSUME IInv, NEW op, Call(op)
    PROVE  LET call == conf.calls[made + 1] IN
           /\ made \in Nat /\ made + 1 \in 1 .. Len(conf.calls) /\ Len(conf.calls) \in Nat
           /\ made' = made + 1 /\ conf' = conf /\ call.op = op
           /\ op \in {"submit", "fence"} => call.peer \in conf.peers
           /\ op = "submit" => /\ call.bytes \in Nat \ {0}
                               /\ call.producer \in {-1} \cup (0 .. conf.producers - 1)
<1>1. conf \in Confs /\ made \in 0 .. Len(conf.calls) /\ made < Len(conf.calls)
  BY DEF IInv, Calls, Call
<1>2. Len(conf.calls) \in Nat
  BY <1>1, SubmissionAssumption
<1>3. made \in Nat /\ made + 1 \in 1 .. Len(conf.calls)
  BY <1>1, <1>2
<1>4. conf.calls[made + 1].op = op /\ made' = made + 1 /\ conf' = conf
  BY DEF Call
<1> DEFINE n == made + 1
<1> HIDE DEF n
<1>5. n \in 1 .. Len(conf.calls)
  BY <1>3 DEF n
<1>6. LET call == conf.calls[n] IN
      /\ call.op \in {"submit", "fence"} => call.peer \in conf.peers
      /\ call.op \in {"submit", "respond"} => call.bytes \in Nat \ {0}
      /\ call.op = "submit" => call.producer \in {-1} \cup (0 .. conf.producers - 1)
  BY <1>1, <1>5, SubmissionAssumption
<1> QED
  BY <1>2, <1>3, <1>4, <1>6 DEF n

\* A call that neither submits nor fences.
LEMMA OtherCall ==
    ASSUME IInv, NEW op \in {"quiet", "respond"}, Call(op), Same(m, m'), UNCHANGED origin
    PROVE  Calls'
<1>1. \A j \in DOMAIN m'.work :
         /\ j \in DOMAIN m.work
         /\ m'.work[j].peer = m.work[j].peer /\ m'.work[j].opcode = m.work[j].opcode
         /\ m'.work[j].fenceThrough = m.work[j].fenceThrough
  BY DEF Same
<1>2. m'.nextId = m.nextId /\ m'.fences = m.fences /\ m'.nextQp = m.nextQp
  BY DEF Same
<1>3. /\ made \in Nat /\ made + 1 \in 1 .. Len(conf.calls) /\ Len(conf.calls) \in Nat
      /\ made' = made + 1 /\ conf' = conf /\ conf.calls[made + 1].op = op
  BY CallIs
<1>4. Calls
  BY DEF IInv
<1>5. \A c \in 1 .. made + 1 : conf.calls[c].op = "fence" => c \in 1 .. made
  BY <1>3
<1>6. origin \in Seq(1 .. made + 1) /\ made + 1 \in 0 .. Len(conf.calls)
  BY <1>3, <1>4 DEF Calls
<1> QED
  BY <1>1, <1>2, <1>3, <1>4, <1>5, <1>6 DEF Calls

\* The predicate on the next state of the model, once the configuration stays.
LEMMA GoodNext ==
    ASSUME conf' = conf, Good(m')
    PROVE  Good(m)'
BY DEF Good, Shape, Fenced, WorkShape, QueueShape, Keys, Ids, IsLane

LEMMA QuietStep ==
    ASSUME IInv, Quiet
    PROVE  IInv'
<1> DEFINE r == Ring(m, Keys)
           s == [r EXCEPT !.quiet = @ \cup {[call |-> made + 1, watermark |-> m.nextId - 1]}]
           t == [s EXCEPT !.quiet = @ \ QuietReady(s)]
<1>1. Good(r) /\ Same(m, r)
  BY RingKeeps DEF IInv
<1>2. m' = t /\ UNCHANGED origin /\ Call("quiet") /\ conf' = conf
  BY DEF Quiet, CheckQuiet, Call
<1> HIDE DEF r
<1>3. DOMAIN r = Fields
  BY <1>1 DEF Good, Shape
<1>4. /\ DOMAIN t = Fields
      /\ t.work = r.work /\ t.qps = r.qps /\ t.nextId = r.nextId /\ t.copying = r.copying
      /\ t.staging = r.staging /\ t.handoff = r.handoff /\ t.cqes = r.cqes
      /\ t.fences = r.fences /\ t.nextQp = r.nextQp
  BY <1>3 DEF Fields
<1> HIDE DEF s, t
<1>5. Good(t)
  BY <1>1, <1>4, Alike
<1>6. Same(m, t)
  BY <1>1, <1>4 DEF Same
<1>7. Calls'
  BY <1>2, <1>6, OtherCall
<1>8. Good(m')
  BY <1>2, <1>5
<1>9. Good(m)'
  BY <1>2, <1>8, GoodNext
<1> QED
  BY <1>7, <1>9 DEF IInv

LEMMA FenceStep ==
    ASSUME IInv, Fence
    PROVE  IInv'
<1> DEFINE peer == conf.calls[made + 1].peer
           r == Ring(m, {k \in Keys : k[1] = peer})
           t == [r EXCEPT !.fences[peer] = m.nextId - 1]
<1>1. Good(r) /\ Same(m, r)
  BY RingKeeps DEF IInv
<1>2. m' = t /\ origin' = origin /\ Call("fence")
  BY DEF Fence
<1>3. /\ made \in Nat /\ made + 1 \in 1 .. Len(conf.calls) /\ Len(conf.calls) \in Nat
      /\ made' = made + 1 /\ conf' = conf /\ peer \in conf.peers
  BY <1>2, CallIs
<1> HIDE DEF r, peer
<1>4. DOMAIN r = Fields
  BY <1>1 DEF Good, Shape
<1>5. /\ DOMAIN t = Fields
      /\ t.work = r.work /\ t.qps = r.qps /\ t.nextId = r.nextId /\ t.copying = r.copying
      /\ t.staging = r.staging /\ t.handoff = r.handoff /\ t.cqes = r.cqes
      /\ t.fences = [r.fences EXCEPT ![peer] = m.nextId - 1] /\ t.nextQp = r.nextQp
  BY <1>4 DEF Fields
<1> HIDE DEF t
<1>6. Good(t)
  BY <1>1, <1>5, Alike
<1>7. Good(m)'
  BY <1>2, <1>3, <1>6, GoodNext
<1>8. /\ m'.nextId = m.nextId /\ m'.nextQp = m.nextQp
      /\ m'.fences = [m.fences EXCEPT ![peer] = m.nextId - 1]
      /\ \A j \in DOMAIN m'.work :
         /\ j \in DOMAIN m.work
         /\ m'.work[j].peer = m.work[j].peer /\ m'.work[j].opcode = m.work[j].opcode
         /\ m'.work[j].fenceThrough = m.work[j].fenceThrough
  BY <1>1, <1>2, <1>5 DEF Same
<1>9. /\ Calls /\ m.nextId \in Nat \ {0} /\ DOMAIN m.work \subseteq Ids(m)
      /\ DOMAIN origin = 1 .. m.nextId - 1 /\ \A i \in DOMAIN origin : origin[i] \in 1 .. made
      /\ m.fences \in [conf.peers -> 0 .. m.nextId - 1]
  BY DEF IInv, Good, Shape, Calls
<1>10. m'.fences \in [conf.peers -> 0 .. m.nextId - 1]
  BY <1>3, <1>8, <1>9
<1>11. ASSUME NEW c \in 1 .. made + 1, conf.calls[c].op = "fence",
              NEW i \in DOMAIN origin, origin[i] < c
       PROVE  i <= m'.fences[conf.calls[c].peer]
  <2>1. CASE c = made + 1
    BY <1>3, <1>8, <1>9, <2>1 DEF peer
  <2>2. CASE c \in 1 .. made
    <3>1. conf.calls[c].peer \in conf.peers
      <4>1. conf \in Confs /\ c \in 1 .. Len(conf.calls)
        BY <1>3, <1>9, <2>2 DEF Calls
      <4> QED
        BY <1>11, <4>1, SubmissionAssumption
    <3>2. i <= m.fences[conf.calls[c].peer]
      BY <1>9, <1>11, <2>2 DEF Calls
    <3> QED
      BY <1>8, <1>9, <3>1, <3>2
  <2> QED
    BY <1>3, <2>1, <2>2
<1>12. ASSUME NEW j \in DOMAIN m'.work, NEW c \in 1 .. made + 1, conf.calls[c].op = "fence",
              c < origin[j], conf.calls[c].peer = m'.work[j].peer,
              NEW i \in DOMAIN origin, origin[i] < c
       PROVE  i <= m'.work[j].fenceThrough
  <2>1. j \in DOMAIN origin /\ origin[j] \in 1 .. made
    BY <1>8, <1>9 DEF Ids
  <2>2. c \in 1 .. made
    BY <1>3, <1>12, <2>1
  <2> QED
    BY <1>8, <1>9, <1>12, <2>2 DEF Calls
<1>13. /\ origin \in Seq(1 .. made + 1) /\ made + 1 \in 0 .. Len(conf.calls)
       /\ Len(origin) = m.nextId - 1 /\ conf \in Confs /\ m.nextQp \in [conf.peers -> Int]
       /\ \A i \in DOMAIN origin : conf.calls[origin[i]].op = "submit"
  BY <1>3, <1>9 DEF Calls
<1>14. \A j \in DOMAIN m'.work :
         /\ m'.work[j].peer = conf.calls[origin[j]].peer
         /\ m'.work[j].fenceThrough < m.nextId
         /\ m'.work[j].opcode = "SIGNAL" => m'.work[j].fenceThrough = j - 1
  BY <1>8, <1>9 DEF Calls
<1>15. Calls'
  BY <1>2, <1>3, <1>8, <1>10, <1>11, <1>12, <1>13, <1>14 DEF Calls
<1> QED
  BY <1>7, <1>15 DEF IInv

LEMMA StageSourcePayloadStep ==
    ASSUME IInv, StageSourcePayload
    PROVE  IInv'
<1> DEFINE e == [id |-> -(made + 1), bytes |-> conf.calls[made + 1].bytes]
           s == [m EXCEPT !.staging = Append(@, e)]
           t == PumpSourceStaging(s)
<1>1. m' = t /\ UNCHANGED origin /\ Call("respond") /\ conf' = conf
  BY DEF StageSourcePayload, Call
<1>2. Good(m) /\ DOMAIN m = Fields /\ IsLane(m.staging, m.nextId) /\ m.nextId \in Nat \ {0}
  BY DEF IInv, Good, Shape
<1>3. made \in Nat
  BY <1>1, CallIs
<1>4. IsLane(<<e>>, m.nextId)
  <2>1. e.id \in Int /\ e.id < m.nextId
    BY <1>2, <1>3
  <2> HIDE DEF e
  <2>2. ToSet(<<e>>) = {e}
    BY DEF ToSet
  <2> QED
    BY <2>1, <2>2 DEF IsLane
<1> HIDE DEF e
<1>5. IsLane(m.staging \o <<e>>, m.nextId)
  BY <1>2, <1>4, LaneParts
<1>6. Append(m.staging, e) = m.staging \o <<e>>
  BY <1>2 DEF IsLane
<1>7. /\ DOMAIN s = Fields /\ s.staging = m.staging \o <<e>>
      /\ s.work = m.work /\ s.qps = m.qps /\ s.nextId = m.nextId /\ s.fences = m.fences
      /\ s.nextQp = m.nextQp /\ s.copying = m.copying /\ s.handoff = m.handoff /\ s.cqes = m.cqes
  BY <1>2, <1>6 DEF Fields
<1> HIDE DEF s
<1>8. Ids(s) = Ids(m)
  BY <1>7 DEF Ids
<1>9. Shape(s)
  BY <1>2, <1>5, <1>7, <1>8 DEF Good, Shape
<1>10. Good(s) /\ Same(m, s)
  BY <1>2, <1>7, <1>9, WorksStay
<1>11. Good(t) /\ Same(s, t)
  BY <1>10, PumpSourceStagingKeeps
<1> HIDE DEF t
<1>12. Same(m, t)
  BY <1>10, <1>11, SameComposes
<1>13. Calls'
  BY <1>1, <1>12, OtherCall
<1>14. Good(m)'
  BY <1>1, <1>11, GoodNext
<1> QED
  BY <1>13, <1>14 DEF IInv

-----------------------------------------------------------------------------
(* The scheduled events.                                                   *)

\* An event keeps the invariant when what it makes of the model is good.
LEMMA EventStep ==
    ASSUME IInv, NEW t, m' = t, UNCHANGED <<conf, made, origin>>, Good(t), Same(m, t)
    PROVE  IInv'
<1>1. Good(m)'
  BY GoodNext
<1>2. Calls'
  BY CallsStay DEF IInv
<1> QED
  BY <1>1, <1>2 DEF IInv

LEMMA ReleaseSourceStagingStep ==
    ASSUME IInv, ReleaseSourceStaging
    PROVE  IInv'
<1>1. PICK e \in m.serving :
        m' = PumpSourceStaging([m EXCEPT !.used = @ - e.bytes, !.serving = @ \ {e}])
  BY DEF ReleaseSourceStaging
<1> DEFINE s == [m EXCEPT !.used = @ - e.bytes, !.serving = @ \ {e}]
           t == PumpSourceStaging(s)
<1>2. Good(m) /\ DOMAIN m = Fields
  BY DEF IInv, Good, Shape
<1>3. /\ DOMAIN s = Fields /\ s.staging = m.staging
      /\ s.work = m.work /\ s.qps = m.qps /\ s.nextId = m.nextId /\ s.fences = m.fences
      /\ s.nextQp = m.nextQp /\ s.copying = m.copying /\ s.handoff = m.handoff /\ s.cqes = m.cqes
  BY <1>2 DEF Fields
<1>4. m' = t /\ UNCHANGED <<conf, made, origin>>
  BY <1>1 DEF ReleaseSourceStaging
<1> HIDE DEF s
<1>5. Good(s) /\ Same(m, s)
  BY <1>2, <1>3, Alike DEF Same
<1>6. Good(t) /\ Same(s, t)
  BY <1>5, PumpSourceStagingKeeps
<1> HIDE DEF t
<1> QED
  BY <1>4, <1>5, <1>6, SameComposes, EventStep

LEMMA StartStep ==
    ASSUME IInv, Start
    PROVE  IInv'
<1> DEFINE s == [m EXCEPT !.handoff = Tail(@)]
           ids == Head(m.handoff)
           t == Started(s, ids)
<1>1. m' = t /\ UNCHANGED <<conf, made, origin>> /\ m.handoff # <<>>
  BY DEF Start, Event
<1>2. Good(m) /\ DOMAIN m = Fields /\ m.handoff \in Seq(Seq(Ids(m)))
  BY DEF IInv, Good, Shape
<1>3. Tail(m.handoff) \in Seq(Seq(Ids(m))) /\ ids \in Seq(Ids(m))
  BY <1>1, <1>2
<1>4. /\ DOMAIN s = Fields /\ s.handoff = Tail(m.handoff)
      /\ s.work = m.work /\ s.qps = m.qps /\ s.nextId = m.nextId /\ s.fences = m.fences
      /\ s.nextQp = m.nextQp /\ s.copying = m.copying /\ s.staging = m.staging /\ s.cqes = m.cqes
  BY <1>2 DEF Fields
<1> HIDE DEF s, ids
<1>5. Ids(s) = Ids(m)
  BY <1>4 DEF Ids
<1>6. Shape(s)
  BY <1>2, <1>3, <1>4, <1>5 DEF Good, Shape
<1>7. Good(s) /\ Same(m, s)
  BY <1>2, <1>4, <1>6, WorksStay
<1>8. Good(t) /\ Same(s, t)
  BY <1>3, <1>5, <1>7, StartedKeeps
<1> HIDE DEF t
<1> QED
  BY <1>1, <1>7, <1>8, SameComposes, EventStep

LEMMA SourceStagedStep ==
    ASSUME IInv, SourceStaged
    PROVE  IInv'
<1> DEFINE e == Head(m.copying)
           s == [m EXCEPT !.copying = Tail(@)]
           t == IF e.id > 0 THEN Enqueued(s, {e.id}) ELSE [s EXCEPT !.serving = @ \cup {e}]
<1>1. m' = t /\ UNCHANGED <<conf, made, origin>> /\ m.copying # <<>>
  BY DEF SourceStaged, Event
<1>2. /\ Good(m) /\ DOMAIN m = Fields /\ IsLane(m.copying, m.nextId) /\ m.nextId \in Nat \ {0}
      /\ m.copying \in Seq(ToSet(m.copying))
  BY DEF IInv, Good, Shape, IsLane
<1>3. e \in ToSet(m.copying) /\ Len(m.copying) \in Nat /\ Len(m.copying) # 0
  BY <1>1, <1>2
<1>4. e.id \in Int /\ e.id < m.nextId
  BY <1>2, <1>3 DEF IsLane
<1>5. IsLane(Tail(m.copying), m.nextId)
  <2>1. Tail(m.copying) = SubSeq(m.copying, 2, Len(m.copying))
    BY <1>1, <1>2
  <2>2. 2 \in Nat \ {0} /\ Len(m.copying) \in 0 .. Len(m.copying)
    BY <1>3
  <2>3. IsLane(SubSeq(m.copying, 2, Len(m.copying)), m.nextId)
    BY <1>2, <2>2, LanePart, Zenon
  <2> QED
    BY <2>1, <2>3
<1>6. /\ DOMAIN s = Fields /\ s.copying = Tail(m.copying)
      /\ s.work = m.work /\ s.qps = m.qps /\ s.nextId = m.nextId /\ s.fences = m.fences
      /\ s.nextQp = m.nextQp /\ s.handoff = m.handoff /\ s.staging = m.staging /\ s.cqes = m.cqes
  BY <1>2 DEF Fields
<1> HIDE DEF s, e
<1>7. Ids(s) = Ids(m)
  BY <1>6 DEF Ids
<1>8. Shape(s)
  BY <1>2, <1>5, <1>6, <1>7 DEF Good, Shape
<1>9. Good(s) /\ Same(m, s)
  BY <1>2, <1>6, <1>8, WorksStay
<1>10. CASE e.id > 0
  <2>1. {e.id} \in SUBSET Ids(s)
    <3>1. e.id \in 1 .. m.nextId - 1
      BY <1>2, <1>4, <1>10
    <3>2. e.id \in Ids(m)
      BY <3>1 DEF Ids
    <3> QED
      BY <1>7, <3>2
  <2>2. t = Enqueued(s, {e.id})
    BY <1>10
  <2>3. Good(t) /\ Same(s, t)
    BY <1>9, <2>1, <2>2, EnqueuedKeeps
  <2> HIDE DEF t
  <2> QED
    BY <1>1, <1>9, <2>3, SameComposes, EventStep
<1>11. CASE ~(e.id > 0)
  <2>1. /\ DOMAIN t = Fields /\ t.copying = s.copying
        /\ t.work = s.work /\ t.qps = s.qps /\ t.nextId = s.nextId /\ t.fences = s.fences
        /\ t.nextQp = s.nextQp /\ t.handoff = s.handoff /\ t.staging = s.staging /\ t.cqes = s.cqes
    BY <1>6, <1>11 DEF Fields
  <2> HIDE DEF t
  <2>2. Good(t) /\ Same(s, t)
    BY <1>9, <2>1, Alike DEF Same
  <2> QED
    BY <1>1, <1>9, <2>2, SameComposes, EventStep
<1> QED
  BY <1>10, <1>11

\* An entry of one queue pair changes and the pipe holds nothing new.
LEMMA QueueMoves ==
    ASSUME NEW s, Good(s), NEW k \in Keys, NEW t, NEW q,
           DOMAIN t = Fields, t.qps = [s.qps EXCEPT ![k] = q],
           t.work = s.work, t.nextId = s.nextId, t.fences = s.fences, t.nextQp = s.nextQp,
           t.copying = s.copying, t.staging = s.staging, t.handoff = s.handoff, t.cqes = s.cqes,
           QueueShape(q, Ids(s)), InPipe(q) \subseteq InPipe(s.qps[k])
    PROVE  Good(t) /\ Same(s, t)
<1>1. Ids(t) = Ids(s) /\ DOMAIN s.qps = Keys
  BY DEF Ids, Good, Shape
<1>2. DOMAIN t.qps = Keys /\ \A l \in Keys : t.qps[l] = IF l = k THEN q ELSE s.qps[l]
  BY <1>1
<1>3. Shape(t)
  BY <1>1, <1>2 DEF Good, Shape
<1>4. \A l \in Keys : InPipe(t.qps[l]) \subseteq InPipe(s.qps[l])
  BY <1>2
<1> QED
  BY <1>3, <1>4, WorksStay

LEMMA PublishStep ==
    ASSUME IInv, NEW k \in Keys, Publish(k)
    PROVE  IInv'
<1> DEFINE q == m.qps[k]
           r == [q EXCEPT !.building = Tail(@), !.published = Append(@, Head(q.building))]
           s == [m EXCEPT !.qps[k].building = Tail(@),
                          !.qps[k].published = Append(@, Head(m.qps[k].building))]
           u == [s EXCEPT !.qps[k].timer = TRUE]
<1>1. /\ q.building # <<>> /\ UNCHANGED <<conf, made, origin>>
      /\ m' = Ring(s, {k}) \/ m' = u
  BY DEF Publish, Event
<1>2. Good(m) /\ DOMAIN m = Fields /\ DOMAIN m.qps = Keys /\ QueueShape(q, Ids(m))
  BY DEF IInv, Good, Shape
<1>3. DOMAIN q = QueueFields /\ q.building \in Seq(Ids(m)) /\ q.published \in Seq(Ids(m))
  BY <1>2 DEF QueueShape
<1>4. /\ DOMAIN s = Fields /\ s.qps = [m.qps EXCEPT ![k] = r]
      /\ s.work = m.work /\ s.nextId = m.nextId /\ s.fences = m.fences /\ s.nextQp = m.nextQp
      /\ s.copying = m.copying /\ s.staging = m.staging /\ s.handoff = m.handoff
      /\ s.cqes = m.cqes
  BY <1>2, <1>3 DEF Fields, QueueFields
<1> HIDE DEF s, q
<1>5. /\ DOMAIN r = QueueFields
      /\ r.building = Tail(q.building) /\ r.published = Append(q.published, Head(q.building))
      /\ r.waiting = q.waiting /\ r.fetching = q.fetching /\ r.outstanding = q.outstanding
  BY <1>3 DEF QueueFields
<1> HIDE DEF r
<1>6. /\ Tail(q.building) \in Seq(Ids(m)) /\ Head(q.building) \in ToSet(q.building)
      /\ ToSet(Tail(q.building)) \subseteq ToSet(q.building)
      /\ r.published \in Seq(Ids(m))
      /\ ToSet(r.published) = ToSet(q.published) \cup {Head(q.building)}
  <2> DEFINE h == Head(q.building)
  <2>1. /\ h \in Ids(m) /\ h \in ToSet(q.building) /\ Tail(q.building) \in Seq(Ids(m))
        /\ ToSet(Tail(q.building)) \subseteq ToSet(q.building)
    BY <1>1, <1>3, FirstAndRest DEF q
  <2> HIDE DEF h
  <2>2. /\ Append(q.published, h) \in Seq(Ids(m))
        /\ ToSet(Append(q.published, h)) = ToSet(q.published) \cup {h}
    BY <1>3, <2>1, OneMore
  <2> QED
    BY <1>5, <2>1, <2>2 DEF h
<1>7. QueueShape(r, Ids(m))
  BY <1>2, <1>5, <1>6 DEF QueueShape
<1>8. InPipe(r) \subseteq InPipe(q)
  BY <1>5, <1>6 DEF InPipe
<1>9. Good(s) /\ Same(m, s)
  BY <1>2, <1>4, <1>7, <1>8, QueueMoves DEF q
<1>10. CASE m' = Ring(s, {k})
  <2>1. Good(Ring(s, {k})) /\ Same(s, Ring(s, {k}))
    BY <1>9, RingKeeps
  <2> QED
    BY <1>1, <1>9, <1>10, <2>1, SameComposes, EventStep
<1>11. CASE m' = u
  <2> DEFINE v == [s.qps[k] EXCEPT !.timer = TRUE]
  <2>1. DOMAIN s.qps = Keys /\ QueueShape(s.qps[k], Ids(s))
    BY <1>9 DEF Good, Shape
  <2>2. /\ DOMAIN u = Fields /\ u.qps = [s.qps EXCEPT ![k] = v]
        /\ u.work = s.work /\ u.nextId = s.nextId /\ u.fences = s.fences /\ u.nextQp = s.nextQp
        /\ u.copying = s.copying /\ u.staging = s.staging /\ u.handoff = s.handoff
        /\ u.cqes = s.cqes
    BY <1>4, <2>1 DEF Fields
  <2>3. QueueShape(v, Ids(s)) /\ InPipe(v) \subseteq InPipe(s.qps[k])
    BY <2>1 DEF QueueShape, QueueFields, InPipe
  <2> HIDE DEF u, v
  <2>4. Good(u) /\ Same(s, u)
    BY <1>9, <2>2, <2>3, QueueMoves
  <2> QED
    BY <1>1, <1>9, <1>11, <2>4, SameComposes, EventStep
<1> QED
  BY <1>1, <1>10, <1>11

LEMMA BatchTimeoutStep ==
    ASSUME IInv, NEW k \in Keys, BatchTimeout(k)
    PROVE  IInv'
<1>1. m' = Ring(m, {k}) /\ UNCHANGED <<conf, made, origin>>
  BY DEF BatchTimeout, Event
<1>2. Good(Ring(m, {k})) /\ Same(m, Ring(m, {k}))
  BY RingKeeps DEF IInv
<1> QED
  BY <1>1, <1>2, EventStep

LEMMA ExecuteWorkStep ==
    ASSUME IInv, NEW k \in Keys, ExecuteWork(k)
    PROVE  IInv'
<1> DEFINE q == m.qps[k]
           i == Head(q.fetching)
           r == [q EXCEPT !.fetching = Tail(@)]
           s == [m EXCEPT !.qps[k].fetching = Tail(@)]
           u == [s EXCEPT !.work[i].executed = TRUE]
<1>1. /\ q.fetching # <<>> /\ UNCHANGED <<conf, made, origin>>
      /\ \/ m' = s
         \/ i \in DOMAIN m.work /\ m' = Completed(s, i, FALSE)
         \/ i \in DOMAIN m.work /\ m' = u
  BY DEF ExecuteWork, Event
<1>2. Good(m) /\ DOMAIN m = Fields /\ DOMAIN m.qps = Keys /\ QueueShape(q, Ids(m))
  BY DEF IInv, Good, Shape
<1>3. DOMAIN q = QueueFields /\ q.fetching \in Seq(Ids(m))
  BY <1>2 DEF QueueShape
<1>4. /\ DOMAIN s = Fields /\ s.qps = [m.qps EXCEPT ![k] = r]
      /\ s.work = m.work /\ s.nextId = m.nextId /\ s.fences = m.fences /\ s.nextQp = m.nextQp
      /\ s.copying = m.copying /\ s.staging = m.staging /\ s.handoff = m.handoff
      /\ s.cqes = m.cqes
  BY <1>2, <1>3 DEF Fields, QueueFields
<1>5. /\ Tail(q.fetching) \in Seq(Ids(m)) /\ i \in ToSet(q.fetching)
      /\ ToSet(Tail(q.fetching)) \subseteq ToSet(q.fetching)
  BY <1>1, <1>3, FirstAndRest
<1>6. QueueShape(r, Ids(m)) /\ InPipe(r) \subseteq InPipe(q)
  <2> HIDE DEF q
  <2>1. /\ DOMAIN r = QueueFields /\ r.fetching = Tail(q.fetching) /\ r.waiting = q.waiting
        /\ r.building = q.building /\ r.published = q.published /\ r.outstanding = q.outstanding
    BY <1>3 DEF QueueFields
  <2> HIDE DEF r
  <2> QED
    BY <1>2, <1>5, <2>1 DEF QueueShape, InPipe
<1>7. i \in DOMAIN m.work => m.work[i].issued
  BY <1>2, <1>5 DEF Good, Fenced, InPipe
<1> HIDE DEF s, r, i
<1>8. Good(s) /\ Same(m, s)
  BY <1>2, <1>4, <1>6, QueueMoves
<1>9. CASE m' = s
  BY <1>1, <1>8, <1>9, EventStep
<1>10. CASE i \in DOMAIN m.work /\ m' = Completed(s, i, FALSE)
  <2>1. Good(Completed(s, i, FALSE)) /\ Same(s, Completed(s, i, FALSE))
    BY <1>4, <1>8, <1>10, CompletedKeeps
  <2> QED
    BY <1>1, <1>8, <1>10, <2>1, SameComposes, EventStep
<1>11. CASE i \in DOMAIN m.work /\ m' = u
  <2> DEFINE w == [s.work[i] EXCEPT !.executed = TRUE]
  <2>1. i \in DOMAIN s.work /\ WorkShape(s.work[i]) /\ s.work[i].issued
    BY <1>4, <1>7, <1>8, <1>11 DEF Good, Shape
  <2>2. /\ DOMAIN u = Fields /\ u.work = [s.work EXCEPT ![i] = w]
        /\ u.qps = s.qps /\ u.nextId = s.nextId /\ u.fences = s.fences /\ u.nextQp = s.nextQp
        /\ u.copying = s.copying /\ u.staging = s.staging /\ u.handoff = s.handoff
        /\ u.cqes = s.cqes
    BY <1>4 DEF Fields
  <2>3. /\ WorkShape(w) /\ w.acked = s.work[i].acked /\ w.issued = s.work[i].issued
        /\ w.peer = s.work[i].peer /\ w.opcode = s.work[i].opcode
        /\ w.fenceThrough = s.work[i].fenceThrough
    BY <2>1 DEF WorkShape, WorkFields
  <2> HIDE DEF u, w
  <2>4. Good(u) /\ Same(s, u)
    BY <1>8, <2>1, <2>2, <2>3, MarkKeeps
  <2> QED
    BY <1>1, <1>8, <1>11, <2>4, SameComposes, EventStep
<1> QED
  BY <1>1, <1>9, <1>10, <1>11

LEMMA PacketAckStep ==
    ASSUME IInv, NEW i \in DOMAIN m.work, PacketAck(i)
    PROVE  IInv'
<1> DEFINE w == [m.work[i] EXCEPT !.acknowledged = @ + 1]
           s == [m EXCEPT !.work[i].acknowledged = @ + 1]
<1>1. UNCHANGED <<conf, made, origin>> /\ (m' = Acknowledged(s, i) \/ m' = s)
  BY DEF PacketAck, Event
<1>2. Good(m) /\ DOMAIN m = Fields /\ WorkShape(m.work[i])
  BY DEF IInv, Good, Shape
<1>3. /\ DOMAIN s = Fields /\ s.work = [m.work EXCEPT ![i] = w]
      /\ s.qps = m.qps /\ s.nextId = m.nextId /\ s.fences = m.fences /\ s.nextQp = m.nextQp
      /\ s.copying = m.copying /\ s.staging = m.staging /\ s.handoff = m.handoff
      /\ s.cqes = m.cqes
  BY <1>2 DEF Fields
<1>4. /\ WorkShape(w) /\ w.acked = m.work[i].acked /\ w.issued = m.work[i].issued
      /\ w.peer = m.work[i].peer /\ w.opcode = m.work[i].opcode
      /\ w.fenceThrough = m.work[i].fenceThrough /\ w.executed = m.work[i].executed
  BY <1>2 DEF WorkShape, WorkFields
<1> HIDE DEF s, w
<1>5. Good(s) /\ Same(m, s) /\ DOMAIN s.work = DOMAIN m.work
  BY <1>2, <1>3, <1>4, MarkKeeps
<1>6. Good(Acknowledged(s, i)) /\ Same(s, Acknowledged(s, i))
  BY <1>5, AcknowledgedKeeps
<1> QED
  BY <1>1, <1>5, <1>6, SameComposes, EventStep

LEMMA OperationStep ==
    ASSUME IInv, NEW i \in DOMAIN m.work, OperationComplete(i) \/ OperationFails(i)
    PROVE  IInv'
<1>1. PICK success \in BOOLEAN : m' = Completed(m, i, success)
  BY DEF OperationComplete, OperationFails, Event
<1>2. UNCHANGED <<conf, made, origin>>
  BY DEF OperationComplete, OperationFails, Event
<1>3. Good(Completed(m, i, success)) /\ Same(m, Completed(m, i, success))
  BY CompletedKeeps DEF IInv
<1> QED
  BY <1>1, <1>2, <1>3, EventStep

LEMMA NotifyFailureStep ==
    ASSUME IInv, NEW i \in DOMAIN m.work, NotifyFailure(i)
    PROVE  IInv'
<1>1. m' = Failed(m, i) /\ UNCHANGED <<conf, made, origin>>
  BY DEF NotifyFailure, Event
<1>2. Good(Failed(m, i)) /\ Same(m, Failed(m, i))
  BY FailedKeeps DEF IInv
<1> QED
  BY <1>1, <1>2, EventStep

LEMMA ObserveStep ==
    ASSUME IInv, Observe
    PROVE  IInv'
<1> DEFINE cqe == Head(m.cqes)
           gone == Retired(m, cqe)
           n == [m EXCEPT !.cqes = Tail(@)]
           s == Freed(n, cqe.key, gone)
           t == IF StagingOf(m, gone) > 0 THEN PumpSourceStaging(s) ELSE s
           u == Pump(t, {cqe.key})
           v == Progress(u, cqe.key)
           x == [v EXCEPT !.quiet = @ \ QuietReady(v)]
<1>1. m.cqes # <<>> /\ UNCHANGED <<conf, made, origin>> /\ m' = x
  <2> DEFINE told == {m.work[i].call : i \in gone} \ {m.work[i].call : i \in DOMAIN m.work \ gone}
  <2>1. CheckQuiet(v, told)
    BY DEF Observe
  <2> HIDE DEF told, v
  <2>2. m' = x
    BY <2>1 DEF CheckQuiet
  <2> QED
    BY <2>2 DEF Observe
<1>2. /\ Good(m) /\ DOMAIN m = Fields
      /\ m.cqes \in Seq([key : Keys, through : Ids(m)])
  BY DEF IInv, Good, Shape
<1>3. /\ cqe \in [key : Keys, through : Ids(m)]
      /\ Tail(m.cqes) \in Seq([key : Keys, through : Ids(m)])
  BY <1>1, <1>2, FirstAndRest
<1>4. {cqe.key} \in SUBSET Keys /\ cqe.key \in Keys
  BY <1>3
<1>5. /\ DOMAIN n = Fields /\ n.cqes = Tail(m.cqes)
      /\ n.work = m.work /\ n.qps = m.qps /\ n.nextId = m.nextId /\ n.fences = m.fences
      /\ n.nextQp = m.nextQp /\ n.copying = m.copying /\ n.staging = m.staging
      /\ n.handoff = m.handoff
  BY <1>2 DEF Fields
<1> HIDE DEF n, cqe, gone
<1>6. Ids(n) = Ids(m)
  BY <1>5 DEF Ids
<1>7. Shape(n)
  BY <1>2, <1>3, <1>5, <1>6 DEF Good, Shape
<1>8. Good(n) /\ Same(m, n)
  BY <1>2, <1>5, <1>7, WorksStay
<1>9. Good(s) /\ Same(n, s)
  BY <1>8, FreedKeeps
<1> HIDE DEF s
<1>10. Good(t) /\ Same(s, t)
  <2>1. Same(s, s)
    BY DEF Same
  <2> QED
    BY <1>9, <2>1, PumpSourceStagingKeeps
<1> HIDE DEF t
<1>11. Good(u) /\ Same(t, u)
  BY <1>4, <1>10, PumpKeeps
<1> HIDE DEF u
<1>12. Good(v) /\ Same(u, v)
  BY <1>4, <1>11, ProgressKeeps
<1> HIDE DEF v
<1>13. DOMAIN v = Fields
  BY <1>12 DEF Good, Shape
<1>14. /\ DOMAIN x = Fields
       /\ x.work = v.work /\ x.qps = v.qps /\ x.nextId = v.nextId /\ x.copying = v.copying
       /\ x.staging = v.staging /\ x.handoff = v.handoff /\ x.cqes = v.cqes
       /\ x.fences = v.fences /\ x.nextQp = v.nextQp
  BY <1>13 DEF Fields
<1> HIDE DEF x
<1>15. Good(x) /\ Same(v, x)
  BY <1>12, <1>14, Alike DEF Same
<1>16. Same(m, x)
  <2>1. Same(m, s)
    BY <1>8, <1>9, SameComposes
  <2>2. Same(m, u)
    BY <1>10, <1>11, <2>1, SameComposes
  <2> QED
    BY <1>12, <1>15, <2>2, SameComposes
<1> QED
  BY <1>1, <1>15, <1>16, EventStep

-----------------------------------------------------------------------------
(* SubmitOperation.                                                        *)

\* A call is cut into some works, of its opcode or the signal of a put.
LEMMA PiecesAre ==
    ASSUME conf \in Confs, NEW call, call.bytes \in Nat \ {0}
    PROVE  /\ Len(Pieces(call)) \in Nat \ {0}
           /\ \A n \in 1 .. Len(Pieces(call)) :
                /\ Pieces(call)[n].opcode \in {call.opcode, "SIGNAL"}
                /\ Pieces(call)[n].bytes \in Nat
<1> DEFINE split == Staged /\ (HasSourcePayload(call.opcode) \/ call.opcode = "READ")
           chunk == IF split THEN conf.stagingChunk ELSE call.bytes
           chunks == 1 + (call.bytes - 1) \div chunk
           Piece(n) == [opcode |-> call.opcode,
                        bytes |-> Min({chunk, call.bytes - (n - 1) * chunk})]
           signal == [opcode |-> "SIGNAL", bytes |-> 1]
           a == [n \in 1 .. chunks |-> Piece(n)]
           b == IF call.opcode = "PUT_SIGNAL" THEN <<signal>> ELSE <<>>
           T == [opcode : {call.opcode, "SIGNAL"}, bytes : Nat]
<1>1. Pieces(call) = a \o b
  BY DEF Pieces
<1>2. chunk \in Nat \ {0}
  BY SubmissionAssumption DEF Staged
<1> HIDE DEF chunk
<1> DEFINE x == call.bytes - 1
<1>3. x \in Nat /\ call.bytes = x + 1
  OBVIOUS
<1> HIDE DEF x
<1>4. x \div chunk \in Nat /\ chunks = 1 + (x \div chunk) /\ chunks \in Nat \ {0}
  <2>1. x \div chunk \in Nat
    BY <1>2, <1>3
  <2> QED
    BY <2>1 DEF x
<1>5. ASSUME NEW n \in 1 .. chunks PROVE Piece(n) \in T
  <2> DEFINE d == x \div chunk
             left == call.bytes - (n - 1) * chunk
  <2>1. d \in Nat /\ n - 1 \in Nat /\ n - 1 <= d /\ d * chunk <= x
    BY <1>2, <1>3, <1>4
  <2>2. (n - 1) * chunk <= d * chunk /\ (n - 1) * chunk \in Nat /\ d * chunk \in Nat
    <3> HIDE DEF d
    <3> DEFINE e == d - (n - 1)
    <3>1. e \in Nat /\ d = (n - 1) + e
      BY <2>1
    <3> HIDE DEF e
    <3>2. e * chunk \in Nat /\ (n - 1) * chunk \in Nat
      BY <1>2, <2>1, <3>1
    <3>3. d * chunk = (n - 1) * chunk + e * chunk
      BY <1>2, <2>1, <3>1
    <3> QED
      BY <3>2, <3>3
  <2>3. left \in Nat
    <3> HIDE DEF d
    <3> QED
      BY <1>3, <2>1, <2>2
  <2> HIDE DEF left
  <2>4. Min({chunk, left}) \in {chunk, left}
    <3>1. \E y \in {chunk, left} : \A z \in {chunk, left} : y <= z
      BY <1>2, <2>3
    <3> QED
      BY <3>1 DEF Min
  <2>5. Min({chunk, left}) \in Nat
    BY <1>2, <2>3, <2>4
  <2> QED
    BY <2>5 DEF left
<1> HIDE DEF chunks, Piece
<1>6. a \in Seq(T) /\ Len(a) = chunks
  <2> HIDE DEF T
  <2>1. a \in [1 .. chunks -> T]
    BY <1>5
  <2> QED
    BY <1>4, <2>1
<1>7. b \in Seq(T) /\ Len(b) \in Nat
  <2>1. signal \in T
    OBVIOUS
  <2> HIDE DEF T, signal
  <2> QED
    BY <2>1
<1> HIDE DEF a, b, T
<1>8. a \o b \in Seq(T) /\ Len(a \o b) = Len(a) + Len(b)
  BY <1>6, <1>7
<1>9. \A n \in 1 .. Len(a \o b) : (a \o b)[n] \in T
  BY <1>8
<1>10. \A y \in T : y.opcode \in {call.opcode, "SIGNAL"} /\ y.bytes \in Nat
  BY DEF T
<1>11. Len(a \o b) \in Nat \ {0}
  BY <1>4, <1>6, <1>7, <1>8
<1> QED
  BY <1>1, <1>9, <1>10, <1>11

\* The works of a call have fresh ids, the peer of the call and marks behind
\* every fence of that peer.
LEMMA CreatedIs ==
    ASSUME IInv, Call("submit")
    PROVE  LET call == conf.calls[made + 1]
               new == Created(call, made + 1)
           IN  \E n \in Nat \ {0} :
                 /\ DOMAIN new = m.nextId .. m.nextId + n - 1
                 /\ Cardinality(DOMAIN new) = n
                 /\ \A i \in DOMAIN new :
                      /\ WorkShape(new[i]) /\ new[i].peer = call.peer /\ new[i].call = made + 1
                      /\ new[i].opcode \in {call.opcode, "SIGNAL"} /\ new[i].bytes \in Nat
                      /\ ~new[i].acked /\ ~new[i].issued /\ ~new[i].executed
                      /\ ~new[i].stagingAllocated
                      /\ new[i].fenceThrough < i
                      /\ new[i].fenceThrough >= m.fences[call.peer]
                      /\ new[i].opcode = "SIGNAL" => new[i].fenceThrough = i - 1
                      /\ new[i].opcode = "READ" => \A j \in DOMAIN m.work :
                           KeyOf(m.work[j]) = KeyOf(new[i]) /\ HasSourcePayload(m.work[j].opcode)
                           => j <= new[i].fenceThrough
<1> DEFINE call == conf.calls[made + 1]
           new == Created(call, made + 1)
           pieces == Pieces(call)
           n == Len(pieces)
<1>1. /\ conf' = conf /\ call.peer \in conf.peers /\ call.bytes \in Nat \ {0}
      /\ call.producer \in {-1} \cup (0 .. conf.producers - 1)
  BY CallIs
<1>2. /\ conf \in Confs /\ m.nextId \in Nat \ {0} /\ m.nextQp \in [conf.peers -> Int]
      /\ m.fences \in [conf.peers -> 0 .. m.nextId - 1]
      /\ DOMAIN m.work \subseteq Ids(m)
  BY DEF IInv, Good, Shape, Calls
<1>3. conf.qpsPerPeer \in Nat \ {0} /\ conf.producers \in Nat \ {0}
  BY <1>2, SubmissionAssumption
<1>4. /\ n \in Nat \ {0}
      /\ \A j \in 1 .. n : pieces[j].opcode \in {call.opcode, "SIGNAL"} /\ pieces[j].bytes \in Nat
  BY <1>1, <1>2, PiecesAre
<1> DEFINE Piece(i) == pieces[i - m.nextId + 1]
           Qp(i) == QpOf(call, i, i - m.nextId + 1)
           Mark(i) == FenceOf(call.peer, Qp(i), Piece(i).opcode, i)
           ids == m.nextId .. m.nextId + n - 1
<1>5. new = [i \in ids |->
           [call |-> made + 1, peer |-> call.peer, qp |-> Qp(i),
            opcode |-> Piece(i).opcode, bytes |-> Piece(i).bytes,
            fenceThrough |-> Mark(i),
            acknowledged |-> 0, acked |-> FALSE, failed |-> FALSE,
            stagingAllocated |-> FALSE, issued |-> FALSE, executed |-> FALSE]]
  BY DEF Created
<1> HIDE DEF call, new, pieces
<1>6. ASSUME NEW i \in ids PROVE Qp(i) \in 0 .. conf.qpsPerPeer - 1
  <2>1. i \in Int /\ i - m.nextId + 1 \in Int
    BY <1>2, <1>4
  <2> DEFINE x == IF conf.mapQpByProducer
                    THEN IF call.producer = -1 THEN (i - 1) % conf.producers ELSE call.producer
                    ELSE m.nextQp[call.peer] + (i - m.nextId + 1) - 1
  <2>2. x \in Int
    <3>1. (i - 1) % conf.producers \in Int
      BY <1>3, <2>1
    <3>2. call.producer \in Int
      BY <1>1, <1>3
    <3>3. m.nextQp[call.peer] + (i - m.nextId + 1) - 1 \in Int
      BY <1>1, <1>2, <2>1
    <3> QED
      BY <3>1, <3>2, <3>3
  <2>3. Qp(i) = x % conf.qpsPerPeer
    BY DEF QpOf
  <2> HIDE DEF x
  <2> QED
    BY <1>3, <2>2, <2>3
<1>7. ASSUME NEW i \in ids
      PROVE  /\ Mark(i) \in Int /\ Mark(i) < i /\ Mark(i) >= m.fences[call.peer]
             /\ Piece(i).opcode = "SIGNAL" => Mark(i) = i - 1
             /\ Piece(i).opcode = "READ" => \A j \in DOMAIN m.work :
                  KeyOf(m.work[j]) = <<call.peer, Qp(i)>> /\ HasSourcePayload(m.work[j].opcode)
                  => j <= Mark(i)
             /\ Piece(i).opcode \in {call.opcode, "SIGNAL"} /\ Piece(i).bytes \in Nat
  <2> DEFINE f == m.fences[call.peer]
             op == Piece(i).opcode
             T == {f} \cup {j \in DOMAIN m.work : /\ KeyOf(m.work[j]) = <<call.peer, Qp(i)>>
                                                  /\ HasSourcePayload(m.work[j].opcode)}
  <2>1. f \in 0 .. m.nextId - 1 /\ i \in Nat /\ i >= m.nextId
    BY <1>1, <1>2, <1>4
  <2>2. Mark(i) = CASE op = "SIGNAL" -> i - 1
                    [] op = "READ"   -> Max(T)
                    [] OTHER         -> f
    BY DEF FenceOf
  <2>3. T \subseteq 0 .. m.nextId - 1 /\ f \in T
    BY <1>2, <2>1 DEF Ids
  <2>8. \A j \in DOMAIN m.work :
          KeyOf(m.work[j]) = <<call.peer, Qp(i)>> /\ HasSourcePayload(m.work[j].opcode) => j \in T
    OBVIOUS
  <2>9. Piece(i).opcode \in {call.opcode, "SIGNAL"} /\ Piece(i).bytes \in Nat
    <3>1. i - m.nextId + 1 \in 1 .. n
      BY <1>2, <1>4
    <3> QED
      BY <1>4, <3>1
  <2> HIDE DEF T, f, op, Mark
  <2>4. Max(T) \in 0 .. m.nextId - 1 /\ f <= Max(T) /\ \A y \in T : y <= Max(T)
    <3>1. m.nextId - 1 \in Nat /\ T # {}
      BY <1>2, <2>3
    <3>2. Max(T) \in T /\ \A y \in T : y <= Max(T)
      BY <2>3, <3>1, Largest
    <3> QED
      BY <2>3, <3>2
  <2>5. CASE op = "SIGNAL"
    <3>1. Mark(i) = i - 1
      BY <2>2, <2>5
    <3> QED
      BY <1>2, <2>1, <2>5, <2>9, <3>1 DEF f, op
  <2>6. CASE op = "READ"
    <3>1. Mark(i) = Max(T)
      BY <2>2, <2>6
    <3> DEFINE mx == Max(T)
    <3> HIDE DEF mx
    <3>2. Mark(i) = mx /\ mx \in 0 .. m.nextId - 1 /\ f <= mx /\ \A y \in T : y <= mx
      BY <2>4, <3>1 DEF mx
    <3>3. mx \in Int /\ mx < i /\ mx >= f
      BY <1>2, <2>1, <3>2
    <3> QED
      BY <2>6, <2>8, <2>9, <3>2, <3>3 DEF f, op
  <2>7. CASE op # "SIGNAL" /\ op # "READ"
    <3>1. Mark(i) = f
      BY <2>2, <2>7
    <3>2. f \in Int /\ f < i /\ f >= f
      BY <1>2, <2>1
    <3> QED
      BY <2>7, <2>9, <3>1, <3>2 DEF f, op
  <2> QED
    BY <2>5, <2>6, <2>7
<1> HIDE DEF Qp, Mark, Piece
<1>8. ASSUME NEW i \in ids
      PROVE  /\ WorkShape(new[i]) /\ new[i].peer = call.peer /\ new[i].call = made + 1
             /\ new[i].opcode \in {call.opcode, "SIGNAL"} /\ new[i].bytes \in Nat
             /\ ~new[i].acked /\ ~new[i].issued /\ ~new[i].executed
             /\ ~new[i].stagingAllocated
             /\ new[i].fenceThrough < i
             /\ new[i].fenceThrough >= m.fences[call.peer]
             /\ new[i].opcode = "SIGNAL" => new[i].fenceThrough = i - 1
             /\ new[i].opcode = "READ" => \A j \in DOMAIN m.work :
                  KeyOf(m.work[j]) = KeyOf(new[i]) /\ HasSourcePayload(m.work[j].opcode)
                  => j <= new[i].fenceThrough
  <2>1. /\ DOMAIN new[i] = WorkFields /\ new[i].call = made + 1 /\ new[i].bytes = Piece(i).bytes
        /\ new[i].peer = call.peer /\ new[i].qp = Qp(i) /\ new[i].stagingAllocated = FALSE
        /\ new[i].fenceThrough = Mark(i) /\ new[i].opcode = Piece(i).opcode
        /\ new[i].acked = FALSE /\ new[i].issued = FALSE /\ new[i].executed = FALSE
    BY <1>5 DEF WorkFields
  <2>2. WorkShape(new[i])
    BY <1>1, <1>6, <1>7, <2>1 DEF WorkShape
  <2>3. KeyOf(new[i]) = <<call.peer, Qp(i)>>
    BY <2>1 DEF KeyOf
  <2> QED
    BY <1>7, <2>1, <2>2, <2>3
<1>9. DOMAIN new = ids
  BY <1>5
<1>10. Cardinality(ids) = n
  <2> DEFINE last == m.nextId + n - 1
             N == m.nextId
  <2> HIDE DEF n
  <2>1. N \in Int /\ last \in Int /\ last = N + n - 1
    BY <1>2, <1>4
  <2> HIDE DEF last, N
  <2>2. Cardinality(N .. last) = IF N > last THEN 0 ELSE last - N + 1
    BY <2>1, FS_Interval
  <2>3. Cardinality(N .. last) = n
    BY <1>4, <2>1, <2>2
  <2> QED
    BY <2>3 DEF last, N
<1> QED
  BY <1>4, <1>8, <1>9, <1>10 DEF call, new

\* SubmitOperation, up to the point where the works are queued.
LEMMA NewWorksKeep ==
    ASSUME IInv, Call("submit"), NEW n \in Nat, NEW new, NEW s,
           new = Created(conf.calls[made + 1], made + 1),
           DOMAIN new = m.nextId .. m.nextId + n - 1,
           \A i \in DOMAIN new : /\ WorkShape(new[i]) /\ ~new[i].issued /\ ~new[i].executed,
           DOMAIN s = Fields,
           s.work = [i \in DOMAIN m.work \cup DOMAIN new |->
                       IF i \in DOMAIN new THEN new[i] ELSE m.work[i]],
           s.nextId = m.nextId + n, s.qps = m.qps, s.copying = m.copying,
           s.staging = m.staging, s.handoff = m.handoff, s.cqes = m.cqes
    PROVE  Good(s)
<1>1. /\ Good(m) /\ m.nextId \in Nat \ {0} /\ DOMAIN m.work \subseteq Ids(m)
      /\ IsLane(m.copying, m.nextId) /\ IsLane(m.staging, m.nextId)
      /\ m.handoff \in Seq(Seq(Ids(m))) /\ m.cqes \in Seq([key : Keys, through : Ids(m)])
  BY DEF IInv, Good, Shape
<1>2. Ids(m) \subseteq Ids(s) /\ DOMAIN new \subseteq Ids(s) /\ s.nextId \in Nat \ {0}
  BY <1>1 DEF Ids
<1>3. \A i \in Ids(m) : i \notin DOMAIN new
  BY <1>1 DEF Ids
<1>4. /\ DOMAIN s.work = DOMAIN m.work \cup DOMAIN new
      /\ \A i \in DOMAIN new : s.work[i] = new[i]
      /\ \A i \in DOMAIN m.work : s.work[i] = m.work[i]
  BY <1>1, <1>3
<1>5. Shape(s)
  <2>1. IsLane(s.copying, s.nextId) /\ IsLane(s.staging, s.nextId)
    BY <1>1 DEF IsLane
  <2>2. s.handoff \in Seq(Seq(Ids(s))) /\ s.cqes \in Seq([key : Keys, through : Ids(s)])
    <3> DEFINE A == Ids(m)
               B == Ids(s)
               CA == [key : Keys, through : A]
               CB == [key : Keys, through : B]
    <3>1. A \subseteq B
      BY <1>2
    <3> HIDE DEF A, B
    <3>2. CA \subseteq CB /\ Seq(A) \subseteq Seq(B)
      BY <3>1
    <3> DEFINE SA == Seq(A)
               SB == Seq(B)
    <3>3. SA \subseteq SB
      BY <3>2
    <3> HIDE DEF SA, SB, CA, CB
    <3>4. Seq(SA) \subseteq Seq(SB) /\ Seq(CA) \subseteq Seq(CB)
      BY <3>2, <3>3
    <3>5. m.handoff \in Seq(SA) /\ m.cqes \in Seq(CA)
      BY <1>1 DEF SA, CA, A
    <3>6. m.handoff \in Seq(SB) /\ m.cqes \in Seq(CB)
      BY <3>4, <3>5
    <3> QED
      BY <3>6 DEF SB, CB, B
  <2>3. \A k \in Keys : QueueShape(s.qps[k], Ids(s))
    <3> SUFFICES ASSUME NEW k \in Keys PROVE QueueShape(s.qps[k], Ids(s))
      OBVIOUS
    <3>1. QueueShape(m.qps[k], Ids(m))
      BY <1>1 DEF Good, Shape
    <3> QED
      BY <1>2, <3>1 DEF QueueShape
  <2>4. \A i \in DOMAIN s.work : WorkShape(s.work[i])
    BY <1>1, <1>4 DEF Good, Shape
  <2>5. DOMAIN s.qps = Keys /\ DOMAIN s.work \subseteq Ids(s)
    BY <1>1, <1>2, <1>4 DEF Good, Shape
  <2> QED
    BY <1>2, <2>1, <2>2, <2>3, <2>4, <2>5 DEF Shape
<1>6. Fenced(s)
  <2>1. ASSUME NEW k \in Keys, NEW i \in InPipe(s.qps[k]), i \in DOMAIN s.work
        PROVE  s.work[i].issued
    <3>1. QueueShape(m.qps[k], Ids(m))
      BY <1>1 DEF Good, Shape
    <3>2. i \in Ids(m)
      BY <2>1, <3>1, FinitelyHeld DEF QueueShape, InPipe
    <3>3. i \in DOMAIN m.work
      BY <1>3, <1>4, <2>1, <3>2
    <3> QED
      BY <1>1, <1>4, <2>1, <3>3 DEF Good, Fenced
  <2>2. ASSUME NEW i \in DOMAIN s.work, s.work[i].executed
        PROVE  s.work[i].issued
    BY <1>1, <1>4, <2>2 DEF Good, Fenced
  <2>3. ASSUME NEW i \in DOMAIN s.work, s.work[i].issued
        PROVE  ~BlockedByFence(s, s.work[i])
    <3>1. i \in DOMAIN m.work /\ s.work[i] = m.work[i]
      BY <1>4, <2>3
    <3>2. ~BlockedByFence(m, m.work[i])
      BY <1>1, <2>3, <3>1 DEF Good, Fenced
    <3>3. m.work[i].fenceThrough < m.nextId /\ m.work[i].fenceThrough \in Int
      BY <1>1, <3>1 DEF IInv, Calls, Good, Shape, WorkShape
    <3>4. \A j \in DOMAIN new : ~(j <= m.work[i].fenceThrough)
      BY <1>1, <3>3
    <3> QED
      BY <1>4, <3>1, <3>2, <3>4 DEF BlockedByFence
  <2> QED
    BY <2>1, <2>2, <2>3 DEF Fenced
<1> QED
  BY <1>5, <1>6 DEF Good

\* SubmitOperation: the state s with the new works, before they are queued, and
\* the calls they are booked on.
Submitted(s, n, new, ids) ==
    /\ new = Created(conf.calls[made + 1], made + 1)
    /\ DOMAIN new = m.nextId .. m.nextId + n - 1
    /\ \A i \in DOMAIN new :
         /\ WorkShape(new[i])
         /\ new[i].peer = conf.calls[made + 1].peer /\ new[i].call = made + 1
         /\ new[i].opcode \in {conf.calls[made + 1].opcode, "SIGNAL"} /\ new[i].bytes \in Nat
         /\ ~new[i].acked /\ ~new[i].issued /\ ~new[i].executed /\ ~new[i].stagingAllocated
         /\ new[i].fenceThrough < i
         /\ new[i].fenceThrough >= m.fences[conf.calls[made + 1].peer]
         /\ new[i].opcode = "SIGNAL" => new[i].fenceThrough = i - 1
         /\ new[i].opcode = "READ" => \A j \in DOMAIN m.work :
              KeyOf(m.work[j]) = KeyOf(new[i]) /\ HasSourcePayload(m.work[j].opcode)
              => j <= new[i].fenceThrough
    /\ DOMAIN s = Fields
    /\ s.work = [i \in DOMAIN m.work \cup DOMAIN new |->
                   IF i \in DOMAIN new THEN new[i] ELSE m.work[i]]
    /\ s.nextId = m.nextId + n /\ s.nextQp \in [conf.peers -> Int]
    /\ \A f \in Fields \ {"work", "nextId", "nextQp"} : s[f] = m[f]
    /\ Good(s)
    /\ ids = [j \in 1 .. n |-> m.nextId + j - 1] /\ ids \in Seq(Ids(s))
    /\ m' = IF conf.cpuHandoff THEN [s EXCEPT !.handoff = Append(@, ids)] ELSE Started(s, ids)
    /\ origin' \in Seq(1 .. made + 1) /\ Len(origin') = m.nextId + n - 1
    /\ DOMAIN origin' = 1 .. m.nextId + n - 1
    /\ \A i \in DOMAIN origin' :
         IF i < m.nextId THEN i \in DOMAIN origin /\ origin'[i] = origin[i]
                         ELSE i \in DOMAIN new /\ origin'[i] = made + 1

LEMMA SubmitIs ==
    ASSUME IInv, Submit
    PROVE  \E n, s, new, ids : n \in Nat \ {0} /\ Submitted(s, n, new, ids)
<1> DEFINE call == conf.calls[made + 1]
           new == Created(call, made + 1)
<1>1. /\ made \in Nat /\ made + 1 \in 1 .. Len(conf.calls) /\ Len(conf.calls) \in Nat
      /\ made' = made + 1 /\ conf' = conf /\ call.peer \in conf.peers /\ call.op = "submit"
      /\ Call("submit")
  BY CallIs DEF Submit
<1>2. PICK n \in Nat \ {0} :
        /\ DOMAIN new = m.nextId .. m.nextId + n - 1
        /\ Cardinality(DOMAIN new) = n
        /\ \A i \in DOMAIN new :
             /\ WorkShape(new[i]) /\ new[i].peer = call.peer /\ new[i].call = made + 1
             /\ new[i].opcode \in {call.opcode, "SIGNAL"} /\ new[i].bytes \in Nat
             /\ ~new[i].acked /\ ~new[i].issued /\ ~new[i].executed
             /\ ~new[i].stagingAllocated
             /\ new[i].fenceThrough < i
             /\ new[i].fenceThrough >= m.fences[call.peer]
             /\ new[i].opcode = "SIGNAL" => new[i].fenceThrough = i - 1
             /\ new[i].opcode = "READ" => \A j \in DOMAIN m.work :
                  KeyOf(m.work[j]) = KeyOf(new[i]) /\ HasSourcePayload(m.work[j].opcode)
                  => j <= new[i].fenceThrough
  BY <1>1, CreatedIs
<1> DEFINE ids == [j \in 1 .. n |-> m.nextId + j - 1]
           made1 == [j \in 1 .. n |-> made + 1]
           s == [m EXCEPT !.work = [i \in DOMAIN m.work \cup DOMAIN new |->
                                      IF i \in DOMAIN new THEN new[i] ELSE m.work[i]],
                          !.nextId = @ + n,
                          !.nextQp[call.peer] = IF conf.mapQpByProducer THEN @ ELSE @ + n]
           h == [s EXCEPT !.handoff = Append(@, ids)]
<1>3. /\ m' = IF conf.cpuHandoff THEN h ELSE Started(s, ids)
      /\ origin' = origin \o made1
  <2>1. SubmitOperation(call, made + 1)
    BY DEF Submit
  <2> HIDE DEF call
  <2> QED
    BY <1>2, <2>1 DEF SubmitOperation
<1>4. /\ Good(m) /\ Calls /\ DOMAIN m = Fields /\ m.nextId \in Nat \ {0}
      /\ DOMAIN m.work \subseteq Ids(m)
      /\ m.nextQp \in [conf.peers -> Int] /\ m.fences \in [conf.peers -> 0 .. m.nextId - 1]
  BY DEF IInv, Good, Shape, Calls
<1> HIDE DEF call, new
<1>5. /\ DOMAIN s = Fields
      /\ s.work = [i \in DOMAIN m.work \cup DOMAIN new |->
                     IF i \in DOMAIN new THEN new[i] ELSE m.work[i]]
      /\ s.nextId = m.nextId + n
      /\ s.nextQp = [m.nextQp EXCEPT ![call.peer] = IF conf.mapQpByProducer THEN @ ELSE @ + n]
      /\ \A f \in Fields \ {"work", "nextId", "nextQp"} : s[f] = m[f]
  BY <1>4 DEF Fields
<1> HIDE DEF s
<1>6. /\ s.qps = m.qps /\ s.copying = m.copying
      /\ s.staging = m.staging /\ s.handoff = m.handoff /\ s.cqes = m.cqes
  BY <1>5 DEF Fields
<1>7. Good(s)
  BY <1>1, <1>2, <1>5, <1>6, NewWorksKeep DEF new, call
<1>8. ids \in Seq(Ids(s))
  <2>1. \A j \in 1 .. n : m.nextId + j - 1 \in 1 .. m.nextId + n - 1
    BY <1>4
  <2>2. Ids(s) = 1 .. m.nextId + n - 1
    <3>1. s.nextId = m.nextId + n /\ m.nextId \in Nat
      BY <1>4, <1>5
    <3> QED
      BY <3>1 DEF Ids
  <2> QED
    BY <2>1, <2>2
<1>9. s.nextQp \in [conf.peers -> Int]
  BY <1>1, <1>4, <1>5
<1>10. /\ origin \in Seq(1 .. made) /\ Len(origin) = m.nextId - 1
       /\ DOMAIN origin = 1 .. m.nextId - 1 /\ \A i \in DOMAIN origin : origin[i] \in 1 .. made
  BY <1>4 DEF Calls
<1>11. /\ origin' \in Seq(1 .. made + 1) /\ Len(origin') = m.nextId + n - 1
       /\ DOMAIN origin' = 1 .. m.nextId + n - 1
       /\ \A i \in DOMAIN origin' :
            IF i < m.nextId THEN i \in DOMAIN origin /\ origin'[i] = origin[i]
                            ELSE i \in DOMAIN new /\ origin'[i] = made + 1
  <2>1. made1 \in Seq(1 .. made + 1) /\ Len(made1) = n /\ \A j \in 1 .. n : made1[j] = made + 1
    BY <1>1
  <2>2. origin \in Seq(1 .. made + 1)
    BY <1>1, <1>10
  <2>7. origin' = origin \o made1
    BY <1>3
  <2> HIDE DEF made1
  <2>3. /\ origin' \in Seq(1 .. made + 1) /\ Len(origin') = m.nextId - 1 + n
        /\ \A i \in 1 .. m.nextId - 1 + n :
             origin'[i] = IF i <= m.nextId - 1 THEN origin[i] ELSE made1[i - (m.nextId - 1)]
    <3>1. /\ origin' \in Seq(1 .. made + 1) /\ Len(origin') = Len(origin) + Len(made1)
          /\ \A i \in 1 .. Len(origin) + Len(made1) :
               origin'[i] = IF i <= Len(origin) THEN origin[i] ELSE made1[i - Len(origin)]
      <4> DEFINE T == 1 .. made + 1
      <4>1. made1 \in Seq(T) /\ origin \in Seq(T)
        BY <2>1, <2>2
      <4> HIDE DEF T
      <4>2. /\ origin \o made1 \in Seq(T) /\ Len(origin \o made1) = Len(origin) + Len(made1)
            /\ \A i \in 1 .. Len(origin) + Len(made1) :
                 (origin \o made1)[i] = IF i <= Len(origin) THEN origin[i] ELSE made1[i - Len(origin)]
        BY <4>1
      <4> QED
        BY <2>7, <4>2 DEF T
    <3>2. Len(origin) = m.nextId - 1 /\ Len(made1) = n
      BY <1>10, <2>1
    <3> QED
      BY <3>1, <3>2
  <2>4. m.nextId - 1 + n = m.nextId + n - 1 /\ DOMAIN origin' = 1 .. m.nextId - 1 + n
    BY <1>4, <2>3
  <2>5. ASSUME NEW i \in 1 .. m.nextId - 1 + n, i < m.nextId
        PROVE  i \in DOMAIN origin /\ origin'[i] = origin[i]
    BY <1>4, <1>10, <2>3, <2>5
  <2>6. ASSUME NEW i \in 1 .. m.nextId - 1 + n, ~(i < m.nextId)
        PROVE  i \in DOMAIN new /\ origin'[i] = made + 1
    <3>1. /\ i - (m.nextId - 1) \in 1 .. n /\ ~(i <= m.nextId - 1)
          /\ i \in m.nextId .. m.nextId + n - 1
      BY <1>4, <2>6
    <3> QED
      BY <1>2, <2>1, <2>3, <3>1
  <2> QED
    BY <2>3, <2>4, <2>5, <2>6
<1> HIDE DEF ids
<1>12. Submitted(s, n, new, ids)
  BY <1>2, <1>3, <1>5, <1>7, <1>8, <1>9, <1>11 DEF Submitted, new, call, ids
<1> QED
  BY <1>2, <1>12

LEMMA SubmitStep ==
    ASSUME IInv, Submit
    PROVE  IInv'
<1> DEFINE call == conf.calls[made + 1]
<1>1. /\ made \in Nat /\ made + 1 \in 1 .. Len(conf.calls) /\ Len(conf.calls) \in Nat
      /\ made' = made + 1 /\ conf' = conf /\ call.peer \in conf.peers /\ call.op = "submit"
  BY CallIs DEF Submit
<1>2. PICK n, s, new, ids : n \in Nat \ {0} /\ Submitted(s, n, new, ids)
  BY SubmitIs
<1> n \in Nat \ {0}
  BY <1>2
<1>3. /\ DOMAIN new = m.nextId .. m.nextId + n - 1
      /\ \A i \in DOMAIN new :
           /\ WorkShape(new[i]) /\ new[i].peer = call.peer
           /\ new[i].fenceThrough < i
           /\ new[i].fenceThrough >= m.fences[call.peer]
           /\ new[i].opcode = "SIGNAL" => new[i].fenceThrough = i - 1
  BY <1>2 DEF Submitted
<1>4. /\ Good(m) /\ Calls /\ m.nextId \in Nat \ {0} /\ DOMAIN m.work \subseteq Ids(m)
      /\ m.fences \in [conf.peers -> 0 .. m.nextId - 1]
  BY DEF IInv, Good, Shape, Calls
<1> HIDE DEF call
<1>5. /\ DOMAIN s = Fields
      /\ s.work = [i \in DOMAIN m.work \cup DOMAIN new |->
                     IF i \in DOMAIN new THEN new[i] ELSE m.work[i]]
      /\ s.nextId = m.nextId + n /\ s.nextQp \in [conf.peers -> Int] /\ s.fences = m.fences
      /\ Good(s) /\ ids \in Seq(Ids(s))
  BY <1>2 DEF Submitted, Fields
<1>6. Good(m') /\ Same(s, m')
  <2> DEFINE h == [s EXCEPT !.handoff = Append(@, ids)]
  <2>1. CASE m' = h
    <3>1. /\ DOMAIN h = Fields /\ h.handoff = Append(s.handoff, ids)
          /\ h.work = s.work /\ h.qps = s.qps /\ h.nextId = s.nextId /\ h.fences = s.fences
          /\ h.nextQp = s.nextQp /\ h.copying = s.copying /\ h.staging = s.staging
          /\ h.cqes = s.cqes
      BY <1>5 DEF Fields
    <3> HIDE DEF h
    <3>2. h.handoff \in Seq(Seq(Ids(s)))
      <4>1. s.handoff \in Seq(Seq(Ids(s)))
        BY <1>5 DEF Good, Shape
      <4> QED
        BY <1>5, <3>1, <4>1
    <3>3. Ids(h) = Ids(s)
      BY <3>1 DEF Ids
    <3>4. Shape(h)
      BY <1>5, <3>1, <3>2, <3>3 DEF Good, Shape
    <3>5. Good(h) /\ Same(s, h)
      BY <1>5, <3>1, <3>4, WorksStay
    <3> QED
      BY <2>1, <3>5
  <2>2. CASE m' = Started(s, ids)
    BY <1>5, <2>2, StartedKeeps
  <2>3. m' = h \/ m' = Started(s, ids)
    BY <1>2 DEF Submitted
  <2> QED
    BY <2>1, <2>2, <2>3
<1>7. Good(m)'
  BY <1>1, <1>6, GoodNext
<1>8. /\ origin \in Seq(1 .. made) /\ Len(origin) = m.nextId - 1
       /\ DOMAIN origin = 1 .. m.nextId - 1 /\ \A i \in DOMAIN origin : origin[i] \in 1 .. made
  BY <1>4 DEF Calls
<1>9. /\ origin' \in Seq(1 .. made + 1) /\ Len(origin') = m.nextId + n - 1
       /\ DOMAIN origin' = 1 .. m.nextId + n - 1
       /\ \A i \in DOMAIN origin' :
            IF i < m.nextId THEN i \in DOMAIN origin /\ origin'[i] = origin[i]
                            ELSE i \in DOMAIN new /\ origin'[i] = made + 1
  BY <1>2 DEF Submitted
<1>10. /\ m'.nextId = m.nextId + n /\ m'.fences = m.fences
       /\ m'.nextQp \in [conf.peers -> Int]
       /\ \A j \in DOMAIN m'.work :
            /\ j \in DOMAIN s.work
            /\ m'.work[j].peer = s.work[j].peer /\ m'.work[j].opcode = s.work[j].opcode
            /\ m'.work[j].fenceThrough = s.work[j].fenceThrough
  BY <1>5, <1>6 DEF Same
<1>11. m.fences \in [conf.peers -> 0 .. m.nextId + n - 1]
  BY <1>4
<1>12. ASSUME NEW i \in DOMAIN origin', NEW c \in 1 .. made, origin'[i] < c
       PROVE  i \in DOMAIN origin /\ origin[i] < c
  BY <1>1, <1>9, <1>12
<1>13. ASSUME NEW c \in 1 .. made + 1, conf.calls[c].op = "fence"
       PROVE  /\ c \in 1 .. made
              /\ \A i \in DOMAIN origin' : origin'[i] < c => i <= m.fences[conf.calls[c].peer]
  <2>1. c \in 1 .. made
    BY <1>1, <1>13 DEF call
  <2> QED
    BY <1>4, <1>12, <1>13, <2>1 DEF Calls
<1>14. ASSUME NEW j \in DOMAIN m'.work
       PROVE  /\ m'.work[j].peer = conf.calls[origin'[j]].peer
              /\ m'.work[j].fenceThrough < m.nextId + n
              /\ m'.work[j].opcode = "SIGNAL" => m'.work[j].fenceThrough = j - 1
              /\ \A c \in 1 .. made + 1 :
                   /\ conf.calls[c].op = "fence" /\ c < origin'[j]
                   /\ conf.calls[c].peer = m'.work[j].peer
                   => \A i \in DOMAIN origin' : origin'[i] < c => i <= m'.work[j].fenceThrough
  <2>1. CASE j \in DOMAIN new
    <3>1. j \in m.nextId .. m.nextId + n - 1 /\ s.work[j] = new[j]
      BY <1>3, <1>5, <2>1
    <3>2. j \in DOMAIN origin' /\ ~(j < m.nextId)
      BY <1>4, <1>9, <3>1
    <3>3. origin'[j] = made + 1
      BY <1>9, <3>2
    <3>4. new[j].fenceThrough \in Int /\ m.fences[call.peer] \in Int
      BY <1>1, <1>3, <1>4, <2>1 DEF WorkShape
    <3>5. /\ m'.work[j].peer = call.peer /\ m'.work[j].fenceThrough = new[j].fenceThrough
          /\ m'.work[j].opcode = new[j].opcode
      BY <1>3, <1>10, <2>1, <3>1
    <3>6. new[j].fenceThrough < m.nextId + n
      BY <1>3, <1>4, <2>1, <3>1, <3>4
    <3>7. ASSUME NEW c \in 1 .. made + 1, conf.calls[c].op = "fence",
                 conf.calls[c].peer = m'.work[j].peer, NEW i \in DOMAIN origin', origin'[i] < c
          PROVE  i <= m'.work[j].fenceThrough
      <4>1. i <= m.fences[call.peer]
        BY <1>13, <3>5, <3>7
      <4>2. m.fences[call.peer] <= new[j].fenceThrough /\ i \in Int
        BY <1>3, <1>4, <1>9, <2>1, <3>4
      <4> QED
        BY <3>4, <3>5, <4>1, <4>2
    <3> QED
      BY <1>3, <2>1, <3>3, <3>5, <3>6, <3>7 DEF call
  <2>2. CASE j \notin DOMAIN new
    <3>1. j \in DOMAIN m.work /\ s.work[j] = m.work[j]
      BY <1>5, <1>10, <2>2
    <3>2. j \in DOMAIN origin' /\ j < m.nextId
      BY <1>4, <1>9, <3>1 DEF Ids
    <3>3. origin'[j] = origin[j]
      BY <1>9, <3>2
    <3>4. /\ m'.work[j].peer = m.work[j].peer
          /\ m'.work[j].fenceThrough = m.work[j].fenceThrough
          /\ m'.work[j].opcode = m.work[j].opcode /\ m.work[j].fenceThrough \in Int
      BY <1>4, <1>10, <3>1 DEF Good, Shape, WorkShape
    <3>5. /\ m.work[j].peer = conf.calls[origin[j]].peer
          /\ m.work[j].fenceThrough < m.nextId
          /\ m.work[j].opcode = "SIGNAL" => m.work[j].fenceThrough = j - 1
      BY <1>4, <3>1 DEF Calls
    <3>6. m.work[j].fenceThrough < m.nextId + n
      BY <1>4, <3>4, <3>5
    <3>7. ASSUME NEW c \in 1 .. made + 1, conf.calls[c].op = "fence", c < origin'[j],
                 conf.calls[c].peer = m'.work[j].peer, NEW i \in DOMAIN origin', origin'[i] < c
          PROVE  i <= m'.work[j].fenceThrough
      <4>1. c \in 1 .. made
        BY <1>13, <3>7
      <4>2. i \in DOMAIN origin /\ origin[i] < c
        BY <1>12, <3>7, <4>1
      <4> QED
        BY <1>4, <3>1, <3>3, <3>4, <3>7, <4>1, <4>2 DEF Calls
    <3> QED
      BY <3>3, <3>4, <3>5, <3>6, <3>7
  <2> QED
    BY <2>1, <2>2
<1>15. \A i \in DOMAIN origin' : conf.calls[origin'[i]].op = "submit"
  BY <1>1, <1>4, <1>9 DEF Calls, call
<1>16. Calls'
  <2>1. conf \in Confs /\ made + 1 \in 0 .. Len(conf.calls)
    BY <1>1, <1>4 DEF Calls
  <2>2. Len(origin') = m'.nextId - 1 /\ m'.fences \in [conf.peers -> 0 .. m'.nextId - 1]
    BY <1>4, <1>9, <1>10, <1>11
  <2>3. \A c \in 1 .. made + 1 : conf.calls[c].op = "fence" =>
          \A i \in DOMAIN origin' : origin'[i] < c => i <= m'.fences[conf.calls[c].peer]
    BY <1>10, <1>13
  <2>4. \A j \in DOMAIN m'.work :
          /\ m'.work[j].peer = conf.calls[origin'[j]].peer
          /\ m'.work[j].fenceThrough < m'.nextId
          /\ m'.work[j].opcode = "SIGNAL" => m'.work[j].fenceThrough = j - 1
          /\ \A c \in 1 .. made + 1 :
               /\ conf.calls[c].op = "fence" /\ c < origin'[j]
               /\ conf.calls[c].peer = m'.work[j].peer
               => \A i \in DOMAIN origin' : origin'[i] < c => i <= m'.work[j].fenceThrough
    BY <1>10, <1>14
  <2> QED
    BY <1>1, <1>9, <1>10, <1>15, <2>1, <2>2, <2>3, <2>4 DEF Calls
<1> QED
  BY <1>7, <1>16 DEF IInv

-----------------------------------------------------------------------------
(* What the callbacks are told.                                            *)

Answers == {<<>>, <<TRUE>>, <<FALSE>>}

\* After n calls with the works and replies org and rep: a request is told when
\* its last work is observed and not before, those in due being about to be; a
\* wait for quiet is behind all that was submitted before it; nobody is told of
\* a failure before one has happened.
Told(s, due, n, org, rep) ==
    /\ \A i \in DOMAIN s.work : s.work[i].call = org[i]
    /\ rep \in [1 .. Len(conf.calls) -> Answers]
    /\ \A c \in 1 .. Len(conf.calls) : n < c => rep[c] = <<>>
    /\ \A c \in 1 .. n : conf.calls[c].op = "submit" =>
         (rep[c] = <<>> <=> c \in due \/ \E i \in DOMAIN s.work : org[i] = c)
    /\ s.succeeded \in [1 .. Len(conf.calls) -> BOOLEAN] /\ s.failed \in Nat
    /\ s.failed = 0 => \A c \in 1 .. Len(conf.calls) : s.succeeded[c] /\ rep[c] # <<FALSE>>
    /\ \A w \in s.quiet :
         /\ w.call \in 1 .. n /\ conf.calls[w.call].op = "quiet" /\ rep[w.call] = <<>>
         /\ w.watermark \in Nat
         /\ \A i \in DOMAIN org : org[i] < w.call => i <= w.watermark
    /\ \A v, w \in s.quiet : v.call = w.call => v = w
    /\ \A c \in 1 .. n : conf.calls[c].op = "quiet" /\ rep[c] # <<>> =>
         \A d \in 1 .. c : conf.calls[d].op = "submit" =>
           rep[d] # <<>> /\ (rep[c] = <<TRUE>> => rep[d] = <<TRUE>>)

\* From s to t no work goes and nothing is told.
Silent(s, t) ==
    /\ DOMAIN t.work = DOMAIN s.work
    /\ \A i \in DOMAIN s.work : t.work[i].call = s.work[i].call
    /\ t.quiet = s.quiet /\ t.succeeded = s.succeeded /\ t.failed = s.failed

\* The records of the state have their fields.
Formed(s) ==
    DOMAIN s = Fields /\ \A i \in DOMAIN s.work : DOMAIN s.work[i] = WorkFields

LEMMA GoodFormed ==
    ASSUME NEW s, Good(s)
    PROVE  Formed(s)
BY DEF Good, Shape, WorkShape, Formed

LEMMA SilentComposes ==
    ASSUME NEW s, NEW t, NEW u, Silent(s, t), Silent(t, u)
    PROVE  Silent(s, u)
BY DEF Silent

LEMMA SilentTold ==
    ASSUME NEW s, NEW t, NEW due, NEW n, NEW org, NEW rep, Told(s, due, n, org, rep), Silent(s, t)
    PROVE  Told(t, due, n, org, rep)
<1>1. /\ DOMAIN t.work = DOMAIN s.work /\ t.quiet = s.quiet /\ t.succeeded = s.succeeded
      /\ t.failed = s.failed /\ \A i \in DOMAIN s.work : t.work[i].call = s.work[i].call
  BY DEF Silent
<1>2. \A i \in DOMAIN t.work : t.work[i].call = org[i]
  BY <1>1 DEF Told
<1>3. \A c \in 1 .. n : conf.calls[c].op = "submit" =>
        (rep[c] = <<>> <=> c \in due \/ \E i \in DOMAIN t.work : org[i] = c)
  BY <1>1 DEF Told
<1> QED
  BY <1>1, <1>2, <1>3 DEF Told

\* Works that stay as they are are not told of.
LEMMA WorksSilent ==
    ASSUME NEW s, NEW t, Formed(s), DOMAIN t = Fields, t.work = s.work,
           t.quiet = s.quiet, t.succeeded = s.succeeded, t.failed = s.failed
    PROVE  Silent(s, t) /\ Formed(t)
BY DEF Silent, Formed

LEMMA PumpSilent ==
    ASSUME NEW s, Formed(s), NEW keys
    PROVE  Silent(s, Pump(s, keys)) /\ Formed(Pump(s, keys))
<1> DEFINE p == [k \in keys |-> Pumped(s, k)]
           t == Taking(s, keys, p)
           taken == UNION {ToSet(p[k].taken) : k \in keys}
<1>1. Pump(s, keys) = t
  BY PumpIs
<1>2. DOMAIN s = Fields /\ \A i \in DOMAIN s.work : DOMAIN s.work[i] = WorkFields
  BY DEF Formed
<1> HIDE DEF p
<1>3. /\ t.work = [i \in DOMAIN s.work |->
                     IF i \in taken THEN [s.work[i] EXCEPT !.issued = TRUE] ELSE s.work[i]]
      /\ t.quiet = s.quiet /\ t.succeeded = s.succeeded /\ t.failed = s.failed
      /\ DOMAIN t = Fields
  BY <1>2 DEF Taking, Fields
<1> HIDE DEF t, taken
<1>4. Silent(s, t) /\ Formed(t)
  BY <1>2, <1>3 DEF Silent, Formed, WorkFields
<1> QED
  BY <1>1, <1>4

LEMMA PumpSourceStagingSilent ==
    ASSUME NEW s, Formed(s)
    PROVE  Silent(s, PumpSourceStaging(s)) /\ Formed(PumpSourceStaging(s))
<1> DEFINE t == PumpSourceStaging(s)
           count == Max({n \in 0 .. Len(s.staging) :
                      \A j \in 1 .. n : s.used + Bytes(s.staging, j) <= conf.stagingBuffer})
           ids == {e.id : e \in ToSet(SubSeq(s.staging, 1, count))}
<1>1. DOMAIN s = Fields /\ \A i \in DOMAIN s.work : DOMAIN s.work[i] = WorkFields
  BY DEF Formed
<1>2. /\ t.work = [i \in DOMAIN s.work |-> [s.work[i] EXCEPT !.stagingAllocated = @ \/ i \in ids]]
      /\ t.quiet = s.quiet /\ t.succeeded = s.succeeded /\ t.failed = s.failed
      /\ DOMAIN t = Fields
  BY <1>1 DEF PumpSourceStaging, Fields
<1> HIDE DEF t, ids
<1>3. Silent(s, t) /\ Formed(t)
  BY <1>1, <1>2 DEF Silent, Formed, WorkFields
<1> QED
  BY <1>3 DEF t

LEMMA RingSilent ==
    ASSUME NEW s, Formed(s), NEW keys
    PROVE  Silent(s, Ring(s, keys)) /\ Formed(Ring(s, keys))
<1>1. DOMAIN s = Fields
  BY DEF Formed
<1>2. /\ Ring(s, keys).work = s.work /\ Ring(s, keys).quiet = s.quiet
      /\ Ring(s, keys).succeeded = s.succeeded /\ Ring(s, keys).failed = s.failed
      /\ DOMAIN Ring(s, keys) = Fields
  BY <1>1 DEF Ring, Fields
<1> QED
  BY <1>2, WorksSilent

LEMMA ProgressSilent ==
    ASSUME NEW s, Formed(s), NEW k
    PROVE  Silent(s, Progress(s, k)) /\ Formed(Progress(s, k))
<1> DEFINE t == Progress(s, k)
<1>1. DOMAIN s = Fields
  BY DEF Formed
<1>2. /\ t.work = s.work /\ t.quiet = s.quiet /\ t.succeeded = s.succeeded /\ t.failed = s.failed
      /\ DOMAIN t = Fields
  BY <1>1 DEF Progress, Fields
<1> QED
  BY <1>2, WorksSilent

LEMMA EnqueuedSilent ==
    ASSUME NEW s, Formed(s), NEW ids
    PROVE  Silent(s, Enqueued(s, ids)) /\ Formed(Enqueued(s, ids))
<1> DEFINE Of(k) == {i \in ids : KeyOf(s.work[i]) = k}
           At(k) == ToSet(s.qps[k].waiting) \cup Of(k)
           t == [s EXCEPT !.qps = [k \in DOMAIN s.qps |->
                    [s.qps[k] EXCEPT !.waiting = Ascending(At(k))]]]
           keys == {k \in DOMAIN s.qps : Of(k) # {}}
<1>1. Enqueued(s, ids) = Pump(t, keys)
  BY DEF Enqueued
<1>2. DOMAIN s = Fields
  BY DEF Formed
<1>3. /\ t.work = s.work /\ t.quiet = s.quiet /\ t.succeeded = s.succeeded /\ t.failed = s.failed
      /\ DOMAIN t = Fields
  BY <1>2 DEF Fields
<1> HIDE DEF t, keys
<1>4. Silent(s, t) /\ Formed(t)
  BY <1>3, WorksSilent
<1>5. Silent(t, Pump(t, keys)) /\ Formed(Pump(t, keys))
  BY <1>4, PumpSilent
<1> QED
  BY <1>1, <1>4, <1>5, SilentComposes

LEMMA StartedSilent ==
    ASSUME NEW s, Formed(s), NEW ids
    PROVE  Silent(s, Started(s, ids)) /\ Formed(Started(s, ids))
<1> DEFINE t == [s EXCEPT !.staging = @ \o Copies(s, ids)]
           u == Enqueued(t, Direct(s, ids))
<1>1. Started(s, ids) = PumpSourceStaging(u)
  BY StartedIs
<1>2. DOMAIN s = Fields
  BY DEF Formed
<1>3. /\ t.work = s.work /\ t.quiet = s.quiet /\ t.succeeded = s.succeeded /\ t.failed = s.failed
      /\ DOMAIN t = Fields
  BY <1>2 DEF Fields
<1> HIDE DEF t
<1>4. Silent(s, t) /\ Formed(t)
  BY <1>3, WorksSilent
<1>5. Silent(t, u) /\ Formed(u)
  BY <1>4, EnqueuedSilent
<1> HIDE DEF u
<1>6. Silent(u, PumpSourceStaging(u)) /\ Formed(PumpSourceStaging(u))
  BY <1>5, PumpSourceStagingSilent
<1> QED
  BY <1>1, <1>4, <1>5, <1>6, SilentComposes

\* One work is marked.
LEMMA MarkSilent ==
    ASSUME NEW s, Formed(s), NEW i \in DOMAIN s.work, NEW t, NEW w,
           DOMAIN t = Fields, t.work = [s.work EXCEPT ![i] = w],
           DOMAIN w = WorkFields, w.call = s.work[i].call,
           t.quiet = s.quiet, t.succeeded = s.succeeded, t.failed = s.failed
    PROVE  Silent(s, t) /\ Formed(t)
<1>1. /\ DOMAIN t.work = DOMAIN s.work
      /\ \A j \in DOMAIN s.work : t.work[j] = IF j = i THEN w ELSE s.work[j]
  OBVIOUS
<1> QED
  BY <1>1 DEF Silent, Formed

LEMMA AcknowledgedSilent ==
    ASSUME NEW s, Formed(s), NEW i \in DOMAIN s.work
    PROVE  Silent(s, Acknowledged(s, i)) /\ Formed(Acknowledged(s, i))
<1> DEFINE w == [s.work[i] EXCEPT !.acked = TRUE]
           t == [s EXCEPT !.work[i].acked = TRUE]
           u == Progress(t, KeyOf(s.work[i]))
           v == Pump(u, DOMAIN u.qps)
<1>1. Acknowledged(s, i) = v
  BY AcknowledgedIs
<1>2. DOMAIN s = Fields /\ DOMAIN s.work[i] = WorkFields
  BY DEF Formed
<1>3. /\ t.work = [s.work EXCEPT ![i] = w] /\ DOMAIN w = WorkFields /\ w.call = s.work[i].call
      /\ t.quiet = s.quiet /\ t.succeeded = s.succeeded /\ t.failed = s.failed
      /\ DOMAIN t = Fields
  BY <1>2 DEF Fields, WorkFields
<1> HIDE DEF t, w
<1>4. Silent(s, t) /\ Formed(t)
  BY <1>3, MarkSilent
<1>5. Silent(t, u) /\ Formed(u)
  BY <1>4, ProgressSilent
<1> HIDE DEF u
<1>6. Silent(u, v) /\ Formed(v)
  BY <1>5, PumpSilent
<1> HIDE DEF v
<1> QED
  BY <1>1, <1>4, <1>5, <1>6, SilentComposes


\* A failure is counted before anyone is told of it.
LEMMA FailedTold ==
    ASSUME NEW s, Formed(s), NEW i \in DOMAIN s.work, s.work[i].call \in 1 .. Len(conf.calls),
           NEW due, NEW n, NEW org, NEW rep, Told(s, due, n, org, rep)
    PROVE  /\ Told(Failed(s, i), due, n, org, rep) /\ Formed(Failed(s, i))
           /\ DOMAIN Failed(s, i).work = DOMAIN s.work
<1> DEFINE w == [s.work[i] EXCEPT !.failed = TRUE]
           t == [s EXCEPT !.work[i].failed = TRUE,
                          !.succeeded[s.work[i].call] = FALSE,
                          !.failed = @ + 1]
<1>1. Failed(s, i) = s \/ Failed(s, i) = t
  BY DEF Failed
<1>2. CASE Failed(s, i) = t
  <2>1. DOMAIN s = Fields /\ \A j \in DOMAIN s.work : DOMAIN s.work[j] = WorkFields
    BY DEF Formed
  <2>2. /\ DOMAIN t = Fields /\ t.work = [s.work EXCEPT ![i] = w]
        /\ t.quiet = s.quiet /\ t.failed = s.failed + 1
        /\ t.succeeded = [s.succeeded EXCEPT ![s.work[i].call] = FALSE]
        /\ DOMAIN w = WorkFields /\ w.call = s.work[i].call
    BY <2>1 DEF Fields, WorkFields
  <2> HIDE DEF t, w
  <2>3. /\ DOMAIN t.work = DOMAIN s.work
        /\ \A j \in DOMAIN s.work : t.work[j].call = s.work[j].call /\ DOMAIN t.work[j] = WorkFields
    BY <2>1, <2>2
  <2>4. /\ t.failed \in Nat /\ t.failed # 0
        /\ t.succeeded \in [1 .. Len(conf.calls) -> BOOLEAN]
    BY <2>2 DEF Told
  <2>5. \A j \in DOMAIN t.work : t.work[j].call = org[j]
    BY <2>3 DEF Told
  <2>6. \A c \in 1 .. n : conf.calls[c].op = "submit" =>
          (rep[c] = <<>> <=> c \in due \/ \E j \in DOMAIN t.work : org[j] = c)
    BY <2>3 DEF Told
  <2>7. Told(t, due, n, org, rep)
    BY <2>2, <2>4, <2>5, <2>6 DEF Told
  <2> QED
    BY <1>2, <2>2, <2>3, <2>7 DEF Formed
<1> QED
  BY <1>1, <1>2

\* An answer after none, and none after an answer.
LEMMA AnswersJoin ==
    ASSUME NEW x
    PROVE  <<>> \o <<x>> = <<x>> /\ <<x>> \o <<>> = <<x>> /\ <<>> \o <<>> = <<>>
OBVIOUS

\* The request callbacks due, and the waits for quiet that nothing holds back.
LEMMA CheckQuietTold ==
    ASSUME NEW s, NEW due, NEW n \in Nat, n <= Len(conf.calls), Len(conf.calls) \in Nat,
           NEW org, Told(s, due, n, org, replies), CheckQuiet(s, due), DOMAIN s = Fields,
           DOMAIN s.work \subseteq DOMAIN org, DOMAIN org \subseteq Nat,
           \A i \in DOMAIN org : org[i] \in 1 .. n,
           \A c \in due : /\ c \in 1 .. n /\ conf.calls[c].op = "submit"
                          /\ \A i \in DOMAIN s.work : org[i] # c
    PROVE  Told(m', {}, n, org, replies')
<1> DEFINE ready == QuietReady(s)
           R(c) == \E w \in ready : w.call = c
<1>1. /\ m' = [s EXCEPT !.quiet = @ \ ready]
      /\ replies' = [c \in DOMAIN replies |->
                       replies[c] \o (IF c \in due THEN <<s.succeeded[c]>>
                                      ELSE IF R(c) THEN <<s.failed = 0>> ELSE <<>>)]
  BY DEF CheckQuiet
<1>2. m'.work = s.work /\ m'.quiet = s.quiet \ ready /\ m'.succeeded = s.succeeded
      /\ m'.failed = s.failed
  BY <1>1 DEF Fields
<1>3. /\ replies \in [1 .. Len(conf.calls) -> Answers] /\ s.failed \in Nat
      /\ s.succeeded \in [1 .. Len(conf.calls) -> BOOLEAN]
      /\ \A c \in 1 .. Len(conf.calls) : n < c => replies[c] = <<>>
      /\ \A c \in 1 .. n : conf.calls[c].op = "submit" =>
           (replies[c] = <<>> <=> c \in due \/ \E i \in DOMAIN s.work : org[i] = c)
      /\ s.failed = 0 =>
           \A c \in 1 .. Len(conf.calls) : s.succeeded[c] /\ replies[c] # <<FALSE>>
  BY DEF Told
<1>4. /\ \A w \in s.quiet :
           /\ w.call \in 1 .. n /\ conf.calls[w.call].op = "quiet" /\ replies[w.call] = <<>>
           /\ w.watermark \in Nat
           /\ \A i \in DOMAIN org : org[i] < w.call => i <= w.watermark
      /\ \A v, w \in s.quiet : v.call = w.call => v = w
  BY DEF Told
<1>5. \A w \in ready : w \in s.quiet /\ \A i \in DOMAIN s.work : i > w.watermark
  BY DEF QuietReady
<1> HIDE DEF ready
<1>6. 1 .. n \subseteq 1 .. Len(conf.calls)
  OBVIOUS
<1>7. ASSUME NEW c \in 1 .. Len(conf.calls)
      PROVE  /\ c \in due => replies[c] = <<>> /\ replies'[c] = <<s.succeeded[c]>>
             /\ R(c) => /\ replies[c] = <<>> /\ replies'[c] = <<s.failed = 0>>
                        /\ conf.calls[c].op = "quiet" /\ c \in 1 .. n
             /\ c \notin due /\ ~R(c) => replies'[c] = replies[c]
  <2>1. c \in due => replies[c] = <<>> /\ conf.calls[c].op = "submit"
    BY <1>3
  <2>2. R(c) => replies[c] = <<>> /\ conf.calls[c].op = "quiet" /\ c \in 1 .. n
    BY <1>4, <1>5
  <2>3. replies'[c] = replies[c] \o (IF c \in due THEN <<s.succeeded[c]>>
                                     ELSE IF R(c) THEN <<s.failed = 0>> ELSE <<>>)
    BY <1>1, <1>3
  <2>4. replies[c] \in Answers
    BY <1>3
  <2>5. replies[c] \o <<>> = replies[c]
    BY <2>4, AnswersJoin, Zenon DEF Answers
  <2> HIDE DEF R
  <2>6. CASE c \in due
    <3>1. replies'[c] = <<>> \o <<s.succeeded[c]>>
      BY <2>1, <2>3, <2>6, Zenon
    <3>2. replies'[c] = <<s.succeeded[c]>>
      BY <3>1, AnswersJoin, Zenon
    <3>3. ~R(c)
      BY <2>1, <2>2, <2>6
    <3> QED
      BY <2>1, <2>6, <3>2, <3>3, Zenon
  <2>7. CASE c \notin due /\ R(c)
    <3>1. replies'[c] = <<>> \o <<s.failed = 0>>
      BY <2>2, <2>3, <2>7, Zenon
    <3>2. replies'[c] = <<s.failed = 0>>
      BY <3>1, AnswersJoin, Zenon
    <3> QED
      BY <2>2, <2>7, <3>2, Zenon
  <2>8. CASE c \notin due /\ ~R(c)
    BY <2>3, <2>5, <2>8, Zenon
  <2> QED
    BY <2>6, <2>7, <2>8
<1>8. replies' \in [1 .. Len(conf.calls) -> Answers]
  <2>1. \A c \in 1 .. Len(conf.calls) : replies'[c] \in Answers
    <3> SUFFICES ASSUME NEW c \in 1 .. Len(conf.calls) PROVE replies'[c] \in Answers
      OBVIOUS
    <3>1. s.succeeded[c] \in BOOLEAN /\ (s.failed = 0) \in BOOLEAN /\ replies[c] \in Answers
      BY <1>3
    <3>2. \A b \in BOOLEAN : <<b>> \in Answers
      BY DEF Answers
    <3> HIDE DEF R
    <3>3. CASE c \in due
      <4>1. replies'[c] = <<s.succeeded[c]>>
        BY <1>7, <3>3, Zenon
      <4> QED
        BY <3>1, <3>2, <4>1, Zenon
    <3>4. CASE R(c)
      <4>1. replies'[c] = <<s.failed = 0>>
        BY <1>7, <3>4, Zenon
      <4> QED
        BY <3>1, <3>2, <4>1, Zenon
    <3>5. CASE c \notin due /\ ~R(c)
      BY <1>7, <3>1, <3>5, Zenon
    <3> QED
      BY <3>3, <3>4, <3>5
  <2>2. DOMAIN replies' = 1 .. Len(conf.calls)
    BY <1>1, <1>3
  <2>3. replies' = [c \in DOMAIN replies' |-> replies'[c]]
    BY <1>1
  <2> QED
    BY <2>1, <2>2, <2>3
<1> HIDE DEF R
<1>9. ASSUME NEW c \in 1 .. Len(conf.calls), replies[c] # <<>>
      PROVE  replies'[c] = replies[c]
  BY <1>7, <1>9
<1>10. ASSUME NEW c \in 1 .. Len(conf.calls), n < c
       PROVE  replies'[c] = <<>>
  <2>1. c \notin 1 .. n
    BY <1>10
  <2> QED
    BY <1>3, <1>7, <1>10, <2>1
<1>11. ASSUME NEW c \in 1 .. n, conf.calls[c].op = "submit"
       PROVE  replies'[c] = <<>> <=> \E i \in DOMAIN s.work : org[i] = c
  <2>1. c \in 1 .. Len(conf.calls) /\ ~R(c)
    BY <1>6, <1>7, <1>11
  <2>2. CASE c \in due
    BY <1>7, <2>1, <2>2
  <2>3. CASE c \notin due
    BY <1>3, <1>7, <1>11, <2>1, <2>3
  <2> QED
    BY <2>2, <2>3
<1>12. ASSUME s.failed = 0, NEW c \in 1 .. Len(conf.calls)
       PROVE  s.succeeded[c] /\ replies'[c] # <<FALSE>>
  <2>1. s.succeeded[c] = TRUE /\ replies[c] # <<FALSE>>
    BY <1>3, <1>12
  <2>2. (s.failed = 0) = TRUE
    BY <1>12
  <2>3. <<TRUE>> # <<FALSE>>
    OBVIOUS
  <2>4. replies'[c] = <<TRUE>> \/ replies'[c] = replies[c]
    BY <1>7, <2>1, <2>2, Zenon
  <2> QED
    BY <2>1, <2>3, <2>4, Zenon
<1>13. ASSUME NEW w \in s.quiet \ ready
       PROVE  replies'[w.call] = <<>>
  <2>1. w.call \in 1 .. n /\ conf.calls[w.call].op = "quiet" /\ replies[w.call] = <<>>
    BY <1>4
  <2>2. ~R(w.call)
    BY <1>4, <1>5 DEF R
  <2>3. w.call \notin due
    BY <2>1
  <2> QED
    BY <1>6, <1>7, <2>1, <2>2, <2>3
<1>14. ASSUME NEW c \in 1 .. n, conf.calls[c].op = "quiet", replies'[c] # <<>>,
              NEW d \in 1 .. c, conf.calls[d].op = "submit"
       PROVE  replies'[d] # <<>> /\ (replies'[c] = <<TRUE>> => replies'[d] = <<TRUE>>)
  <2>1. c \in 1 .. Len(conf.calls) /\ d \in 1 .. n /\ d \in 1 .. Len(conf.calls)
    BY <1>6
  <2>2. c \notin due /\ d < c
    BY <1>14
  <2>3. CASE replies[c] # <<>>
    <3>1. replies[d] # <<>> /\ (replies[c] = <<TRUE>> => replies[d] = <<TRUE>>)
      BY <1>14, <2>3 DEF Told
    <3> QED
      BY <1>9, <2>1, <2>3, <3>1
  <2>4. CASE replies[c] = <<>>
    <3>1. R(c)
      BY <1>7, <1>14, <2>1, <2>2, <2>4
    <3>2. PICK w \in ready : w.call = c
      BY <3>1 DEF R
    <3>3. \A i \in DOMAIN s.work : org[i] # d
      <4> SUFFICES ASSUME NEW i \in DOMAIN s.work, org[i] = d PROVE FALSE
        OBVIOUS
      <4>1. i > w.watermark /\ w.watermark \in Nat /\ i \in Nat /\ i <= w.watermark
        BY <1>4, <1>5, <2>2, <3>2
      <4> QED
        BY <4>1
    <3>4. replies'[d] # <<>>
      BY <1>11, <1>14, <2>1, <3>3
    <3>5. ASSUME replies'[c] = <<TRUE>> PROVE replies'[d] = <<TRUE>>
      <4>1. <<s.failed = 0>> = <<TRUE>>
        BY <1>7, <2>1, <3>1, <3>5
      <4>2. s.failed = 0
        BY <4>1
      <4>3. replies'[d] # <<FALSE>> /\ replies'[d] \in Answers
        BY <1>8, <1>12, <2>1, <4>2
      <4> QED
        BY <3>4, <4>3 DEF Answers
    <3> QED
      BY <3>4, <3>5
  <2> QED
    BY <2>3, <2>4
<1>15. \A i \in DOMAIN m'.work : m'.work[i].call = org[i]
  BY <1>2 DEF Told
<1>16. \A w \in m'.quiet :
         /\ w.call \in 1 .. n /\ conf.calls[w.call].op = "quiet" /\ replies'[w.call] = <<>>
         /\ w.watermark \in Nat
         /\ \A i \in DOMAIN org : org[i] < w.call => i <= w.watermark
  BY <1>2, <1>4, <1>13
<1>17. \A v, w \in m'.quiet : v.call = w.call => v = w
  BY <1>2, <1>4
<1>18. \A c \in 1 .. n : conf.calls[c].op = "submit" =>
         (replies'[c] = <<>> <=> c \in {} \/ \E i \in DOMAIN m'.work : org[i] = c)
  BY <1>2, <1>11
<1> QED
  BY <1>2, <1>3, <1>8, <1>10, <1>12, <1>14, <1>15, <1>16, <1>17, <1>18 DEF Told

TInv == Told(m, {}, made, origin, replies)

LEMMA ToldNext ==
    ASSUME conf' = conf, Told(m', {}, made', origin', replies')
    PROVE  TInv'
BY DEF TInv, Told

LEMMA OriginTyped ==
    ASSUME IInv
    PROVE  /\ made \in Nat /\ made <= Len(conf.calls) /\ Len(conf.calls) \in Nat
           /\ DOMAIN m.work \subseteq DOMAIN origin /\ DOMAIN origin \subseteq Nat
           /\ DOMAIN origin = 1 .. m.nextId - 1 /\ m.nextId \in Nat \ {0}
           /\ \A i \in DOMAIN origin :
                origin[i] \in 1 .. made /\ conf.calls[origin[i]].op = "submit"
           /\ Formed(m) /\ DOMAIN m = Fields
<1>1. Len(conf.calls) \in Nat
  BY SubmissionAssumption DEF IInv, Calls
<1>2. Formed(m) /\ DOMAIN m = Fields /\ DOMAIN m.work \subseteq Ids(m) /\ m.nextId \in Nat \ {0}
  BY GoodFormed DEF IInv, Good, Shape
<1>3. /\ made \in 0 .. Len(conf.calls) /\ origin \in Seq(1 .. made) /\ Len(origin) = m.nextId - 1
      /\ \A i \in DOMAIN origin : conf.calls[origin[i]].op = "submit"
  BY DEF IInv, Calls
<1>4. DOMAIN origin = 1 .. m.nextId - 1 /\ \A i \in DOMAIN origin : origin[i] \in 1 .. made
  BY <1>3
<1> QED
  BY <1>1, <1>2, <1>3, <1>4 DEF Ids

\* Nothing is told: of the events that leave replies alone.
LEMMA SilentStep ==
    ASSUME TInv, UNCHANGED <<conf, made, origin, replies>>, Silent(m, m')
    PROVE  TInv'
<1>1. Told(m', {}, made, origin, replies)
  BY SilentTold DEF TInv
<1> QED
  BY <1>1, ToldNext

\* A call that submits nothing is made.
LEMMA ToldLater ==
    ASSUME NEW s, NEW n \in Nat, NEW org, NEW rep, Told(s, {}, n, org, rep),
           Len(conf.calls) \in Nat, n + 1 <= Len(conf.calls), conf.calls[n + 1].op # "submit"
    PROVE  Told(s, {}, n + 1, org, rep)
<1>1. n + 1 \in 1 .. Len(conf.calls) /\ rep[n + 1] = <<>>
  <2>1. n + 1 \in 1 .. Len(conf.calls) /\ n < n + 1
    OBVIOUS
  <2> QED
    BY <2>1 DEF Told
<1>2. \A c \in 1 .. n + 1 : c \in 1 .. n \/ c = n + 1
  OBVIOUS
<1>3. \A c \in 1 .. Len(conf.calls) : n + 1 < c => n < c
  OBVIOUS
<1>4. \A c \in 1 .. n + 1 : conf.calls[c].op = "submit" =>
         (rep[c] = <<>> <=> c \in {} \/ \E i \in DOMAIN s.work : org[i] = c)
  BY <1>2 DEF Told
<1>5. \A c \in 1 .. n + 1 : conf.calls[c].op = "quiet" /\ rep[c] # <<>> =>
         \A d \in 1 .. c : conf.calls[d].op = "submit" =>
           rep[d] # <<>> /\ (rep[c] = <<TRUE>> => rep[d] = <<TRUE>>)
  BY <1>1, <1>2 DEF Told
<1>6. \A w \in s.quiet :
         /\ w.call \in 1 .. n + 1 /\ conf.calls[w.call].op = "quiet" /\ rep[w.call] = <<>>
         /\ w.watermark \in Nat
         /\ \A i \in DOMAIN org : org[i] < w.call => i <= w.watermark
  BY DEF Told
<1> QED
  BY <1>3, <1>4, <1>5, <1>6 DEF Told

LEMMA OtherCallTold ==
    ASSUME IInv, TInv, NEW op \in {"fence", "respond"}, Call(op), Silent(m, m'),
           UNCHANGED <<origin, replies>>
    PROVE  TInv'
<1>1. /\ made \in Nat /\ made + 1 <= Len(conf.calls) /\ Len(conf.calls) \in Nat
      /\ made' = made + 1 /\ conf' = conf /\ conf.calls[made + 1].op = op
  BY CallIs
<1>2. Told(m', {}, made, origin, replies)
  BY SilentTold DEF TInv
<1>3. Told(m', {}, made + 1, origin, replies)
  BY <1>1, <1>2, ToldLater
<1> QED
  BY <1>1, <1>3, ToldNext

LEMMA FenceTold ==
    ASSUME IInv, TInv, Fence
    PROVE  TInv'
<1> DEFINE peer == conf.calls[made + 1].peer
           r == Ring(m, {k \in Keys : k[1] = peer})
           t == [r EXCEPT !.fences[peer] = m.nextId - 1]
<1>1. m' = t /\ UNCHANGED <<origin, replies>> /\ Call("fence")
  BY DEF Fence
<1>2. Silent(m, r) /\ Formed(r)
  BY OriginTyped, RingSilent
<1> HIDE DEF r
<1>3. DOMAIN r = Fields
  BY <1>2 DEF Formed
<1>4. /\ DOMAIN t = Fields /\ t.work = r.work /\ t.quiet = r.quiet
      /\ t.succeeded = r.succeeded /\ t.failed = r.failed
  BY <1>3 DEF Fields
<1> HIDE DEF t
<1>5. Silent(m, t)
  BY <1>2, <1>4, WorksSilent, SilentComposes
<1> QED
  BY <1>1, <1>5, OtherCallTold

LEMMA StageSourcePayloadTold ==
    ASSUME IInv, TInv, StageSourcePayload
    PROVE  TInv'
<1> DEFINE s == [m EXCEPT !.staging =
                  Append(@, [id |-> -(made + 1), bytes |-> conf.calls[made + 1].bytes])]
<1>1. m' = PumpSourceStaging(s) /\ UNCHANGED <<origin, replies>> /\ Call("respond")
  BY DEF StageSourcePayload
<1>2. Formed(m) /\ DOMAIN m = Fields
  BY OriginTyped
<1>3. /\ DOMAIN s = Fields /\ s.work = m.work /\ s.quiet = m.quiet
      /\ s.succeeded = m.succeeded /\ s.failed = m.failed
  BY <1>2 DEF Fields
<1> HIDE DEF s
<1>4. Silent(m, s) /\ Formed(s)
  BY <1>2, <1>3, WorksSilent
<1>5. Silent(s, PumpSourceStaging(s))
  BY <1>4, PumpSourceStagingSilent
<1>6. Silent(m, m')
  BY <1>1, <1>4, <1>5, SilentComposes
<1> QED
  BY <1>1, <1>6, OtherCallTold

LEMMA QuietTold ==
    ASSUME IInv, TInv, Quiet
    PROVE  TInv'
<1> DEFINE r == Ring(m, Keys)
           v == [call |-> made + 1, watermark |-> m.nextId - 1]
           s == [r EXCEPT !.quiet = @ \cup {v}]
<1>1. CheckQuiet(s, {}) /\ UNCHANGED origin /\ Call("quiet")
  BY DEF Quiet
<1>2. /\ made \in Nat /\ made + 1 <= Len(conf.calls) /\ Len(conf.calls) \in Nat
      /\ made' = made + 1 /\ conf' = conf /\ conf.calls[made + 1].op = "quiet"
  BY <1>1, CallIs
<1>3. Silent(m, r) /\ Formed(r)
  BY OriginTyped, RingSilent
<1> HIDE DEF r
<1>4. DOMAIN r = Fields
  BY <1>3 DEF Formed
<1>5. /\ DOMAIN s = Fields /\ s.work = r.work /\ s.quiet = r.quiet \cup {v}
      /\ s.succeeded = r.succeeded /\ s.failed = r.failed
  BY <1>4 DEF Fields
<1> HIDE DEF s
<1>6. Told(r, {}, made, origin, replies)
  BY <1>3, SilentTold DEF TInv
<1>7. Told(r, {}, made + 1, origin, replies)
  BY <1>2, <1>6, ToldLater
<1>8. /\ v.call = made + 1 /\ v.watermark = m.nextId - 1 /\ v.watermark \in Nat
      /\ \A i \in DOMAIN origin : i <= v.watermark
  BY OriginTyped
<1>9. replies[made + 1] = <<>>
  <2>1. made + 1 \in 1 .. Len(conf.calls) /\ made < made + 1
    BY <1>2
  <2> QED
    BY <1>6, <2>1 DEF Told
<1>10. \A w \in r.quiet : w.call # made + 1
  <2>1. \A w \in r.quiet : w.call \in 1 .. made
    BY <1>6 DEF Told
  <2> QED
    BY <1>2, <2>1
<1> HIDE DEF v
<1>11. Told(s, {}, made + 1, origin, replies)
  <2>1. \A w \in s.quiet :
         /\ w.call \in 1 .. made + 1 /\ conf.calls[w.call].op = "quiet" /\ replies[w.call] = <<>>
         /\ w.watermark \in Nat
         /\ \A i \in DOMAIN origin : origin[i] < w.call => i <= w.watermark
    <3>1. made + 1 \in 1 .. made + 1
      BY <1>2
    <3> QED
      BY <1>2, <1>5, <1>7, <1>8, <1>9, <3>1 DEF Told
  <2>2. \A x, w \in s.quiet : x.call = w.call => x = w
    BY <1>5, <1>7, <1>8, <1>10 DEF Told
  <2>3. /\ s.succeeded \in [1 .. Len(conf.calls) -> BOOLEAN] /\ s.failed \in Nat
        /\ s.failed = 0 =>
             \A c \in 1 .. Len(conf.calls) : s.succeeded[c] /\ replies[c] # <<FALSE>>
    <3>1. /\ r.succeeded \in [1 .. Len(conf.calls) -> BOOLEAN] /\ r.failed \in Nat
          /\ r.failed = 0 =>
               \A c \in 1 .. Len(conf.calls) : r.succeeded[c] /\ replies[c] # <<FALSE>>
      BY <1>7, Zenon DEF Told
    <3>2. s.succeeded = r.succeeded /\ s.failed = r.failed
      BY <1>5
    <3> QED
      BY <3>1, <3>2, Zenon
  <2>5. /\ \A i \in DOMAIN s.work : s.work[i].call = origin[i]
        /\ \A c \in 1 .. made + 1 : conf.calls[c].op = "submit" =>
             (replies[c] = <<>> <=> c \in {} \/ \E i \in DOMAIN s.work : origin[i] = c)
    <3>1. /\ \A i \in DOMAIN r.work : r.work[i].call = origin[i]
          /\ \A c \in 1 .. made + 1 : conf.calls[c].op = "submit" =>
               (replies[c] = <<>> <=> c \in {} \/ \E i \in DOMAIN r.work : origin[i] = c)
      BY <1>7, Zenon DEF Told
    <3> QED
      BY <1>5, <3>1
  <2>4. /\ replies \in [1 .. Len(conf.calls) -> Answers]
        /\ \A c \in 1 .. Len(conf.calls) : made + 1 < c => replies[c] = <<>>
        /\ \A c \in 1 .. made + 1 : conf.calls[c].op = "quiet" /\ replies[c] # <<>> =>
             \A d \in 1 .. c : conf.calls[d].op = "submit" =>
               replies[d] # <<>> /\ (replies[c] = <<TRUE>> => replies[d] = <<TRUE>>)
    BY <1>7 DEF Told
  <2> QED
    BY <2>1, <2>2, <2>3, <2>4, <2>5 DEF Told
<1>12. /\ DOMAIN s.work \subseteq DOMAIN origin /\ DOMAIN origin \subseteq Nat
       /\ \A i \in DOMAIN origin : origin[i] \in 1 .. made + 1
  <2>1. DOMAIN s.work = DOMAIN m.work
    BY <1>3, <1>5 DEF Silent
  <2> QED
    BY <2>1, OriginTyped
<1>13. made + 1 \in Nat
  BY <1>2
<1>14. Told(m', {}, made + 1, origin, replies')
  BY <1>1, <1>2, <1>5, <1>11, <1>12, <1>13, CheckQuietTold
<1> QED
  BY <1>1, <1>2, <1>14, ToldNext

LEMMA SubmitTold ==
    ASSUME IInv, TInv, Submit
    PROVE  TInv'
<1>1. /\ made \in Nat /\ made + 1 \in 1 .. Len(conf.calls) /\ Len(conf.calls) \in Nat
      /\ made' = made + 1 /\ conf' = conf /\ replies' = replies
  BY CallIs DEF Submit
<1>2. PICK n, s, new, ids : n \in Nat \ {0} /\ Submitted(s, n, new, ids)
  BY SubmitIs
<1> n \in Nat \ {0}
  BY <1>2
<1>3. /\ DOMAIN new = m.nextId .. m.nextId + n - 1 /\ Good(s) /\ Formed(s) /\ DOMAIN s = Fields
      /\ \A i \in DOMAIN new : new[i].call = made + 1
      /\ s.work = [i \in DOMAIN m.work \cup DOMAIN new |->
                     IF i \in DOMAIN new THEN new[i] ELSE m.work[i]]
      /\ s.quiet = m.quiet /\ s.succeeded = m.succeeded /\ s.failed = m.failed
      /\ DOMAIN origin' = 1 .. m.nextId + n - 1
      /\ \A i \in DOMAIN origin' :
            IF i < m.nextId THEN i \in DOMAIN origin /\ origin'[i] = origin[i]
                            ELSE i \in DOMAIN new /\ origin'[i] = made + 1
  BY <1>2, GoodFormed DEF Submitted, Fields
<1>4. /\ m.nextId \in Nat \ {0} /\ DOMAIN m.work \subseteq DOMAIN origin
      /\ DOMAIN origin = 1 .. m.nextId - 1 /\ \A i \in DOMAIN origin : origin[i] \in 1 .. made
  BY OriginTyped
<1>5. ASSUME NEW i \in DOMAIN m.work
      PROVE  /\ i \in DOMAIN origin' /\ origin'[i] = origin[i] /\ i \notin DOMAIN new
             /\ s.work[i] = m.work[i] /\ origin[i] \in 1 .. made
  <2>1. i \in DOMAIN origin' /\ i < m.nextId /\ i \notin DOMAIN new
    BY <1>3, <1>4
  <2> QED
    BY <1>3, <1>4, <2>1
<1>6. ASSUME NEW i \in DOMAIN new
      PROVE  i \in DOMAIN origin' /\ origin'[i] = made + 1 /\ s.work[i] = new[i]
  <2>1. i \in DOMAIN origin' /\ ~(i < m.nextId)
    BY <1>3, <1>4
  <2> QED
    BY <1>3, <2>1
<1>7. m.nextId \in DOMAIN new
  BY <1>3, <1>4
<1>8. Told(s, {}, made + 1, origin', replies)
  <2>1. ASSUME NEW i \in DOMAIN s.work PROVE s.work[i].call = origin'[i]
    <3>1. CASE i \in DOMAIN new
      BY <1>3, <1>6, <3>1
    <3>2. CASE i \in DOMAIN m.work
      BY <1>5, <3>2 DEF TInv, Told
    <3> QED
      BY <1>3, <3>1, <3>2
  <2>2. replies[made + 1] = <<>>
    <3>1. made < made + 1
      BY <1>1
    <3> QED
      BY <1>1, <3>1 DEF TInv, Told
  <2>3. ASSUME NEW c \in 1 .. made + 1, conf.calls[c].op = "submit"
        PROVE  replies[c] = <<>> <=> \E i \in DOMAIN s.work : origin'[i] = c
    <3>1. CASE c = made + 1
      BY <1>3, <1>6, <1>7, <2>2, <3>1
    <3>2. CASE c # made + 1
      <4>1. c \in 1 .. made
        BY <1>1, <3>2
      <4>2. replies[c] = <<>> <=> \E i \in DOMAIN m.work : origin[i] = c
        BY <2>3, <4>1 DEF TInv, Told
      <4>3. \A i \in DOMAIN new : origin'[i] # c
        BY <1>6, <3>2
      <4> QED
        BY <1>3, <1>5, <4>2, <4>3
    <3> QED
      BY <3>1, <3>2
  <2>4. ASSUME NEW w \in s.quiet
        PROVE  /\ w.call \in 1 .. made + 1 /\ conf.calls[w.call].op = "quiet"
               /\ replies[w.call] = <<>> /\ w.watermark \in Nat
               /\ \A i \in DOMAIN origin' : origin'[i] < w.call => i <= w.watermark
    <3>1. /\ w.call \in 1 .. made /\ conf.calls[w.call].op = "quiet"
          /\ replies[w.call] = <<>> /\ w.watermark \in Nat
          /\ \A i \in DOMAIN origin : origin[i] < w.call => i <= w.watermark
      BY <1>3 DEF TInv, Told
    <3>2. ASSUME NEW i \in DOMAIN origin', origin'[i] < w.call PROVE i <= w.watermark
      <4>1. origin'[i] # made + 1
        BY <1>1, <3>1, <3>2
      <4>2. i \in DOMAIN origin /\ origin'[i] = origin[i]
        BY <1>3, <4>1
      <4> QED
        BY <3>1, <3>2, <4>2
    <3>3. w.call \in 1 .. made + 1
      BY <1>1, <3>1
    <3> QED
      BY <3>1, <3>2, <3>3
  <2>5. ASSUME NEW c \in 1 .. made + 1, conf.calls[c].op = "quiet", replies[c] # <<>>,
               NEW d \in 1 .. c, conf.calls[d].op = "submit"
        PROVE  replies[d] # <<>> /\ (replies[c] = <<TRUE>> => replies[d] = <<TRUE>>)
    <3>1. c \in 1 .. made
      BY <1>1, <2>2, <2>5
    <3> QED
      BY <2>5, <3>1 DEF TInv, Told
  <2>6. \A c \in 1 .. Len(conf.calls) : made + 1 < c => replies[c] = <<>>
    <3>1. \A c \in 1 .. Len(conf.calls) : made + 1 < c => made < c
      BY <1>1
    <3> QED
      BY <3>1 DEF TInv, Told
  <2>7. /\ s.succeeded \in [1 .. Len(conf.calls) -> BOOLEAN] /\ s.failed \in Nat
        /\ s.failed = 0 =>
             \A c \in 1 .. Len(conf.calls) : s.succeeded[c] /\ replies[c] # <<FALSE>>
        /\ replies \in [1 .. Len(conf.calls) -> Answers]
        /\ \A v, w \in s.quiet : v.call = w.call => v = w
    BY <1>3 DEF TInv, Told
  <2> QED
    BY <2>1, <2>3, <2>4, <2>5, <2>6, <2>7 DEF Told
<1>9. Silent(s, m')
  <2> DEFINE h == [s EXCEPT !.handoff = Append(@, ids)]
  <2>1. m' = h \/ m' = Started(s, ids)
    BY <1>2 DEF Submitted
  <2>2. /\ DOMAIN h = Fields /\ h.work = s.work /\ h.quiet = s.quiet
        /\ h.succeeded = s.succeeded /\ h.failed = s.failed
    BY <1>3 DEF Fields
  <2> HIDE DEF h
  <2>3. Silent(s, h)
    BY <1>3, <2>2, WorksSilent
  <2>4. Silent(s, Started(s, ids))
    BY <1>3, StartedSilent
  <2> QED
    BY <2>1, <2>3, <2>4
<1>10. Told(m', {}, made + 1, origin', replies)
  BY <1>8, <1>9, SilentTold
<1> QED
  BY <1>1, <1>10, ToldNext

\* The scheduled events that tell nobody.
LEMMA StartTold ==
    ASSUME IInv, TInv, Start
    PROVE  TInv'
<1> DEFINE s == [m EXCEPT !.handoff = Tail(@)]
<1>1. m' = Started(s, Head(m.handoff)) /\ UNCHANGED <<conf, made, origin, replies>>
  BY DEF Start, Event
<1>2. Formed(m) /\ DOMAIN m = Fields
  BY OriginTyped
<1>3. /\ DOMAIN s = Fields /\ s.work = m.work /\ s.quiet = m.quiet
      /\ s.succeeded = m.succeeded /\ s.failed = m.failed
  BY <1>2 DEF Fields
<1> HIDE DEF s
<1>4. Silent(m, s) /\ Formed(s)
  BY <1>2, <1>3, WorksSilent
<1>5. Silent(s, Started(s, Head(m.handoff)))
  BY <1>4, StartedSilent
<1> QED
  BY <1>1, <1>4, <1>5, SilentComposes, SilentStep

LEMMA SourceStagedTold ==
    ASSUME IInv, TInv, SourceStaged
    PROVE  TInv'
<1> DEFINE e == Head(m.copying)
           s == [m EXCEPT !.copying = Tail(@)]
           t == [s EXCEPT !.serving = @ \cup {e}]
<1>1. /\ m' = Enqueued(s, {e.id}) \/ m' = t
      /\ UNCHANGED <<conf, made, origin, replies>>
  BY DEF SourceStaged, Event
<1>2. Formed(m) /\ DOMAIN m = Fields
  BY OriginTyped
<1>3. /\ DOMAIN s = Fields /\ s.work = m.work /\ s.quiet = m.quiet
      /\ s.succeeded = m.succeeded /\ s.failed = m.failed
  BY <1>2 DEF Fields
<1> HIDE DEF s, e
<1>4. /\ DOMAIN t = Fields /\ t.work = s.work /\ t.quiet = s.quiet
      /\ t.succeeded = s.succeeded /\ t.failed = s.failed
  BY <1>3 DEF Fields
<1> HIDE DEF t
<1>5. Silent(m, s) /\ Formed(s)
  BY <1>2, <1>3, WorksSilent
<1>6. Silent(s, t) /\ Silent(s, Enqueued(s, {e.id}))
  BY <1>4, <1>5, WorksSilent, EnqueuedSilent
<1> QED
  BY <1>1, <1>5, <1>6, SilentComposes, SilentStep

LEMMA ReleaseSourceStagingTold ==
    ASSUME IInv, TInv, ReleaseSourceStaging
    PROVE  TInv'
<1>1. PICK e \in m.serving :
        m' = PumpSourceStaging([m EXCEPT !.used = @ - e.bytes, !.serving = @ \ {e}])
  BY DEF ReleaseSourceStaging
<1> DEFINE s == [m EXCEPT !.used = @ - e.bytes, !.serving = @ \ {e}]
<1>2. Formed(m) /\ DOMAIN m = Fields
  BY OriginTyped
<1>3. /\ DOMAIN s = Fields /\ s.work = m.work /\ s.quiet = m.quiet
      /\ s.succeeded = m.succeeded /\ s.failed = m.failed
  BY <1>2 DEF Fields
<1>4. m' = PumpSourceStaging(s) /\ UNCHANGED <<conf, made, origin, replies>>
  BY <1>1 DEF ReleaseSourceStaging
<1> HIDE DEF s
<1>5. Silent(m, s) /\ Formed(s)
  BY <1>2, <1>3, WorksSilent
<1>6. Silent(s, PumpSourceStaging(s))
  BY <1>5, PumpSourceStagingSilent
<1> QED
  BY <1>4, <1>5, <1>6, SilentComposes, SilentStep

LEMMA PublishTold ==
    ASSUME IInv, TInv, NEW k \in Keys, Publish(k) \/ BatchTimeout(k)
    PROVE  TInv'
<1> DEFINE s == [m EXCEPT !.qps[k].building = Tail(@),
                          !.qps[k].published = Append(@, Head(m.qps[k].building))]
           u == [s EXCEPT !.qps[k].timer = TRUE]
<1>1. /\ m' = Ring(m, {k}) \/ m' = Ring(s, {k}) \/ m' = u
      /\ UNCHANGED <<conf, made, origin, replies>>
  BY DEF Publish, BatchTimeout, Event
<1>2. Formed(m) /\ DOMAIN m = Fields
  BY OriginTyped
<1>3. /\ DOMAIN s = Fields /\ s.work = m.work /\ s.quiet = m.quiet
      /\ s.succeeded = m.succeeded /\ s.failed = m.failed
  BY <1>2 DEF Fields
<1> HIDE DEF s
<1>4. /\ DOMAIN u = Fields /\ u.work = s.work /\ u.quiet = s.quiet
      /\ u.succeeded = s.succeeded /\ u.failed = s.failed
  BY <1>3 DEF Fields
<1> HIDE DEF u
<1>5. Silent(m, s) /\ Formed(s)
  BY <1>2, <1>3, WorksSilent
<1>6. Silent(s, u) /\ Silent(s, Ring(s, {k})) /\ Silent(m, Ring(m, {k}))
  BY <1>2, <1>4, <1>5, WorksSilent, RingSilent
<1> QED
  BY <1>1, <1>5, <1>6, SilentComposes, SilentStep

\* A work completes, well or not.
LEMMA CompletedTold ==
    ASSUME NEW s, Formed(s), NEW i \in DOMAIN s.work, s.work[i].call \in 1 .. Len(conf.calls),
           NEW success \in BOOLEAN, NEW n, NEW org, NEW rep, Told(s, {}, n, org, rep)
    PROVE  Told(Completed(s, i, success), {}, n, org, rep)
<1> DEFINE t == IF success THEN s ELSE Failed(s, i)
<1>1. Completed(s, i, success) = Acknowledged(t, i)
  BY CompletedIs
<1>2. Told(t, {}, n, org, rep) /\ Formed(t) /\ i \in DOMAIN t.work
  BY FailedTold
<1> HIDE DEF t
<1>3. Silent(t, Acknowledged(t, i))
  BY <1>2, AcknowledgedSilent
<1> QED
  BY <1>1, <1>2, <1>3, SilentTold

LEMMA CallOfWork ==
    ASSUME IInv, TInv, NEW i \in DOMAIN m.work
    PROVE  m.work[i].call \in 1 .. Len(conf.calls) /\ m.work[i].call = origin[i]
           /\ origin[i] \in 1 .. made /\ conf.calls[origin[i]].op = "submit"
<1>1. origin[i] \in 1 .. made /\ made <= Len(conf.calls) /\ Len(conf.calls) \in Nat /\ made \in Nat
      /\ conf.calls[origin[i]].op = "submit"
  BY OriginTyped
<1>2. m.work[i].call = origin[i]
  BY DEF TInv, Told
<1> QED
  BY <1>1, <1>2

LEMMA ExecuteWorkTold ==
    ASSUME IInv, TInv, NEW k \in Keys, ExecuteWork(k)
    PROVE  TInv'
<1> DEFINE i == Head(m.qps[k].fetching)
           s == [m EXCEPT !.qps[k].fetching = Tail(@)]
           w == [s.work[i] EXCEPT !.executed = TRUE]
           u == [s EXCEPT !.work[i].executed = TRUE]
<1>1. /\ UNCHANGED <<conf, made, origin, replies>>
      /\ \/ m' = s
         \/ i \in DOMAIN m.work /\ m' = Completed(s, i, FALSE)
         \/ i \in DOMAIN m.work /\ m' = u
  BY DEF ExecuteWork, Event
<1>2. Formed(m) /\ DOMAIN m = Fields
  BY OriginTyped
<1>3. /\ DOMAIN s = Fields /\ s.work = m.work /\ s.quiet = m.quiet
      /\ s.succeeded = m.succeeded /\ s.failed = m.failed
  BY <1>2 DEF Fields
<1> HIDE DEF s, i
<1>4. Silent(m, s) /\ Formed(s)
  BY <1>2, <1>3, WorksSilent
<1>5. CASE m' = s
  BY <1>1, <1>4, <1>5, SilentStep
<1>6. CASE i \in DOMAIN m.work /\ m' = Completed(s, i, FALSE)
  <2>1. Told(s, {}, made, origin, replies)
    BY <1>4, SilentTold DEF TInv
  <2>2. i \in DOMAIN s.work /\ s.work[i].call \in 1 .. Len(conf.calls)
    BY <1>3, <1>6, CallOfWork
  <2>3. Told(m', {}, made, origin, replies)
    BY <1>4, <1>6, <2>1, <2>2, CompletedTold
  <2> QED
    BY <1>1, <2>3, ToldNext
<1>7. CASE i \in DOMAIN m.work /\ m' = u
  <2>1. i \in DOMAIN s.work /\ DOMAIN s.work[i] = WorkFields
    BY <1>3, <1>4, <1>7 DEF Formed
  <2>2. /\ DOMAIN u = Fields /\ u.work = [s.work EXCEPT ![i] = w] /\ u.quiet = s.quiet
        /\ u.succeeded = s.succeeded /\ u.failed = s.failed
        /\ DOMAIN w = WorkFields /\ w.call = s.work[i].call
    BY <1>3, <2>1 DEF Fields, WorkFields
  <2> HIDE DEF u, w
  <2>3. Silent(s, u)
    BY <1>4, <2>1, <2>2, MarkSilent
  <2> QED
    BY <1>1, <1>4, <1>7, <2>3, SilentComposes, SilentStep
<1> QED
  BY <1>1, <1>5, <1>6, <1>7

LEMMA PacketAckTold ==
    ASSUME IInv, TInv, NEW i \in DOMAIN m.work, PacketAck(i)
    PROVE  TInv'
<1> DEFINE w == [m.work[i] EXCEPT !.acknowledged = @ + 1]
           s == [m EXCEPT !.work[i].acknowledged = @ + 1]
<1>1. /\ UNCHANGED <<conf, made, origin, replies>> /\ (m' = Acknowledged(s, i) \/ m' = s)
  BY DEF PacketAck, Event
<1>2. Formed(m) /\ DOMAIN m = Fields /\ DOMAIN m.work[i] = WorkFields
  BY OriginTyped DEF Formed
<1>3. /\ DOMAIN s = Fields /\ s.work = [m.work EXCEPT ![i] = w] /\ s.quiet = m.quiet
      /\ s.succeeded = m.succeeded /\ s.failed = m.failed
      /\ DOMAIN w = WorkFields /\ w.call = m.work[i].call
  BY <1>2 DEF Fields, WorkFields
<1> HIDE DEF s, w
<1>4. Silent(m, s) /\ Formed(s)
  BY <1>2, <1>3, MarkSilent
<1>5. i \in DOMAIN s.work
  BY <1>4 DEF Silent
<1>6. Silent(s, Acknowledged(s, i))
  BY <1>4, <1>5, AcknowledgedSilent
<1> QED
  BY <1>1, <1>4, <1>6, SilentComposes, SilentStep

LEMMA OperationTold ==
    ASSUME IInv, TInv, NEW i \in DOMAIN m.work,
           OperationComplete(i) \/ OperationFails(i) \/ NotifyFailure(i)
    PROVE  TInv'
<1>1. /\ UNCHANGED <<conf, made, origin, replies>>
      /\ m' = Completed(m, i, TRUE) \/ m' = Completed(m, i, FALSE) \/ m' = Failed(m, i)
  BY DEF OperationComplete, OperationFails, NotifyFailure, Event
<1>2. Formed(m) /\ m.work[i].call \in 1 .. Len(conf.calls)
  BY OriginTyped, CallOfWork
<1>3. Told(Failed(m, i), {}, made, origin, replies)
  BY <1>2, FailedTold DEF TInv
<1>4. \A b \in BOOLEAN : Told(Completed(m, i, b), {}, made, origin, replies)
  BY <1>2, CompletedTold DEF TInv
<1>5. Told(m', {}, made, origin, replies)
  BY <1>1, <1>3, <1>4
<1> QED
  BY <1>1, <1>5, ToldNext

\* The completion observed: the works that go are acknowledged, and their calls
\* are told once none of their works is left.
LEMMA ObserveTold ==
    ASSUME IInv, TInv, Observe
    PROVE  TInv'
<1> DEFINE cqe == Head(m.cqes)
           gone == Retired(m, cqe)
           due == {m.work[i].call : i \in gone} \ {m.work[i].call : i \in DOMAIN m.work \ gone}
           n == [m EXCEPT !.cqes = Tail(@)]
           s == Freed(n, cqe.key, gone)
           t == IF StagingOf(m, gone) > 0 THEN PumpSourceStaging(s) ELSE s
           u == Pump(t, {cqe.key})
           v == Progress(u, cqe.key)
<1>1. UNCHANGED <<conf, made, origin>> /\ CheckQuiet(v, due)
  BY DEF Observe
<1>2. Formed(m) /\ DOMAIN m = Fields /\ \A i \in DOMAIN m.work : DOMAIN m.work[i] = WorkFields
  BY OriginTyped DEF Formed
<1>3. gone \subseteq DOMAIN m.work
  BY DEF Retired
<1> HIDE DEF gone, cqe
<1>4. /\ DOMAIN s = Fields /\ s.work = [i \in DOMAIN m.work \ gone |-> m.work[i]]
      /\ s.quiet = m.quiet /\ s.succeeded = m.succeeded /\ s.failed = m.failed
  BY <1>2 DEF Freed, Fields
<1> HIDE DEF s
<1>5. Formed(s)
  BY <1>2, <1>4 DEF Formed
<1>6. /\ DOMAIN s.work = DOMAIN m.work \ gone
      /\ \A i \in DOMAIN s.work : s.work[i] = m.work[i]
  BY <1>4
<1>7. \A i \in DOMAIN m.work : /\ m.work[i].call = origin[i] /\ origin[i] \in 1 .. made
                               /\ conf.calls[origin[i]].op = "submit"
  BY CallOfWork
<1>8. ASSUME NEW c \in due
      PROVE  /\ c \in 1 .. made /\ conf.calls[c].op = "submit"
             /\ \A i \in DOMAIN s.work : origin[i] # c
  <2>1. PICK j \in gone : c = m.work[j].call
    OBVIOUS
  <2>2. \A i \in DOMAIN m.work \ gone : m.work[i].call # c
    OBVIOUS
  <2> QED
    BY <1>3, <1>6, <1>7, <2>1, <2>2
<1>9. ASSUME NEW c
      PROVE  (c \in due \/ \E i \in DOMAIN s.work : origin[i] = c)
                <=> \E i \in DOMAIN m.work : origin[i] = c
  <2>1. ASSUME NEW i \in DOMAIN m.work, origin[i] = c
        PROVE  c \in due \/ \E j \in DOMAIN s.work : origin[j] = c
    <3>1. CASE \E j \in DOMAIN m.work \ gone : m.work[j].call = c
      BY <1>6, <1>7, <3>1
    <3>2. CASE \A j \in DOMAIN m.work \ gone : m.work[j].call # c
      <4>1. i \in gone /\ m.work[i].call = c
        BY <1>7, <2>1, <3>2
      <4> QED
        BY <3>2, <4>1
    <3> QED
      BY <3>1, <3>2
  <2>2. ASSUME c \in due PROVE \E i \in DOMAIN m.work : origin[i] = c
    <3>1. PICK j \in gone : c = m.work[j].call
      BY <2>2
    <3> QED
      BY <1>3, <1>7, <3>1
  <2>3. ASSUME NEW i \in DOMAIN s.work, origin[i] = c PROVE \E j \in DOMAIN m.work : origin[j] = c
    BY <1>6, <2>3
  <2> HIDE DEF due
  <2> QED
    BY <2>1, <2>2, <2>3
<1> HIDE DEF due
<1>10. Told(s, due, made, origin, replies)
  <2>1. \A i \in DOMAIN s.work : s.work[i].call = origin[i]
    BY <1>6, <1>7
  <2>2. \A c \in 1 .. made : conf.calls[c].op = "submit" =>
          (replies[c] = <<>> <=> c \in due \/ \E i \in DOMAIN s.work : origin[i] = c)
    <3>1. \A c \in 1 .. made : conf.calls[c].op = "submit" =>
            (replies[c] = <<>> <=> \E i \in DOMAIN m.work : origin[i] = c)
      BY DEF TInv, Told
    <3> QED
      BY <1>9, <3>1
  <2>3. /\ s.succeeded \in [1 .. Len(conf.calls) -> BOOLEAN] /\ s.failed \in Nat
        /\ s.failed = 0 =>
             \A c \in 1 .. Len(conf.calls) : s.succeeded[c] /\ replies[c] # <<FALSE>>
    BY <1>4, Zenon DEF TInv, Told
  <2>4. /\ replies \in [1 .. Len(conf.calls) -> Answers]
        /\ \A c \in 1 .. Len(conf.calls) : made < c => replies[c] = <<>>
        /\ \A c \in 1 .. made : conf.calls[c].op = "quiet" /\ replies[c] # <<>> =>
             \A d \in 1 .. c : conf.calls[d].op = "submit" =>
               replies[d] # <<>> /\ (replies[c] = <<TRUE>> => replies[d] = <<TRUE>>)
    BY Zenon DEF TInv, Told
  <2>5. /\ \A w \in s.quiet :
             /\ w.call \in 1 .. made /\ conf.calls[w.call].op = "quiet" /\ replies[w.call] = <<>>
             /\ w.watermark \in Nat
             /\ \A i \in DOMAIN origin : origin[i] < w.call => i <= w.watermark
        /\ \A x, w \in s.quiet : x.call = w.call => x = w
    BY <1>4, Zenon DEF TInv, Told
  <2> QED
    BY <2>1, <2>2, <2>3, <2>4, <2>5, Zenon DEF Told
<1>11. Silent(s, v) /\ Formed(v)
  <2>1. Silent(s, s)
    BY DEF Silent
  <2>2. Silent(s, t) /\ Formed(t)
    BY <1>5, <2>1, PumpSourceStagingSilent
  <2> HIDE DEF t
  <2>3. Silent(t, u) /\ Formed(u)
    BY <2>2, PumpSilent
  <2> HIDE DEF u
  <2>4. Silent(u, v) /\ Formed(v)
    BY <2>3, ProgressSilent
  <2> HIDE DEF v
  <2> QED
    BY <2>2, <2>3, <2>4, SilentComposes
<1> HIDE DEF v
<1>12. Told(v, due, made, origin, replies) /\ DOMAIN v = Fields /\ DOMAIN v.work = DOMAIN s.work
  BY <1>10, <1>11, SilentTold DEF Formed, Silent
<1>13. /\ made \in Nat /\ made <= Len(conf.calls) /\ Len(conf.calls) \in Nat
       /\ DOMAIN v.work \subseteq DOMAIN origin /\ DOMAIN origin \subseteq Nat
       /\ \A i \in DOMAIN origin : origin[i] \in 1 .. made
  BY <1>6, <1>12, OriginTyped
<1>14. \A c \in due : /\ c \in 1 .. made /\ conf.calls[c].op = "submit"
                      /\ \A i \in DOMAIN v.work : origin[i] # c
  BY <1>8, <1>12
<1>15. Told(m', {}, made, origin, replies')
  BY <1>1, <1>12, <1>13, <1>14, CheckQuietTold
<1> QED
  BY <1>1, <1>15, ToldNext

LEMMA InitTold == Init => TInv
<1> SUFFICES ASSUME Init PROVE TInv
  OBVIOUS
<1>1. /\ DOMAIN m.work = {} /\ m.quiet = {} /\ m.failed = 0
      /\ m.succeeded = [c \in 1 .. Len(conf.calls) |-> TRUE]
      /\ made = 0 /\ origin = <<>> /\ replies = [c \in 1 .. Len(conf.calls) |-> <<>>]
  BY DEF Init
<1>2. 1 .. made = {}
  BY <1>1
<1>3. /\ m.succeeded \in [1 .. Len(conf.calls) -> BOOLEAN] /\ m.failed \in Nat
      /\ \A c \in 1 .. Len(conf.calls) : m.succeeded[c]
  BY <1>1
<1>4. /\ replies \in [1 .. Len(conf.calls) -> Answers]
      /\ \A c \in 1 .. Len(conf.calls) : replies[c] = <<>> /\ replies[c] # <<FALSE>>
  BY <1>1 DEF Answers
<1> QED
  BY <1>1, <1>2, <1>3, <1>4 DEF TInv, Told

\* Every step keeps what was told.
LEMMA NextTold == IInv /\ TInv /\ [Next]_vars => TInv'
<1> SUFFICES ASSUME IInv, TInv, [Next]_vars PROVE TInv'
  OBVIOUS
<1>1. CASE Submit \/ Fence \/ Quiet \/ StageSourcePayload
  BY <1>1, SubmitTold, FenceTold, QuietTold, StageSourcePayloadTold
<1>2. CASE Scheduled
  <2>1. CASE Start \/ SourceStaged \/ ReleaseSourceStaging \/ Observe
    BY <2>1, StartTold, SourceStagedTold, ReleaseSourceStagingTold, ObserveTold
  <2>2. ASSUME NEW k \in Keys, Publish(k) \/ BatchTimeout(k) \/ ExecuteWork(k) PROVE TInv'
    BY <2>2, PublishTold, ExecuteWorkTold
  <2>3. ASSUME NEW i \in DOMAIN m.work, PacketAck(i) PROVE TInv'
    BY <2>3, PacketAckTold
  <2> QED
    BY <1>2, <2>1, <2>2, <2>3 DEF Scheduled
<1>3. ASSUME NEW i \in DOMAIN m.work,
             OperationComplete(i) \/ OperationFails(i) \/ NotifyFailure(i)
      PROVE  TInv'
  BY <1>3, OperationTold
<1>4. CASE UNCHANGED vars
  BY <1>4 DEF vars, TInv, Told
<1> QED
  BY <1>1, <1>2, <1>3, <1>4 DEF Next

LEMMA ToldImplies ==
    ASSUME IInv, TInv
    PROVE  ToldWhenDone
<1> SUFFICES ASSUME NEW c \in 1 .. made, replies[c] # <<>>
             PROVE  /\ Len(replies[c]) = 1
                    /\ conf.calls[c].op = "submit" => \A i \in DOMAIN m.work : m.work[i].call # c
                    /\ conf.calls[c].op = "quiet" =>
                         \A d \in 1 .. c : conf.calls[d].op = "submit" =>
                           replies[d] # <<>> /\ (replies[c] = <<TRUE>> => replies[d] = <<TRUE>>)
  BY DEF ToldWhenDone
<1>1. c \in 1 .. Len(conf.calls)
  BY OriginTyped
<1>2. replies[c] = <<TRUE>> \/ replies[c] = <<FALSE>>
  BY <1>1 DEF TInv, Told, Answers
<1>3. Len(<<TRUE>>) = 1 /\ Len(<<FALSE>>) = 1
  OBVIOUS
<1>4. conf.calls[c].op = "submit" => \A i \in DOMAIN m.work : m.work[i].call # c
  BY CallOfWork DEF TInv, Told
<1>5. conf.calls[c].op = "quiet" =>
        \A d \in 1 .. c : conf.calls[d].op = "submit" =>
          replies[d] # <<>> /\ (replies[c] = <<TRUE>> => replies[d] = <<TRUE>>)
  BY DEF TInv, Told
<1> QED
  BY <1>2, <1>3, <1>4, <1>5, Zenon

-----------------------------------------------------------------------------
(* Queues in order.                                                        *)

Ascends(q) == \A a, b \in DOMAIN q : a < b => q[a] < q[b]

\* Two queues in order, one behind the other.
LEMMA AscendingParts ==
    ASSUME NEW T \in SUBSET Int, NEW q \in Seq(T), NEW r \in Seq(T), Ascends(q), Ascends(r),
           \A x \in ToSet(q), y \in ToSet(r) : x < y
    PROVE  Ascends(q \o r)
<1>1. /\ q \o r \in Seq(T) /\ DOMAIN (q \o r) = 1 .. Len(q) + Len(r)
      /\ Len(q) \in Nat /\ Len(r) \in Nat
      /\ DOMAIN q = 1 .. Len(q) /\ DOMAIN r = 1 .. Len(r)
      /\ \A i \in 1 .. Len(q) + Len(r) :
           (q \o r)[i] = IF i <= Len(q) THEN q[i] ELSE r[i - Len(q)]
  OBVIOUS
<1> DEFINE s == q \o r
<1> HIDE DEF s
<1>2. ASSUME NEW a \in DOMAIN s, NEW b \in DOMAIN s, a < b
      PROVE  s[a] < s[b]
  <2>1. a \in 1 .. Len(q) + Len(r) /\ b \in 1 .. Len(q) + Len(r)
    BY <1>1 DEF s
  <2>2. CASE b <= Len(q)
    <3>1. a \in DOMAIN q /\ b \in DOMAIN q /\ s[a] = q[a] /\ s[b] = q[b]
      BY <1>1, <1>2, <2>1, <2>2 DEF s
    <3> QED
      BY <1>2, <3>1 DEF Ascends
  <2>3. CASE a <= Len(q) /\ ~(b <= Len(q))
    <3>1. a \in DOMAIN q /\ b - Len(q) \in DOMAIN r /\ s[a] = q[a] /\ s[b] = r[b - Len(q)]
      BY <1>1, <1>2, <2>1, <2>3 DEF s
    <3> QED
      BY <3>1 DEF ToSet
  <2>4. CASE ~(a <= Len(q))
    <3>1. /\ a - Len(q) \in DOMAIN r /\ b - Len(q) \in DOMAIN r /\ a - Len(q) < b - Len(q)
          /\ s[a] = r[a - Len(q)] /\ s[b] = r[b - Len(q)]
      BY <1>1, <1>2, <2>1, <2>4 DEF s
    <3> QED
      BY <3>1 DEF Ascends
  <2> QED
    BY <1>1, <1>2, <2>1, <2>2, <2>3, <2>4
<1> QED
  BY <1>2 DEF Ascends, s

\* A queue in order, cut in two.
LEMMA Cut ==
    ASSUME NEW T \in SUBSET Int, NEW q \in Seq(T), NEW n \in 0 .. Len(q)
    PROVE  LET a == SubSeq(q, 1, n)
               b == SubSeq(q, n + 1, Len(q))
           IN  /\ a \in Seq(T) /\ b \in Seq(T) /\ Len(a) = n
               /\ ToSet(q) = ToSet(a) \cup ToSet(b)
               /\ \A j \in 1 .. n : a[j] = q[j]
               /\ Ascends(q) => /\ Ascends(a) /\ Ascends(b)
                                /\ \A x \in ToSet(a), y \in ToSet(b) : x < y
<1> DEFINE a == SubSeq(q, 1, n)
           b == SubSeq(q, n + 1, Len(q))
<1>1. /\ a \in Seq(T) /\ b \in Seq(T) /\ Len(q) \in Nat /\ DOMAIN q = 1 .. Len(q) /\ n \in Nat
      /\ DOMAIN a = 1 .. n /\ Len(a) = n /\ DOMAIN b = 1 .. Len(q) - n
      /\ \A j \in 1 .. n : a[j] = q[j]
      /\ \A j \in 1 .. Len(q) - n : b[j] = q[n + j]
  OBVIOUS
<1> HIDE DEF a, b
<1>2. \A j \in DOMAIN a : j \in DOMAIN q /\ a[j] = q[j] /\ j <= n
  BY <1>1
<1>3. \A j \in DOMAIN b : n + j \in DOMAIN q /\ b[j] = q[n + j] /\ n < n + j
  BY <1>1
<1>4. \A j \in DOMAIN q : (j \in DOMAIN a /\ q[j] = a[j]) \/ (j - n \in DOMAIN b /\ q[j] = b[j - n])
  BY <1>1
<1>5. ToSet(q) = ToSet(a) \cup ToSet(b)
  BY <1>2, <1>3, <1>4 DEF ToSet
<1>6. ASSUME Ascends(q)
      PROVE  /\ Ascends(a) /\ Ascends(b)
             /\ \A x \in ToSet(a), y \in ToSet(b) : x < y
  <2>1. Ascends(a)
    BY <1>2, <1>6 DEF Ascends
  <2>2. ASSUME NEW c \in DOMAIN b, NEW d \in DOMAIN b, c < d
        PROVE  b[c] < b[d]
    <3>1. n + c < n + d
      BY <1>1, <2>2
    <3> QED
      BY <1>3, <1>6, <3>1 DEF Ascends
  <2>3. ASSUME NEW c \in DOMAIN a, NEW d \in DOMAIN b
        PROVE  a[c] < b[d]
    <3>1. c < n + d /\ c \in DOMAIN q /\ n + d \in DOMAIN q
      BY <1>1
    <3> QED
      BY <1>2, <1>3, <1>6, <3>1 DEF Ascends
  <2>4. \A x \in ToSet(a), y \in ToSet(b) : x < y
    BY <2>3 DEF ToSet
  <2> QED
    BY <2>1, <2>2, <2>4 DEF Ascends
<1> QED
  BY <1>1, <1>5, <1>6 DEF a, b

\* The first of a queue in order is its least.
LEMMA FirstIsLeast ==
    ASSUME NEW T \in SUBSET Int, NEW q \in Seq(T), q # <<>>
    PROVE  /\ ToSet(q) = ToSet(Tail(q)) \cup {Head(q)}
           /\ Ascends(q) => Ascends(Tail(q)) /\ \A x \in ToSet(Tail(q)) : Head(q) < x
<1> DEFINE r == Tail(q)
<1>1. /\ Len(q) \in Nat \ {0} /\ DOMAIN q = 1 .. Len(q) /\ Head(q) = q[1]
      /\ DOMAIN r = 1 .. Len(q) - 1
      /\ \A n \in 1 .. Len(q) - 1 : r[n] = q[n + 1]
  OBVIOUS
<1> HIDE DEF r
<1>2. \A n \in DOMAIN r : n + 1 \in DOMAIN q /\ r[n] = q[n + 1]
  BY <1>1
<1>3. \A n \in DOMAIN q : n = 1 \/ (n - 1 \in DOMAIN r /\ q[n] = r[n - 1])
  BY <1>1
<1>4. 1 \in DOMAIN q
  BY <1>1
<1>5. ToSet(q) = ToSet(r) \cup {q[1]}
  BY <1>2, <1>3, <1>4 DEF ToSet
<1>6. ASSUME Ascends(q) PROVE Ascends(r) /\ \A x \in ToSet(r) : q[1] < x
  <2>1. ASSUME NEW c \in DOMAIN r, NEW d \in DOMAIN r, c < d PROVE r[c] < r[d]
    <3>1. c + 1 < d + 1
      BY <1>1, <2>1
    <3> QED
      BY <1>2, <1>6, <3>1 DEF Ascends
  <2>2. ASSUME NEW c \in DOMAIN r PROVE q[1] < r[c]
    <3>1. 1 < c + 1
      BY <1>1
    <3> QED
      BY <1>2, <1>4, <1>6, <3>1 DEF Ascends
  <2> QED
    BY <2>1, <2>2 DEF Ascends, ToSet
<1> QED
  BY <1>1, <1>5, <1>6 DEF r

\* Queues with the same entries in the same places are the same.
LEMMA SameEntries ==
    ASSUME NEW T, NEW q \in Seq(T), NEW r \in Seq(T), Len(q) = Len(r),
           \A n \in 1 .. Len(q) : q[n] = r[n]
    PROVE  q = r
<1>1. Len(q) \in Nat /\ q \in [1 .. Len(q) -> T] /\ r \in [1 .. Len(q) -> T]
  OBVIOUS
<1> QED
  BY <1>1

LEMMA Regrouped ==
    ASSUME NEW T, NEW a \in Seq(T), NEW b \in Seq(T), NEW c \in Seq(T)
    PROVE  (a \o b) \o c = a \o (b \o c)
<1> DEFINE q == (a \o b) \o c
           r == a \o (b \o c)
<1>1. /\ q \in Seq(T) /\ r \in Seq(T) /\ Len(a) \in Nat /\ Len(b) \in Nat /\ Len(c) \in Nat
      /\ Len(q) = Len(a) + Len(b) + Len(c) /\ Len(r) = Len(a) + Len(b) + Len(c)
  OBVIOUS
<1>2. ASSUME NEW n \in 1 .. Len(q) PROVE q[n] = r[n]
  <2>1. CASE n <= Len(a)
    BY <1>1, <2>1
  <2>2. CASE ~(n <= Len(a)) /\ n <= Len(a) + Len(b)
    BY <1>1, <2>2
  <2>3. CASE ~(n <= Len(a) + Len(b))
    BY <1>1, <2>3
  <2> QED
    BY <1>1, <2>1, <2>2, <2>3
<1> HIDE DEF q, r
<1>3. q = r
  BY <1>1, <1>2, SameEntries
<1> QED
  BY <1>3 DEF q, r

\* A queue is its parts, one behind the other.
LEMMA Rejoined ==
    ASSUME NEW T, NEW q \in Seq(T), NEW n \in 0 .. Len(q)
    PROVE  SubSeq(q, 1, n) \o SubSeq(q, n + 1, Len(q)) = q
<1> DEFINE a == SubSeq(q, 1, n)
           b == SubSeq(q, n + 1, Len(q))
           r == a \o b
<1>1. /\ a \in Seq(T) /\ b \in Seq(T) /\ Len(q) \in Nat /\ n \in Nat
      /\ Len(a) = n /\ Len(b) = Len(q) - n
      /\ \A j \in 1 .. n : a[j] = q[j]
      /\ \A j \in 1 .. Len(q) - n : b[j] = q[n + j]
  OBVIOUS
<1> HIDE DEF a, b
<1>2. r \in Seq(T) /\ Len(r) = Len(q)
  BY <1>1
<1>3. ASSUME NEW j \in 1 .. Len(r) PROVE r[j] = q[j]
  BY <1>1, <1>2
<1> HIDE DEF r
<1>4. r = q
  BY <1>2, <1>3, SameEntries
<1> QED
  BY <1>4 DEF r, a, b

LEMMA FirstRejoined ==
    ASSUME NEW T, NEW q \in Seq(T), q # <<>>, NEW p \in Seq(T)
    PROVE  /\ Append(p, Head(q)) \o Tail(q) = p \o q
           /\ Head(q \o p) = Head(q) /\ Tail(q \o p) = Tail(q) \o p /\ q \o p # <<>>
<1> DEFINE r == Append(p, Head(q)) \o Tail(q)
           s == p \o q
           u == Tail(q) \o p
           v == Tail(q \o p)
<1>1. /\ Len(q) \in Nat \ {0} /\ Len(p) \in Nat /\ Head(q) = q[1] /\ q[1] \in T /\ Tail(q) \in Seq(T)
      /\ Len(Tail(q)) = Len(q) - 1 /\ \A n \in 1 .. Len(q) - 1 : Tail(q)[n] = q[n + 1]
  OBVIOUS
<1>2. r \in Seq(T) /\ s \in Seq(T) /\ Len(r) = Len(p) + Len(q) /\ Len(s) = Len(p) + Len(q)
  BY <1>1
<1>3. ASSUME NEW n \in 1 .. Len(r) PROVE r[n] = s[n]
  <2>1. CASE n <= Len(p)
    BY <1>1, <1>2, <2>1
  <2>2. CASE n = Len(p) + 1
    BY <1>1, <1>2, <2>2
  <2>3. CASE n > Len(p) + 1
    BY <1>1, <1>2, <2>3
  <2> QED
    BY <1>1, <1>2, <2>1, <2>2, <2>3
<1>4. /\ q \o p \in Seq(T) /\ Len(q \o p) = Len(q) + Len(p) /\ q \o p # <<>>
      /\ Head(q \o p) = q[1]
  BY <1>1
<1>5. u \in Seq(T) /\ v \in Seq(T) /\ Len(u) = Len(p) + Len(q) - 1 /\ Len(v) = Len(p) + Len(q) - 1
  BY <1>1, <1>4
<1>6. ASSUME NEW n \in 1 .. Len(u) PROVE u[n] = v[n]
  <2>1. v[n] = (q \o p)[n + 1]
    BY <1>1, <1>4, <1>5
  <2>2. CASE n < Len(q)
    BY <1>1, <1>5, <2>1, <2>2
  <2>3. CASE ~(n < Len(q))
    BY <1>1, <1>5, <2>1, <2>3
  <2> QED
    BY <2>2, <2>3
<1> HIDE DEF r, s, u, v
<1>7. r = s
  BY <1>2, <1>3, SameEntries
<1>8. u = v
  BY <1>5, <1>6, SameEntries
<1> QED
  BY <1>1, <1>4, <1>7, <1>8 DEF r, s, u, v

\* Pump has made t of s: of each queue pair in keys the first c of the works
\* waiting are issued.
Takes(s, t, keys, c) ==
    /\ DOMAIN t = Fields /\ \A f \in Fields \ {"work", "qps"} : t[f] = s[f]
    /\ c \in [Keys -> Nat] /\ \A k \in Keys \ keys : c[k] = 0 /\ t.qps[k] = s.qps[k]
    /\ DOMAIN t.work = DOMAIN s.work /\ DOMAIN t.qps = Keys
    /\ \A k \in Keys : c[k] <= Len(s.qps[k].waiting)
    /\ \A k \in keys :
         LET q == s.qps[k]
             Reads(n) == {j \in 1 .. n : UsesReadAtomicCredit(s.work[q.waiting[j]].opcode)}
         IN  /\ t.qps[k].occupied = q.occupied + c[k]
             /\ t.qps[k].readAtomic = q.readAtomic + Cardinality(Reads(c[k]))
             /\ \A j \in 1 .. c[k] :
                  /\ q.occupied + j <= conf.queueDepth
                  /\ UsesReadAtomicCredit(s.work[q.waiting[j]].opcode)
                       => q.readAtomic + Cardinality(Reads(j)) <= conf.maxReadAtomic
    /\ \A k \in Keys :
         LET q == s.qps[k]
             p == SubSeq(q.waiting, 1, c[k])
         IN  /\ t.qps[k].waiting = SubSeq(q.waiting, c[k] + 1, Len(q.waiting))
             /\ t.qps[k].building = q.building \o p
             /\ t.qps[k].outstanding = q.outstanding \o p
             /\ t.qps[k].published = q.published /\ t.qps[k].fetching = q.fetching
             /\ \A j \in 1 .. c[k] : ~BlockedByFence(s, s.work[q.waiting[j]])
    /\ \A i \in DOMAIN s.work :
         t.work[i] = IF \E k \in Keys : i \in ToSet(SubSeq(s.qps[k].waiting, 1, c[k]))
                     THEN [s.work[i] EXCEPT !.issued = TRUE] ELSE s.work[i]

LEMMA PumpTakes ==
    ASSUME NEW s, Shape(s), NEW keys \in SUBSET Keys
    PROVE  \E c : Takes(s, Pump(s, keys), keys, c)
<1> DEFINE Reads(k, n) == {j \in 1 .. n : UsesReadAtomicCredit(s.work[s.qps[k].waiting[j]].opcode)}
           Passes(k, n) ==
             /\ s.qps[k].occupied + n <= conf.queueDepth
             /\ UsesReadAtomicCredit(s.work[s.qps[k].waiting[n]].opcode)
                  => s.qps[k].readAtomic + Cardinality(Reads(k, n)) <= conf.maxReadAtomic
             /\ ~BlockedByFence(s, s.work[s.qps[k].waiting[n]])
           fits(k) == {n \in 0 .. Len(s.qps[k].waiting) : \A j \in 1 .. n : Passes(k, j)}
           c == [k \in Keys |-> IF k \in keys THEN Max(fits(k)) ELSE 0]
           p == [k \in keys |-> Pumped(s, k)]
           t == Taking(s, keys, p)
<1>1. Pump(s, keys) = t
  <2>1. {Taking(s, keys, x) : x \in {p}} = {t}
    OBVIOUS
  <2> QED
    BY <2>1 DEF Pump, Then
<1>2. \A k \in keys : p[k].taken = SubSeq(s.qps[k].waiting, 1, Max(fits(k)))
                      /\ p[k].reads = Cardinality(Reads(k, Max(fits(k))))
  BY DEF Pumped
<1>3. /\ DOMAIN s = Fields /\ DOMAIN s.qps = Keys
      /\ \A k \in Keys : /\ s.qps[k].waiting \in Seq(Ids(s)) /\ Len(s.qps[k].waiting) \in Nat
                         /\ DOMAIN s.qps[k] = QueueFields
                         /\ s.qps[k].building \in Seq(Ids(s)) /\ s.qps[k].outstanding \in Seq(Ids(s))
  BY DEF Shape, QueueShape
<1>4. \A k \in Keys, n \in Nat : Passes(k, n) =>
        /\ ~BlockedByFence(s, s.work[s.qps[k].waiting[n]])
        /\ s.qps[k].occupied + n <= conf.queueDepth
        /\ UsesReadAtomicCredit(s.work[s.qps[k].waiting[n]].opcode)
             => s.qps[k].readAtomic + Cardinality(Reads(k, n)) <= conf.maxReadAtomic
  OBVIOUS
<1> HIDE DEF Passes
<1>6. ASSUME NEW k \in Keys
      PROVE  /\ Max(fits(k)) \in 0 .. Len(s.qps[k].waiting)
             /\ \A j \in 1 .. Max(fits(k)) : Passes(k, j)
  <2> DEFINE S == fits(k)
  <2>1. S \subseteq 0 .. Len(s.qps[k].waiting) /\ 0 \in S
    BY <1>3
  <2>2. \A n \in S : \A j \in 1 .. n : Passes(k, j)
    OBVIOUS
  <2>3. Len(s.qps[k].waiting) \in Nat
    BY <1>3
  <2> HIDE DEF S
  <2>4. Max(S) \in S
    BY <2>1, <2>3, Largest
  <2>5. Max(S) \in 0 .. Len(s.qps[k].waiting) /\ \A j \in 1 .. Max(S) : Passes(k, j)
    BY <2>1, <2>2, <2>4
  <2> QED
    BY <2>5 DEF S
<1>7. p \in [keys -> {p[k] : k \in keys}]
  OBVIOUS
<1> HIDE DEF fits, p
<1>8. ASSUME NEW k \in Keys
      PROVE  c[k] \in 0 .. Len(s.qps[k].waiting) /\ \A j \in 1 .. c[k] : j \in Nat /\ Passes(k, j)
  <2>1. CASE k \in keys
    BY <1>3, <1>6, <2>1
  <2>2. CASE k \notin keys
    BY <1>3, <2>2
  <2> QED
    BY <2>1, <2>2
<1>9. \A k \in keys : p[k].taken = SubSeq(s.qps[k].waiting, 1, c[k])
                      /\ p[k].reads = Cardinality(Reads(k, c[k])) /\ Len(p[k].taken) = c[k]
  <2> SUFFICES ASSUME NEW k \in keys
               PROVE  /\ p[k].taken = SubSeq(s.qps[k].waiting, 1, c[k])
                      /\ p[k].reads = Cardinality(Reads(k, c[k])) /\ Len(p[k].taken) = c[k]
    OBVIOUS
  <2>1. c[k] = Max(fits(k)) /\ k \in Keys
    OBVIOUS
  <2> HIDE DEF c, Reads
  <2>2. p[k].taken = SubSeq(s.qps[k].waiting, 1, c[k]) /\ p[k].reads = Cardinality(Reads(k, c[k]))
    BY <1>2, <2>1
  <2>3. Len(SubSeq(s.qps[k].waiting, 1, c[k])) = c[k]
    BY <1>3, <1>8, <2>1
  <2> QED
    BY <2>2, <2>3
<1>10. c \in [Keys -> Nat] /\ \A k \in Keys \ keys : c[k] = 0
  BY <1>3, <1>8
<1> HIDE DEF c
<1> DEFINE taken == UNION {ToSet(p[k].taken) : k \in keys}
<1>11. /\ DOMAIN t = Fields
       /\ t.work = [i \in DOMAIN s.work |->
                      IF i \in taken THEN [s.work[i] EXCEPT !.issued = TRUE] ELSE s.work[i]]
       /\ t.qps = [k \in DOMAIN s.qps |->
                     IF k \in keys THEN Issuing(s.qps[k], p[k]) ELSE s.qps[k]]
       /\ \A f \in Fields \ {"work", "qps"} : t[f] = s[f]
  BY <1>3 DEF Taking, Fields
<1> HIDE DEF t
<1>12. \A i : i \in taken <=> \E k \in Keys : i \in ToSet(SubSeq(s.qps[k].waiting, 1, c[k]))
  <2>1. \A k \in Keys \ keys : ToSet(SubSeq(s.qps[k].waiting, 1, c[k])) = {}
    <3> SUFFICES ASSUME NEW k \in Keys \ keys
                 PROVE  ToSet(SubSeq(s.qps[k].waiting, 1, 0)) = {}
      BY <1>10
    <3>1. SubSeq(s.qps[k].waiting, 1, 0) = <<>>
      BY <1>3
    <3> QED
      BY <3>1 DEF ToSet
  <2>2. \A k \in keys : ToSet(p[k].taken) = ToSet(SubSeq(s.qps[k].waiting, 1, c[k]))
    BY <1>9
  <2> QED
    BY <2>1, <2>2
<1> HIDE DEF taken
<1>13. ASSUME NEW k \in keys
       PROVE  /\ t.qps[k].occupied = s.qps[k].occupied + c[k]
              /\ t.qps[k].readAtomic = s.qps[k].readAtomic + Cardinality(Reads(k, c[k]))
              /\ t.qps[k].waiting = SubSeq(s.qps[k].waiting, c[k] + 1, Len(s.qps[k].waiting))
              /\ t.qps[k].building = s.qps[k].building \o SubSeq(s.qps[k].waiting, 1, c[k])
              /\ t.qps[k].outstanding = s.qps[k].outstanding \o SubSeq(s.qps[k].waiting, 1, c[k])
              /\ t.qps[k].published = s.qps[k].published /\ t.qps[k].fetching = s.qps[k].fetching
  <2> DEFINE q == s.qps[k]
  <2> HIDE DEF Reads
  <2>1. t.qps[k] = Issuing(q, p[k]) /\ DOMAIN q = QueueFields
    BY <1>3, <1>11
  <2>2. /\ p[k].taken = SubSeq(q.waiting, 1, c[k])
        /\ p[k].reads = Cardinality(Reads(k, c[k])) /\ Len(p[k].taken) = c[k]
    BY <1>9
  <2> HIDE DEF q
  <2>3. /\ Issuing(q, p[k]).occupied = q.occupied + Len(p[k].taken)
        /\ Issuing(q, p[k]).readAtomic = q.readAtomic + p[k].reads
        /\ Issuing(q, p[k]).waiting = SubSeq(q.waiting, Len(p[k].taken) + 1, Len(q.waiting))
        /\ Issuing(q, p[k]).building = q.building \o p[k].taken
        /\ Issuing(q, p[k]).outstanding = q.outstanding \o p[k].taken
        /\ Issuing(q, p[k]).published = q.published /\ Issuing(q, p[k]).fetching = q.fetching
    BY <2>1 DEF Issuing, QueueFields
  <2> QED
    BY <2>1, <2>2, <2>3 DEF q
<1>14. ASSUME NEW k \in Keys \ keys
       PROVE  /\ c[k] = 0 /\ t.qps[k] = s.qps[k]
              /\ t.qps[k].waiting = SubSeq(s.qps[k].waiting, c[k] + 1, Len(s.qps[k].waiting))
              /\ t.qps[k].building = s.qps[k].building \o SubSeq(s.qps[k].waiting, 1, c[k])
              /\ t.qps[k].outstanding = s.qps[k].outstanding \o SubSeq(s.qps[k].waiting, 1, c[k])
  <2> DEFINE w == s.qps[k].waiting
             T == Ids(s)
  <2>1. t.qps[k] = s.qps[k] /\ c[k] = 0
    BY <1>3, <1>10, <1>11
  <2>2. w \in Seq(T) /\ s.qps[k].building \in Seq(T) /\ s.qps[k].outstanding \in Seq(T)
    BY <1>3
  <2> HIDE DEF w, T
  <2>3. SubSeq(w, 1, Len(w)) = w /\ SubSeq(w, 1, 0) = <<>>
    BY <2>2
  <2>4. \A q \in Seq(T) : q \o <<>> = q
    OBVIOUS
  <2>5. /\ t.qps[k].waiting = SubSeq(w, c[k] + 1, Len(w))
        /\ t.qps[k].building = s.qps[k].building \o SubSeq(w, 1, c[k])
        /\ t.qps[k].outstanding = s.qps[k].outstanding \o SubSeq(w, 1, c[k])
    BY <2>1, <2>2, <2>3, <2>4 DEF w
  <2> QED
    BY <2>1, <2>5 DEF w
<1>15. ASSUME NEW k \in Keys
       PROVE  /\ c[k] <= Len(s.qps[k].waiting)
              /\ \A j \in 1 .. c[k] :
                   /\ ~BlockedByFence(s, s.work[s.qps[k].waiting[j]])
                   /\ s.qps[k].occupied + j <= conf.queueDepth
                   /\ UsesReadAtomicCredit(s.work[s.qps[k].waiting[j]].opcode)
                        => s.qps[k].readAtomic + Cardinality(Reads(k, j)) <= conf.maxReadAtomic
  <2> HIDE DEF Reads
  <2>1. c[k] \in 0 .. Len(s.qps[k].waiting) /\ Len(s.qps[k].waiting) \in Nat
    BY <1>3, <1>8
  <2>2. \A j \in 1 .. c[k] : j \in Nat /\ Passes(k, j)
    BY <1>8
  <2> QED
    BY <1>4, <2>1, <2>2
<1>16. \A i \in DOMAIN s.work :
         t.work[i] = IF \E k \in Keys : i \in ToSet(SubSeq(s.qps[k].waiting, 1, c[k]))
                     THEN [s.work[i] EXCEPT !.issued = TRUE] ELSE s.work[i]
  BY <1>11, <1>12
<1>17. DOMAIN t.work = DOMAIN s.work /\ DOMAIN t.qps = Keys
  BY <1>3, <1>11
<1>18. \A k \in Keys : /\ t.qps[k].published = s.qps[k].published
                       /\ t.qps[k].fetching = s.qps[k].fetching
  BY <1>13, <1>14
<1>19. Takes(s, t, keys, c)
  BY <1>10, <1>11, <1>13, <1>14, <1>15, <1>16, <1>17, <1>18 DEF Takes
<1> QED
  BY <1>1, <1>19

-----------------------------------------------------------------------------
(* The order of the works of a queue pair.                                 *)

\* A work that has left the NIC, or will not be sent any more.
Done(w) == w.executed \/ w.acked

Payload(w) == HasSourcePayload(w.opcode)

\* The works of the queue pair k.
On(s, k) == {i \in DOMAIN s.work : KeyOf(s.work[i]) = k}

\* Its works between issue and execution, the next one first.
Pipe(q) == (q.fetching \o q.published) \o q.building

\* The copies to make, the next one first.
Lane(s) == s.copying \o s.staging

Copied(s) == {e.id : e \in ToSet(Lane(s))}

Held(s) == UNION {ToSet(s.handoff[a]) : a \in DOMAIN s.handoff}

Waiting(s, k) == ToSet(s.qps[k].waiting)

\* Copies of works are made in the order of their ids, each once.
InLine(q) ==
    \A a, b \in DOMAIN q : a < b /\ q[a].id > 0 /\ q[b].id > 0 => q[a].id < q[b].id

\* Works of a queue pair are issued in the order of their ids, and one without
\* a payload is fenced behind the payloads before it.
InTurn(s) ==
    /\ \A i \in DOMAIN s.work : Done(s.work[i]) => s.work[i].issued
    /\ \A k \in Keys : \A i, j \in On(s, k) : i < j =>
         /\ s.work[j].issued => s.work[i].issued
         /\ Payload(s.work[i]) /\ ~Payload(s.work[j]) => i <= s.work[j].fenceThrough

\* What is issued and not done is in the pipe, in order, behind all that is done.
Piped(s) ==
    \A k \in Keys :
      /\ Ascends(Pipe(s.qps[k]))
      /\ \A i \in ToSet(Pipe(s.qps[k])) :
           /\ i \in On(s, k) /\ s.work[i].issued
           /\ \A j \in On(s, k) : Done(s.work[j]) => j < i
      /\ \A i \in On(s, k) :
           s.work[i].issued /\ ~Done(s.work[i]) => i \in ToSet(Pipe(s.qps[k]))

\* A completion lies before all that is outstanding or not issued yet.
Reported(s) ==
    \A k \in Keys :
      /\ Ascends(s.qps[k].outstanding)
      /\ \A i \in ToSet(s.qps[k].outstanding) : i \in On(s, k) /\ s.work[i].issued
      /\ \A n \in DOMAIN s.cqes : s.cqes[n].key = k =>
           /\ \A i \in ToSet(s.qps[k].outstanding) : s.cqes[n].through < i
           /\ \A i \in On(s, k) : ~s.work[i].issued => s.cqes[n].through < i

\* What a waiting work has before it on its queue pair waits too, or blocks it.
Queued(s) ==
    \A k \in Keys :
      /\ Ascends(s.qps[k].waiting)
      /\ \A i \in Waiting(s, k) : i \in On(s, k) /\ ~s.work[i].issued
      /\ \A j \in Waiting(s, k), i \in On(s, k) : i < j /\ ~s.work[i].issued =>
           i \in Waiting(s, k) \/ i <= s.work[j].fenceThrough

\* A work not issued yet is handed over, copied or waiting, and only one of them;
\* those in out are on their way.  What is handed over is behind everything else.
Placed(s, out) ==
    /\ \A i \in DOMAIN s.work : ~s.work[i].issued =>
         i \in out \cup Held(s) \cup Copied(s) \cup Waiting(s, KeyOf(s.work[i]))
    /\ \A k \in Keys : Waiting(s, k) \cap (out \cup Held(s) \cup Copied(s)) = {}
    /\ out \cap (Held(s) \cup Copied(s)) = {} /\ Held(s) \cap Copied(s) = {}
    /\ \A i \in out \cup Held(s) : i \in DOMAIN s.work /\ ~s.work[i].issued
    /\ \A i \in Copied(s) : i > 0 => /\ i \in DOMAIN s.work /\ ~s.work[i].issued
                                     /\ Staged /\ Payload(s.work[i])
    /\ \A i \in Held(s) : \A j \in DOMAIN s.work \ (out \cup Held(s)) : j < i
    /\ \A a, b \in DOMAIN s.handoff : a < b =>
         \A x \in ToSet(s.handoff[a]), y \in ToSet(s.handoff[b]) : x < y
    /\ conf.cpuHandoff \/ s.handoff = <<>>
    /\ InLine(Lane(s))

Line(s, out) == InTurn(s) /\ Piped(s) /\ Reported(s) /\ Queued(s) /\ Placed(s, out)

\* From s to t nothing moves that the order depends on.
Unmoved(s, t) ==
    /\ DOMAIN t.work = DOMAIN s.work
    /\ \A i \in DOMAIN s.work : /\ KeyOf(t.work[i]) = KeyOf(s.work[i])
                                /\ t.work[i].opcode = s.work[i].opcode
                                /\ t.work[i].fenceThrough = s.work[i].fenceThrough
                                /\ t.work[i].issued = s.work[i].issued
                                /\ Done(t.work[i]) <=> Done(s.work[i])
    /\ \A k \in Keys : /\ t.qps[k].waiting = s.qps[k].waiting
                       /\ Pipe(t.qps[k]) = Pipe(s.qps[k])
                       /\ t.qps[k].outstanding = s.qps[k].outstanding
    /\ t.cqes = s.cqes /\ t.handoff = s.handoff /\ Lane(t) = Lane(s)

LEMMA WorkKey ==
    ASSUME NEW s, Shape(s), NEW i \in DOMAIN s.work
    PROVE  KeyOf(s.work[i]) \in Keys /\ i \in On(s, KeyOf(s.work[i])) /\ i \in Int
<1>1. WorkShape(s.work[i]) /\ DOMAIN s.work \subseteq Ids(s)
  BY DEF Shape
<1>2. KeyOf(s.work[i]) \in Keys
  BY <1>1 DEF WorkShape, KeyOf, Keys
<1>3. i \in Int
  BY <1>1 DEF Ids
<1> QED
  BY <1>2, <1>3 DEF On

LEMMA UnmovedLine ==
    ASSUME NEW s, NEW t, NEW out, Shape(s), Unmoved(s, t), Line(s, out)
    PROVE  Line(t, out)
<1>1. /\ Held(t) = Held(s) /\ Copied(t) = Copied(s)
      /\ \A k \in Keys : On(t, k) = On(s, k) /\ Waiting(t, k) = Waiting(s, k)
  BY DEF Unmoved, Held, Copied, On, Waiting
<1>2. \A k \in Keys : \A i \in On(s, k) : i \in DOMAIN s.work
  BY DEF On
<1>3. \A i \in DOMAIN s.work : Payload(t.work[i]) <=> Payload(s.work[i])
  BY DEF Unmoved, Payload
<1>4. InTurn(t)
  BY <1>1, <1>2, <1>3 DEF Line, InTurn, Unmoved
<1>5. Piped(t)
  BY <1>1, <1>2 DEF Line, Piped, Unmoved
<1>6. Reported(t)
  BY <1>1, <1>2 DEF Line, Reported, Unmoved
<1>7. Queued(t)
  BY <1>1, <1>2 DEF Line, Queued, Unmoved
<1>8. Placed(t, out)
  <2>1. \A i \in DOMAIN s.work : Waiting(t, KeyOf(t.work[i])) = Waiting(s, KeyOf(s.work[i]))
    BY <1>1, WorkKey DEF Unmoved
  <2> QED
    BY <1>1, <1>3, <2>1 DEF Line, Placed, Unmoved
<1> QED
  BY <1>4, <1>5, <1>6, <1>7, <1>8 DEF Line

-----------------------------------------------------------------------------
(* The operators keep the order.                                           *)

\* Pump keeps the order: a work it takes is the next of its queue pair.
LEMMA PumpLine ==
    ASSUME NEW s, Shape(s), NEW keys \in SUBSET Keys, NEW out, Line(s, out)
    PROVE  Line(Pump(s, keys), out)
<1> DEFINE t == Pump(s, keys)
<1>1. PICK c : Takes(s, t, keys, c)
  BY PumpTakes
<1> HIDE DEF t
<1> DEFINE Taken(k) == ToSet(SubSeq(s.qps[k].waiting, 1, c[k]))
           taken == UNION {Taken(k) : k \in Keys}
<1>2. /\ \A i \in DOMAIN s.work : WorkShape(s.work[i]) /\ i \in Int
      /\ \A k \in Keys : /\ QueueShape(s.qps[k], Ids(s))
                         /\ c[k] \in 0 .. Len(s.qps[k].waiting)
  <2>1. \A k \in Keys : QueueShape(s.qps[k], Ids(s)) /\ Len(s.qps[k].waiting) \in Nat
    BY DEF Shape, QueueShape
  <2>2. \A k \in Keys : c[k] \in Nat /\ c[k] <= Len(s.qps[k].waiting)
    BY <1>1 DEF Takes
  <2>3. \A i \in DOMAIN s.work : WorkShape(s.work[i]) /\ i \in Int
    BY WorkKey DEF Shape
  <2> QED
    BY <2>1, <2>2, <2>3
<1>3. Ids(s) \in SUBSET Int
  BY DEF Ids, Shape
<1>4. ASSUME NEW k \in Keys
      PROVE  LET q == s.qps[k]
                 p == SubSeq(q.waiting, 1, c[k])
             IN  /\ p \in Seq(Ids(s)) /\ Ascends(p) /\ Ascends(t.qps[k].waiting)
                 /\ Waiting(s, k) = Taken(k) \cup Waiting(t, k)
                 /\ \A x \in Taken(k), y \in Waiting(t, k) : x < y
                 /\ \A x \in Taken(k) : ~BlockedByFence(s, s.work[x])
                 /\ t.qps[k].outstanding = q.outstanding \o p
                 /\ Pipe(t.qps[k]) = Pipe(q) \o p /\ Pipe(q) \in Seq(Ids(s))
                 /\ ToSet(t.qps[k].outstanding) = ToSet(q.outstanding) \cup Taken(k)
                 /\ ToSet(Pipe(t.qps[k])) = ToSet(Pipe(q)) \cup Taken(k)
  <2> DEFINE q == s.qps[k]
             n == c[k]
             T == Ids(s)
             p == SubSeq(q.waiting, 1, n)
             r == SubSeq(q.waiting, n + 1, Len(q.waiting))
  <2>1. /\ q.waiting \in Seq(T) /\ n \in 0 .. Len(q.waiting) /\ q.outstanding \in Seq(T)
        /\ q.fetching \in Seq(T) /\ q.published \in Seq(T) /\ q.building \in Seq(T)
        /\ Ascends(q.waiting) /\ T \in SUBSET Int
    BY <1>2, <1>3 DEF QueueShape, Line, Queued
  <2>2. /\ t.qps[k].waiting = r /\ t.qps[k].building = q.building \o p
        /\ t.qps[k].outstanding = q.outstanding \o p
        /\ t.qps[k].published = q.published /\ t.qps[k].fetching = q.fetching
        /\ \A j \in 1 .. n : ~BlockedByFence(s, s.work[q.waiting[j]])
    BY <1>1 DEF Takes
  <2> HIDE DEF q, n, T
  <2>3. /\ p \in Seq(T) /\ r \in Seq(T) /\ ToSet(q.waiting) = ToSet(p) \cup ToSet(r)
        /\ Ascends(p) /\ Ascends(r) /\ \A x \in ToSet(p), y \in ToSet(r) : x < y
    BY <2>1, Cut
  <2>4. \A x \in ToSet(p) : ~BlockedByFence(s, s.work[x])
    <3>1. \A x \in ToSet(p) : \E j \in 1 .. n : x = q.waiting[j]
      BY <2>1, Part
    <3> QED
      BY <2>2, <3>1
  <2> HIDE DEF p, r
  <2>5. ToSet(q.outstanding \o p) = ToSet(q.outstanding) \cup ToSet(p)
    BY <2>1, <2>3, Parts
  <2>6. Pipe(t.qps[k]) = Pipe(q) \o p /\ Pipe(q) \in Seq(T)
    <3> DEFINE h == q.fetching \o q.published
    <3>1. h \in Seq(T) /\ Pipe(q) = h \o q.building
      BY <2>1 DEF Pipe
    <3>2. Pipe(t.qps[k]) = h \o (q.building \o p)
      BY <2>2 DEF Pipe
    <3> HIDE DEF h
    <3>3. (h \o q.building) \o p = h \o (q.building \o p)
      <4> DEFINE b == q.building
      <4>1. h \in Seq(T) /\ b \in Seq(T) /\ p \in Seq(T)
        BY <2>1, <2>3, <3>1
      <4> HIDE DEF b
      <4>2. (h \o b) \o p = h \o (b \o p)
        BY ONLY <4>1, Regrouped
      <4> QED
        BY <4>2 DEF b
    <3>4. h \o q.building \in Seq(T)
      BY <2>1, <3>1
    <3> QED
      BY <3>1, <3>2, <3>3, <3>4
  <2>7. ToSet(Pipe(q) \o p) = ToSet(Pipe(q)) \cup ToSet(p)
    BY <2>3, <2>6, Parts
  <2>8. Waiting(t, k) = ToSet(r) /\ Waiting(s, k) = ToSet(q.waiting)
    BY <2>2 DEF Waiting, q
  <2> QED
    BY <2>2, <2>3, <2>4, <2>5, <2>6, <2>7, <2>8 DEF p, r, q, n, T
<1>5. \A i : i \in taken <=> \E k \in Keys : i \in Taken(k)
  OBVIOUS
<1> HIDE DEF Taken, taken
<1>6. /\ DOMAIN t.work = DOMAIN s.work
      /\ \A i \in DOMAIN s.work : /\ KeyOf(t.work[i]) = KeyOf(s.work[i])
                                  /\ t.work[i].opcode = s.work[i].opcode
                                  /\ t.work[i].fenceThrough = s.work[i].fenceThrough
                                  /\ t.work[i].issued <=> i \in taken \/ s.work[i].issued
                                  /\ Done(t.work[i]) <=> Done(s.work[i])
                                  /\ Payload(t.work[i]) <=> Payload(s.work[i])
  <2> SUFFICES ASSUME NEW i \in DOMAIN s.work
               PROVE  /\ KeyOf(t.work[i]) = KeyOf(s.work[i])
                      /\ t.work[i].opcode = s.work[i].opcode
                      /\ t.work[i].fenceThrough = s.work[i].fenceThrough
                      /\ t.work[i].issued <=> i \in taken \/ s.work[i].issued
                      /\ Done(t.work[i]) <=> Done(s.work[i])
                      /\ Payload(t.work[i]) <=> Payload(s.work[i])
    BY <1>1 DEF Takes
  <2>1. DOMAIN s.work[i] = WorkFields
    BY <1>2 DEF WorkShape
  <2>2. t.work[i] = IF i \in taken THEN [s.work[i] EXCEPT !.issued = TRUE] ELSE s.work[i]
    BY <1>1, <1>5 DEF Takes, Taken
  <2>3. CASE i \in taken
    BY <2>1, <2>2, <2>3 DEF WorkFields, KeyOf, Done, Payload
  <2>4. CASE i \notin taken
    BY <2>2, <2>4
  <2> QED
    BY <2>3, <2>4
<1>7. /\ t.cqes = s.cqes /\ t.handoff = s.handoff
      /\ Lane(t) = Lane(s) /\ Copied(t) = Copied(s) /\ Held(t) = Held(s)
      /\ \A k \in Keys : On(t, k) = On(s, k)
  <2>1. t.cqes = s.cqes /\ t.handoff = s.handoff /\ t.copying = s.copying /\ t.staging = s.staging
    BY <1>1 DEF Takes, Fields
  <2> QED
    BY <1>6, <2>1 DEF Lane, Copied, Held, On
<1>8. \A k \in Keys : \A i \in On(s, k) : i \in DOMAIN s.work /\ KeyOf(s.work[i]) = k /\ i \in Int
  BY <1>2 DEF On
\* What is taken was not issued, and nothing behind it was.
<1>9. ASSUME NEW k \in Keys, NEW j \in Taken(k)
      PROVE  /\ j \in On(s, k) /\ ~s.work[j].issued /\ j \in Waiting(s, k)
             /\ \A i \in On(s, k) : s.work[i].issued => i < j
  <2>1. j \in On(s, k) /\ ~s.work[j].issued /\ j \in Waiting(s, k)
    BY <1>4 DEF Line, Queued
  <2>2. ASSUME NEW i \in On(s, k), s.work[i].issued PROVE i < j
    <3>1. ~(j < i)
      BY <2>1, <2>2 DEF Line, InTurn
    <3>2. i # j
      BY <2>1, <2>2
    <3> QED
      BY <1>8, <2>1, <3>1, <3>2
  <2> QED
    BY <2>1, <2>2
<1>10. \A k \in Keys : \A i \in On(s, k) : t.work[i].issued <=> i \in Taken(k) \/ s.work[i].issued
  BY <1>5, <1>6, <1>8, <1>9
<1>11. InTurn(t)
  <2>1. ASSUME NEW k \in Keys, NEW i \in On(s, k), NEW j \in On(s, k), i < j, t.work[j].issued
        PROVE  t.work[i].issued
    <3>1. CASE s.work[j].issued
      BY <1>10, <2>1, <3>1 DEF Line, InTurn
    <3>2. CASE j \in Taken(k) /\ ~s.work[i].issued
      <4>1. i \notin Waiting(s, k) => FALSE
        <5>1. SUFFICES ASSUME i \notin Waiting(s, k) PROVE FALSE
          OBVIOUS
        <5>2. i <= s.work[j].fenceThrough
          BY <1>9, <2>1, <3>2, <5>1 DEF Line, Queued
        <5>3. s.work[i].peer = s.work[j].peer
          BY <1>8 DEF KeyOf
        <5>4. ~s.work[i].acked
          BY <1>8, <3>2 DEF Line, InTurn, Done
        <5>5. BlockedByFence(s, s.work[j])
          BY <1>8, <5>2, <5>3, <5>4 DEF BlockedByFence
        <5> QED
          BY <1>4, <3>2, <5>5
      <4>2. i \in Taken(k)
        <5>1. i \in Waiting(t, k) => j < i
          BY <1>4, <3>2
        <5> QED
          BY <1>4, <1>8, <2>1, <4>1, <5>1
      <4> QED
        BY <1>10, <4>2
    <3> QED
      BY <1>10, <2>1, <3>1, <3>2
  <2>2. \A i \in DOMAIN t.work : Done(t.work[i]) => t.work[i].issued
    BY <1>6 DEF Line, InTurn
  <2>3. \A k \in Keys : \A i, j \in On(s, k) : i < j =>
          (Payload(t.work[i]) /\ ~Payload(t.work[j]) => i <= t.work[j].fenceThrough)
    BY <1>6, <1>8 DEF Line, InTurn
  <2> QED
    BY <1>7, <2>1, <2>2, <2>3 DEF InTurn
<1>12. Piped(t)
  <2> SUFFICES ASSUME NEW k \in Keys
               PROVE  /\ Ascends(Pipe(t.qps[k]))
                      /\ \A i \in ToSet(Pipe(t.qps[k])) :
                           /\ i \in On(s, k) /\ t.work[i].issued
                           /\ \A j \in On(s, k) : Done(t.work[j]) => j < i
                      /\ \A i \in On(s, k) : t.work[i].issued /\ ~Done(t.work[i]) =>
                           i \in ToSet(Pipe(t.qps[k]))
    BY <1>7 DEF Piped
  <2>1. \A x \in ToSet(Pipe(s.qps[k])), y \in Taken(k) : x < y
    BY <1>9 DEF Line, Piped
  <2>2. Ascends(Pipe(t.qps[k]))
    <3> DEFINE p == SubSeq(s.qps[k].waiting, 1, c[k])
    <3>1. /\ p \in Seq(Ids(s)) /\ Ascends(p) /\ Pipe(t.qps[k]) = Pipe(s.qps[k]) \o p
          /\ Pipe(s.qps[k]) \in Seq(Ids(s)) /\ Ascends(Pipe(s.qps[k]))
      BY <1>4 DEF Line, Piped
    <3>2. \A x \in ToSet(Pipe(s.qps[k])), y \in ToSet(p) : x < y
      BY <2>1 DEF Taken
    <3> HIDE DEF p
    <3> QED
      BY <1>3, <3>1, <3>2, AscendingParts
  <2>3. ASSUME NEW i \in ToSet(Pipe(t.qps[k]))
        PROVE  /\ i \in On(s, k) /\ t.work[i].issued
               /\ \A j \in On(s, k) : Done(t.work[j]) => j < i
    <3>1. i \in ToSet(Pipe(s.qps[k])) \/ i \in Taken(k)
      BY <1>4
    <3>2. CASE i \in ToSet(Pipe(s.qps[k]))
      BY <1>6, <1>8, <1>10, <3>2 DEF Line, Piped
    <3>3. CASE i \in Taken(k)
      BY <1>6, <1>8, <1>9, <1>10, <3>3 DEF Line, InTurn
    <3> QED
      BY <3>1, <3>2, <3>3
  <2>4. ASSUME NEW i \in On(s, k), t.work[i].issued, ~Done(t.work[i])
        PROVE  i \in ToSet(Pipe(t.qps[k]))
    <3>1. i \in Taken(k) \/ i \in ToSet(Pipe(s.qps[k]))
      BY <1>6, <1>8, <1>10, <2>4 DEF Line, Piped
    <3> QED
      BY <1>4, <3>1
  <2> QED
    BY <2>2, <2>3, <2>4
<1>13. Reported(t)
  <2> SUFFICES ASSUME NEW k \in Keys
               PROVE  /\ Ascends(t.qps[k].outstanding)
                      /\ \A i \in ToSet(t.qps[k].outstanding) : i \in On(s, k) /\ t.work[i].issued
                      /\ \A n \in DOMAIN s.cqes : s.cqes[n].key = k =>
                           /\ \A i \in ToSet(t.qps[k].outstanding) : s.cqes[n].through < i
                           /\ \A i \in On(s, k) : ~t.work[i].issued => s.cqes[n].through < i
    BY <1>7 DEF Reported
  <2>1. Ascends(t.qps[k].outstanding)
    <3> DEFINE p == SubSeq(s.qps[k].waiting, 1, c[k])
               q == s.qps[k].outstanding
    <3>1. /\ p \in Seq(Ids(s)) /\ Ascends(p) /\ t.qps[k].outstanding = q \o p
          /\ q \in Seq(Ids(s)) /\ Ascends(q)
      BY <1>2, <1>4 DEF Line, Reported, QueueShape
    <3>2. \A x \in ToSet(q), y \in ToSet(p) : x < y
      BY <1>9 DEF Taken, Line, Reported
    <3> HIDE DEF p, q
    <3> QED
      BY <1>3, <3>1, <3>2, AscendingParts
  <2>2. ToSet(t.qps[k].outstanding) = ToSet(s.qps[k].outstanding) \cup Taken(k)
    BY <1>4
  <2>3. ASSUME NEW i \in ToSet(t.qps[k].outstanding)
        PROVE  i \in On(s, k) /\ t.work[i].issued
    BY <1>9, <1>10, <2>2 DEF Line, Reported
  <2>4. ASSUME NEW n \in DOMAIN s.cqes, s.cqes[n].key = k
        PROVE  /\ \A i \in ToSet(t.qps[k].outstanding) : s.cqes[n].through < i
               /\ \A i \in On(s, k) : ~t.work[i].issued => s.cqes[n].through < i
    BY <1>9, <1>10, <2>2, <2>4 DEF Line, Reported
  <2> QED
    BY <2>1, <2>3, <2>4
\* What stays in the queue was not taken.
<1>14. ASSUME NEW k \in Keys, NEW i \in Waiting(t, k)
       PROVE  i \in Waiting(s, k) /\ i \in On(s, k) /\ i \notin Taken(k) /\ ~t.work[i].issued
  <2>1. i \in Waiting(s, k) /\ i \in On(s, k) /\ ~s.work[i].issued
    BY <1>4 DEF Line, Queued
  <2>2. i \notin Taken(k)
    <3>1. i \in Taken(k) => i < i
      BY <1>4
    <3> QED
      BY <1>8, <2>1, <3>1
  <2> QED
    BY <1>10, <2>1, <2>2
<1>15. Queued(t)
  <2>1. ASSUME NEW k \in Keys, NEW j \in Waiting(t, k), NEW i \in On(s, k), i < j, ~t.work[i].issued
        PROVE  i \in Waiting(t, k) \/ i <= t.work[j].fenceThrough
    <3>1. i \in Waiting(s, k) \/ i <= s.work[j].fenceThrough
      BY <1>10, <1>14, <2>1 DEF Line, Queued
    <3>2. i \notin Taken(k)
      BY <1>10, <2>1
    <3> QED
      BY <1>4, <1>6, <1>8, <1>14, <3>1, <3>2
  <2> QED
    BY <1>4, <1>7, <1>14, <2>1 DEF Queued
<1>16. Placed(t, out)
  <2>1. ASSUME NEW i \in DOMAIN s.work, ~t.work[i].issued
        PROVE  i \in out \cup Held(s) \cup Copied(s) \cup Waiting(t, KeyOf(s.work[i]))
    <3> DEFINE k == KeyOf(s.work[i])
    <3>1. k \in Keys /\ i \in On(s, k)
      BY WorkKey
    <3>2. ~s.work[i].issued /\ i \notin Taken(k)
      BY <1>10, <2>1, <3>1
    <3>3. i \in out \cup Held(s) \cup Copied(s) \cup Waiting(s, k)
      BY <3>2 DEF Line, Placed
    <3>4. Waiting(s, k) = Taken(k) \cup Waiting(t, k)
      BY <1>4, <3>1
    <3> QED
      BY <3>2, <3>3, <3>4
  <2>2. \A k \in Keys : Waiting(t, k) \cap (out \cup Held(s) \cup Copied(s)) = {}
    BY <1>14 DEF Line, Placed
  <2>3. ASSUME NEW i \in DOMAIN s.work, ~s.work[i].issued, i \in out \cup Held(s) \cup Copied(s)
        PROVE  ~t.work[i].issued
    <3> DEFINE k == KeyOf(s.work[i])
    <3>1. k \in Keys /\ i \in On(s, k)
      BY WorkKey
    <3>2. i \notin Waiting(s, k)
      BY <2>3, <3>1 DEF Line, Placed
    <3> QED
      BY <1>9, <1>10, <2>3, <3>1, <3>2
  <2>4. \A i \in out \cup Held(s) : i \in DOMAIN s.work /\ ~t.work[i].issued
    BY <2>3 DEF Line, Placed
  <2>5. \A i \in Copied(s) : i > 0 => /\ i \in DOMAIN s.work /\ ~t.work[i].issued
                                      /\ Staged /\ Payload(t.work[i])
    BY <1>6, <2>3 DEF Line, Placed
  <2>6. \A i \in DOMAIN s.work : KeyOf(t.work[i]) = KeyOf(s.work[i])
    BY <1>6
  <2> QED
    BY <1>6, <1>7, <2>1, <2>2, <2>4, <2>5, <2>6 DEF Line, Placed
<1> QED
  BY <1>11, <1>12, <1>13, <1>15, <1>16 DEF Line, t

\* Works have joined the send queues, before Pump.
Joined(s, t, ids) ==
    /\ Shape(t) /\ \A f \in Fields \ {"qps"} : t[f] = s[f]
    /\ \A k \in Keys :
         /\ \A f \in QueueFields \ {"waiting"} : t.qps[k][f] = s.qps[k][f]
         /\ Waiting(t, k) = Waiting(s, k) \cup {i \in ids : KeyOf(s.work[i]) = k}
         /\ Ascends(t.qps[k].waiting)

LEMMA EnqueuedIs ==
    ASSUME NEW s, Shape(s), NEW ids \in SUBSET Ids(s)
    PROVE  \E t, keys : /\ Enqueued(s, ids) = Pump(t, keys) /\ keys \in SUBSET Keys
                        /\ Joined(s, t, ids)
<1> DEFINE Of(k) == {i \in ids : KeyOf(s.work[i]) = k}
           At(k) == ToSet(s.qps[k].waiting) \cup Of(k)
           t == [s EXCEPT !.qps = [k \in DOMAIN s.qps |->
                    [s.qps[k] EXCEPT !.waiting = Ascending(At(k))]]]
           keys == {k \in DOMAIN s.qps : Of(k) # {}}
<1>1. Enqueued(s, ids) = Pump(t, keys)
  BY DEF Enqueued
<1>2. DOMAIN s = Fields /\ DOMAIN s.qps = Keys /\ s.nextId \in Nat \ {0}
  BY DEF Shape
<1>3. /\ DOMAIN t = Fields
      /\ t.qps = [k \in Keys |-> [s.qps[k] EXCEPT !.waiting = Ascending(At(k))]]
      /\ \A f \in Fields \ {"qps"} : t[f] = s[f]
  BY <1>2 DEF Fields
<1>4. keys \in SUBSET Keys
  BY <1>2
<1>5. ASSUME NEW k \in Keys
      PROVE  /\ Ascending(At(k)) \in Seq(Ids(s)) /\ ToSet(Ascending(At(k))) = At(k)
             /\ Ascends(Ascending(At(k)))
  <2>1. s.qps[k].waiting \in Seq(Ids(s))
    BY DEF Shape, QueueShape
  <2>2. ToSet(s.qps[k].waiting) \subseteq Ids(s)
    BY <2>1, FinitelyHeld
  <2>3. At(k) \subseteq Ids(s)
    BY <2>2
  <2> DEFINE S == At(k)
  <2> HIDE DEF At, S
  <2>4. IsFiniteSet(Ids(s)) /\ Ids(s) \subseteq Nat
    BY <1>2, FS_Interval DEF Ids
  <2>5. S \subseteq Ids(s) /\ S \subseteq Nat /\ IsFiniteSet(S)
    BY <2>3, <2>4, FS_Subset DEF S
  <2>6. /\ Ascending(S) \in Seq(S) /\ ToSet(Ascending(S)) = S
        /\ \A a, b \in DOMAIN Ascending(S) : a < b => Ascending(S)[a] < Ascending(S)[b]
    BY <2>5, AscendingIs
  <2>7. Ascends(Ascending(S))
    BY <2>6 DEF Ascends
  <2>8. Ascending(S) \in Seq(Ids(s))
    <3>1. Ascending(S) \in Seq(S) /\ S \subseteq Ids(s)
      BY <2>5, <2>6
    <3> QED
      BY <3>1
  <2> QED
    BY <2>6, <2>7, <2>8 DEF S
<1> HIDE DEF keys, t
<1>6. ASSUME NEW k \in Keys
      PROVE  /\ QueueShape(t.qps[k], Ids(s)) /\ Ascends(t.qps[k].waiting)
             /\ \A f \in QueueFields \ {"waiting"} : t.qps[k][f] = s.qps[k][f]
             /\ Waiting(t, k) = Waiting(s, k) \cup {i \in ids : KeyOf(s.work[i]) = k}
  <2> DEFINE w == Ascending(At(k))
  <2>1. t.qps[k] = [s.qps[k] EXCEPT !.waiting = w]
    BY <1>3
  <2>2. QueueShape(s.qps[k], Ids(s))
    BY DEF Shape
  <2>3. At(k) = Waiting(s, k) \cup {i \in ids : KeyOf(s.work[i]) = k}
    BY DEF Waiting
  <2>4. w \in Seq(Ids(s)) /\ ToSet(w) = At(k) /\ Ascends(w)
    BY <1>5
  <2> HIDE DEF w, At
  <2>5. t.qps[k].waiting = w /\ QueueShape(t.qps[k], Ids(s))
    BY <2>1, <2>2, <2>4 DEF QueueShape, QueueFields
  <2>6. \A f \in QueueFields \ {"waiting"} : t.qps[k][f] = s.qps[k][f]
    BY <2>1, <2>2 DEF QueueShape, QueueFields
  <2>7. Waiting(t, k) = At(k)
    BY <2>4, <2>5 DEF Waiting
  <2> QED
    BY <2>3, <2>4, <2>5, <2>6, <2>7
<1>7. Ids(t) = Ids(s) /\ DOMAIN t.qps = Keys
  BY <1>3 DEF Ids, Fields
<1>8. Shape(t)
  BY <1>3, <1>6, <1>7 DEF Shape, Fields
<1>9. Joined(s, t, ids)
  BY <1>3, <1>6, <1>8 DEF Joined
<1> QED
  BY <1>1, <1>4, <1>9

\* Works on their way join their send queues: nothing that is still to come on
\* their queue pair is before them, unless it blocks them.
LEMMA EnqueuedLine ==
    ASSUME NEW s, Shape(s), NEW out, Line(s, out), NEW ids \in SUBSET out,
           \A i \in Held(s), j \in ids : j < i,
           \A k \in Keys : \A i, j \in On(s, k) : j \in ids /\ i < j /\ ~s.work[i].issued =>
             i \in ids \cup Waiting(s, k) \/ i <= s.work[j].fenceThrough
    PROVE  Line(Enqueued(s, ids), out \ ids)
<1>1. ids \in SUBSET Ids(s) /\ \A i \in ids : i \in DOMAIN s.work /\ ~s.work[i].issued
  BY DEF Line, Placed, Shape
<1>2. PICK t, keys : /\ Enqueued(s, ids) = Pump(t, keys) /\ keys \in SUBSET Keys
                     /\ Joined(s, t, ids)
  BY <1>1, EnqueuedIs
<1>3. /\ t.work = s.work /\ t.cqes = s.cqes /\ t.handoff = s.handoff
      /\ Lane(t) = Lane(s) /\ Copied(t) = Copied(s) /\ Held(t) = Held(s)
      /\ \A k \in Keys : On(t, k) = On(s, k)
  BY <1>2 DEF Joined, Fields, Lane, Copied, Held, On
<1>4. \A k \in Keys : /\ t.qps[k].outstanding = s.qps[k].outstanding
                      /\ Pipe(t.qps[k]) = Pipe(s.qps[k])
                      /\ Waiting(t, k) = Waiting(s, k) \cup {i \in ids : i \in On(s, k)}
                      /\ Ascends(t.qps[k].waiting)
  BY <1>1, <1>2 DEF Joined, QueueFields, Pipe, On
<1>5. InTurn(t) /\ Piped(t) /\ Reported(t)
  BY <1>3, <1>4 DEF Line, InTurn, Piped, Reported
<1>6. Queued(t)
  BY <1>1, <1>3, <1>4 DEF Line, Queued
<1>7. Placed(t, out \ ids)
  <2>1. ASSUME NEW i \in DOMAIN s.work, ~s.work[i].issued
        PROVE  i \in (out \ ids) \cup Held(s) \cup Copied(s) \cup Waiting(t, KeyOf(s.work[i]))
    <3>1. KeyOf(s.work[i]) \in Keys /\ i \in On(s, KeyOf(s.work[i]))
      BY WorkKey
    <3>2. i \in out \cup Held(s) \cup Copied(s) \cup Waiting(s, KeyOf(s.work[i]))
      BY <2>1 DEF Line, Placed
    <3> QED
      BY <1>4, <3>1, <3>2
  <2>2. \A k \in Keys : Waiting(t, k) \cap ((out \ ids) \cup Held(s) \cup Copied(s)) = {}
    BY <1>4 DEF Line, Placed
  <2>3. ASSUME NEW i \in Held(s), NEW j \in DOMAIN s.work \ ((out \ ids) \cup Held(s))
        PROVE  j < i
    <3>1. j \notin out => j < i
      BY DEF Line, Placed
    <3> QED
      BY <3>1
  <2> QED
    BY <1>3, <2>1, <2>2, <2>3 DEF Line, Placed
<1>8. Line(t, out \ ids)
  BY <1>5, <1>6, <1>7 DEF Line
<1>9. Shape(t)
  BY <1>2 DEF Joined
<1> QED
  BY <1>2, <1>8, <1>9, PumpLine

\* Copies have started: the first n of the staging queue.
Starts(s, t, n) ==
    /\ DOMAIN t = Fields
    /\ \A f \in Fields \ {"staging", "used", "copying", "work"} : t[f] = s[f]
    /\ n \in 0 .. Len(s.staging)
    /\ t.staging = SubSeq(s.staging, n + 1, Len(s.staging))
    /\ t.copying = s.copying \o SubSeq(s.staging, 1, n)
    /\ t.used = s.used + Bytes(s.staging, n)
    /\ \A j \in 1 .. n : s.used + Bytes(s.staging, j) <= conf.stagingBuffer
    /\ DOMAIN t.work = DOMAIN s.work
    /\ \A i \in DOMAIN s.work :
         /\ \A f \in WorkFields \ {"stagingAllocated"} : t.work[i][f] = s.work[i][f]
         /\ t.work[i].stagingAllocated <=>
              s.work[i].stagingAllocated \/ \E j \in 1 .. n : s.staging[j].id = i

LEMMA PumpSourceStagingIs ==
    ASSUME NEW s, Shape(s)
    PROVE  \E n : Starts(s, PumpSourceStaging(s), n)
<1> DEFINE Fits(j) == s.used + Bytes(s.staging, j) <= conf.stagingBuffer
           fits == {n \in 0 .. Len(s.staging) : \A j \in 1 .. n : Fits(j)}
           count == Max(fits)
           started == SubSeq(s.staging, 1, count)
           ids == {e.id : e \in ToSet(started)}
           t == PumpSourceStaging(s)
<1>1. /\ DOMAIN s = Fields /\ s.staging \in Seq(ToSet(s.staging)) /\ Len(s.staging) \in Nat
      /\ \A i \in DOMAIN s.work : DOMAIN s.work[i] = WorkFields
  BY DEF Shape, IsLane, WorkShape
<1>2. /\ DOMAIN t = Fields
      /\ t.staging = SubSeq(s.staging, count + 1, Len(s.staging))
      /\ t.copying = s.copying \o started
      /\ t.used = s.used + Bytes(s.staging, count)
      /\ t.work = [i \in DOMAIN s.work |->
                     [s.work[i] EXCEPT !.stagingAllocated = @ \/ i \in ids]]
      /\ \A f \in Fields \ {"staging", "used", "copying", "work"} : t[f] = s[f]
  BY <1>1 DEF PumpSourceStaging, Fields
<1> HIDE DEF Fits
<1>3. fits \subseteq 0 .. Len(s.staging) /\ 0 \in fits /\ \A n \in fits : \A j \in 1 .. n : Fits(j)
  BY <1>1
<1> HIDE DEF fits, t
<1>4. count \in 0 .. Len(s.staging) /\ \A j \in 1 .. count : Fits(j)
  <2>1. count \in fits
    BY <1>1, <1>3, Largest
  <2> HIDE DEF count
  <2> QED
    BY <1>3, <2>1
<1> HIDE DEF count
<1>5. \A i : i \in ids <=> \E j \in 1 .. count : s.staging[j].id = i
  <2> DEFINE T == ToSet(s.staging)
  <2>1. s.staging \in Seq(T)
    BY <1>1
  <2> HIDE DEF T
  <2>2. DOMAIN started = 1 .. count /\ \A j \in 1 .. count : started[j] = s.staging[j]
    BY <1>1, <1>4, <2>1
  <2> HIDE DEF started
  <2> QED
    BY <2>2 DEF ToSet
<1> HIDE DEF ids
<1>6. ASSUME NEW i \in DOMAIN s.work
      PROVE  /\ \A f \in WorkFields \ {"stagingAllocated"} : t.work[i][f] = s.work[i][f]
             /\ t.work[i].stagingAllocated <=> s.work[i].stagingAllocated \/ i \in ids
  <2>1. t.work[i] = [s.work[i] EXCEPT !.stagingAllocated = @ \/ i \in ids]
    BY <1>2
  <2> QED
    BY <1>1, <2>1 DEF WorkFields
<1>7. DOMAIN t.work = DOMAIN s.work
  BY <1>2
<1>8. Starts(s, t, count)
  BY <1>2, <1>4, <1>5, <1>6, <1>7 DEF Starts, Fits, started
<1> QED
  BY <1>8 DEF t

LEMMA StagingLine ==
    ASSUME NEW s, Shape(s), NEW out, Line(s, out)
    PROVE  Line(PumpSourceStaging(s), out)
<1> DEFINE t == PumpSourceStaging(s)
<1>1. PICK n : Starts(s, t, n)
  BY PumpSourceStagingIs
<1> HIDE DEF t
<1>2. Lane(t) = Lane(s)
  <2> DEFINE T == ToSet(s.copying) \cup ToSet(s.staging)
             q == s.copying
             r == s.staging
             a == SubSeq(r, 1, n)
             b == SubSeq(r, n + 1, Len(r))
  <2>1. q \in Seq(ToSet(s.copying)) /\ r \in Seq(ToSet(s.staging))
    BY DEF Shape, IsLane
  <2>2. q \in Seq(T) /\ r \in Seq(T) /\ n \in 0 .. Len(r)
    BY <1>1, <2>1 DEF Starts
  <2>3. Lane(t) = (q \o a) \o b /\ Lane(s) = q \o r
    BY <1>1 DEF Starts, Lane
  <2> HIDE DEF T, q, r
  <2>4. a \o b = r
    BY <2>2, Rejoined
  <2>5. q \in Seq(T) /\ a \in Seq(T) /\ b \in Seq(T)
    BY <2>2
  <2> HIDE DEF a, b
  <2>6. (q \o a) \o b = q \o (a \o b)
    BY ONLY <2>5, Regrouped
  <2> QED
    BY <2>3, <2>4, <2>6
<1>3. \A i \in DOMAIN s.work : /\ KeyOf(t.work[i]) = KeyOf(s.work[i])
                               /\ t.work[i].opcode = s.work[i].opcode
                               /\ t.work[i].fenceThrough = s.work[i].fenceThrough
                               /\ t.work[i].issued = s.work[i].issued
                               /\ Done(t.work[i]) <=> Done(s.work[i])
  BY <1>1 DEF Starts, WorkFields, KeyOf, Done
<1>4. Unmoved(s, t)
  BY <1>1, <1>2, <1>3 DEF Starts, Fields, Unmoved
<1> QED
  BY <1>4, UnmovedLine DEF t

\* Copies for works on their way, behind all the others.
LEMMA CopiesLine ==
    ASSUME NEW s, Shape(s), NEW out, Line(s, out), NEW ids \in Seq(Ids(s)), ToSet(ids) = out,
           NEW t, DOMAIN t = Fields, \A f \in Fields \ {"staging"} : t[f] = s[f],
           t.staging = s.staging \o Copies(s, ids),
           \A i \in Held(s), j \in out : j < i,
           \A i \in Copied(s), j \in out : i < j
    PROVE  Line(t, Direct(s, ids))
<1> DEFINE copies == Copies(s, ids)
           new == {i \in out : Staged /\ Payload(s.work[i])}
<1>1. /\ IsLane(copies, s.nextId) /\ Len(copies) \in Nat /\ DOMAIN copies = 1 .. Len(copies)
      /\ {e.id : e \in ToSet(copies)} = new
      /\ \A a, b \in DOMAIN copies : a < b => copies[a].id < copies[b].id
  BY CopiesAre DEF Payload
<1>2. Direct(s, ids) = out \ new
  BY DEF Direct, Payload
<1>3. out \subseteq DOMAIN s.work /\ \A i \in out : i \in Int /\ i > 0 /\ ~s.work[i].issued
  BY DEF Line, Placed, Shape, Ids
<1> HIDE DEF copies
<1>4. /\ Lane(t) = Lane(s) \o copies
      /\ Copied(t) = Copied(s) \cup new
      /\ InLine(Lane(t))
  <2> DEFINE T == ToSet(s.copying) \cup ToSet(s.staging) \cup ToSet(copies)
             q == s.copying
             r == s.staging
             lane == Lane(s)
             longer == Lane(t)
  <2>1. q \in Seq(ToSet(s.copying)) /\ r \in Seq(ToSet(s.staging)) /\ copies \in Seq(ToSet(copies))
    BY <1>1 DEF Shape, IsLane
  <2>2. q \in Seq(T) /\ r \in Seq(T) /\ copies \in Seq(T)
    BY <2>1
  <2>3. longer = q \o (r \o copies) /\ lane = q \o r
    BY DEF Lane, Fields, copies
  <2>4. \A e \in T : e.id \in Int
    BY <1>1 DEF Shape, IsLane
  <2> HIDE DEF T, q, r, lane, longer
  <2>5. (q \o r) \o copies = q \o (r \o copies)
    BY ONLY <2>2, Regrouped
  <2>6. lane \in Seq(T) /\ longer = lane \o copies
    BY <2>2, <2>3, <2>5
  <2>7. ToSet(longer) = ToSet(lane) \cup ToSet(copies)
    BY <2>2, <2>6, Parts
  <2>8. Copied(t) = {e.id : e \in ToSet(lane)} \cup {e.id : e \in ToSet(copies)}
    BY <2>7 DEF Copied, longer
  <2>9. Copied(s) = {e.id : e \in ToSet(lane)}
    BY DEF Copied, lane
  <2>10. InLine(longer)
    <3>1. /\ Len(lane) \in Nat /\ DOMAIN lane = 1 .. Len(lane)
          /\ DOMAIN longer = 1 .. Len(lane) + Len(copies)
          /\ \A n \in 1 .. Len(lane) : longer[n] = lane[n]
          /\ \A n \in 1 .. Len(copies) : longer[Len(lane) + n] = copies[n]
          /\ \A n \in 1 .. Len(lane) : lane[n] \in T
      BY <1>1, <2>2, <2>6
    <3>2. \A n \in DOMAIN lane : lane[n].id \in Copied(s) /\ lane[n].id \in Int
      BY <2>4, <2>9, <3>1 DEF ToSet
    <3>3. \A n \in DOMAIN copies : copies[n].id \in out
      BY <1>1 DEF ToSet
    <3> SUFFICES ASSUME NEW a \in DOMAIN longer, NEW b \in DOMAIN longer, a < b
                 PROVE  longer[a].id > 0 /\ longer[b].id > 0 => longer[a].id < longer[b].id
      BY DEF InLine
    <3>4. CASE b <= Len(lane)
      <4>1. a \in DOMAIN lane /\ b \in DOMAIN lane /\ longer[a] = lane[a] /\ longer[b] = lane[b]
        BY <3>1, <3>4
      <4> QED
        BY <4>1 DEF Line, Placed, InLine, lane
    <3>5. CASE a <= Len(lane) /\ ~(b <= Len(lane))
      <4>1. /\ a \in DOMAIN lane /\ b - Len(lane) \in DOMAIN copies
            /\ longer[a] = lane[a] /\ longer[b] = copies[b - Len(lane)]
        BY <1>1, <3>1, <3>5
      <4>2. longer[a].id \in Copied(s) /\ longer[b].id \in out /\ longer[a].id \in Int
        BY <3>2, <3>3, <4>1
      <4>3. longer[a].id < longer[b].id /\ longer[b].id \in Int
        BY <1>3, <4>2
      <4> QED
        BY <4>2, <4>3
    <3>6. CASE ~(a <= Len(lane))
      <4>1. /\ a - Len(lane) \in DOMAIN copies /\ b - Len(lane) \in DOMAIN copies
            /\ a - Len(lane) < b - Len(lane)
            /\ longer[a] = copies[a - Len(lane)] /\ longer[b] = copies[b - Len(lane)]
        BY <1>1, <3>1, <3>6
      <4>2. longer[a].id < longer[b].id /\ longer[a].id \in out /\ longer[b].id \in out
        BY <1>1, <3>3, <4>1
      <4> QED
        BY <1>3, <4>2
    <3> QED
      BY <1>1, <3>1, <3>4, <3>5, <3>6
  <2> QED
    BY <1>1, <2>6, <2>8, <2>9, <2>10 DEF longer, lane
<1>5. /\ t.work = s.work /\ t.cqes = s.cqes /\ t.handoff = s.handoff /\ t.qps = s.qps
      /\ Held(t) = Held(s)
      /\ \A k \in Keys : On(t, k) = On(s, k) /\ Waiting(t, k) = Waiting(s, k)
  BY DEF Fields, Held, On, Waiting
<1>6. InTurn(t) /\ Piped(t) /\ Reported(t) /\ Queued(t)
  BY <1>5 DEF Line, InTurn, Piped, Reported, Queued
<1>7. Placed(t, out \ new)
  <2>1. ASSUME NEW i \in DOMAIN s.work, ~s.work[i].issued
        PROVE  i \in (out \ new) \cup Held(t) \cup Copied(t) \cup Waiting(t, KeyOf(s.work[i]))
    <3>1. i \in out \cup Held(s) \cup Copied(s) \cup Waiting(s, KeyOf(s.work[i]))
      BY <2>1 DEF Line, Placed
    <3>2. Waiting(t, KeyOf(s.work[i])) = Waiting(s, KeyOf(s.work[i]))
      BY <1>5, WorkKey
    <3> QED
      BY <1>4, <1>5, <3>1, <3>2
  <2>2. /\ \A k \in Keys : Waiting(t, k) \cap ((out \ new) \cup Held(t) \cup Copied(t)) = {}
        /\ (out \ new) \cap (Held(t) \cup Copied(t)) = {} /\ Held(t) \cap Copied(t) = {}
    BY <1>4, <1>5 DEF Line, Placed
  <2>3. \A i \in (out \ new) \cup Held(t) : i \in DOMAIN t.work /\ ~t.work[i].issued
    BY <1>5 DEF Line, Placed
  <2>4. \A i \in Copied(t) : i > 0 => /\ i \in DOMAIN t.work /\ ~t.work[i].issued
                                      /\ Staged /\ Payload(t.work[i])
    BY <1>3, <1>4, <1>5 DEF Line, Placed
  <2>5. \A i \in Held(t) : \A j \in DOMAIN t.work \ ((out \ new) \cup Held(t)) : j < i
    BY <1>5 DEF Line, Placed
  <2> QED
    BY <1>4, <1>5, <2>1, <2>2, <2>3, <2>4, <2>5 DEF Line, Placed
<1> QED
  BY <1>2, <1>6, <1>7 DEF Line

\* Copies join the staging queue.
LEMMA StagingGrows ==
    ASSUME NEW s, Good(s), NEW q, IsLane(q, s.nextId), NEW t, DOMAIN t = Fields,
           t.staging = s.staging \o q, \A f \in Fields \ {"staging"} : t[f] = s[f]
    PROVE  Good(t) /\ Same(s, t)
<1>1. /\ t.work = s.work /\ t.qps = s.qps /\ t.nextId = s.nextId
      /\ t.fences = s.fences /\ t.nextQp = s.nextQp
      /\ t.copying = s.copying /\ t.handoff = s.handoff /\ t.cqes = s.cqes
  BY DEF Fields
<1>2. IsLane(t.staging, s.nextId)
  BY LaneParts DEF Good, Shape
<1>3. Ids(t) = Ids(s)
  BY <1>1 DEF Ids
<1>4. Shape(t)
  BY <1>1, <1>2, <1>3 DEF Good, Shape
<1> QED
  BY <1>1, <1>4, WorksStay

\* The works of a request take their places.
LEMMA StartedLine ==
    ASSUME NEW s, Good(s), NEW ids \in Seq(Ids(s)), Line(s, ToSet(ids)),
           \A i \in Held(s), j \in ToSet(ids) : j < i,
           \A i \in Copied(s), j \in ToSet(ids) : i < j
    PROVE  Line(Started(s, ids), {})
<1> DEFINE t == [s EXCEPT !.staging = @ \o Copies(s, ids)]
           direct == Direct(s, ids)
           u == Enqueued(t, direct)
<1>1. Started(s, ids) = PumpSourceStaging(u)
  BY StartedIs
<1>2. DOMAIN s = Fields /\ Shape(s)
  BY DEF Good, Shape
<1>3. DOMAIN t = Fields /\ t.staging = s.staging \o Copies(s, ids)
      /\ \A f \in Fields \ {"staging"} : t[f] = s[f]
  BY <1>2 DEF Fields
<1> HIDE DEF t
<1>4. IsLane(Copies(s, ids), s.nextId)
  BY <1>2, CopiesAre
<1>5. Good(t) /\ Shape(t)
  BY <1>3, <1>4, StagingGrows DEF Good
<1>6. Line(t, direct)
  BY <1>2, <1>3, CopiesLine
<1>7. t.work = s.work /\ Held(t) = Held(s) /\ direct \subseteq ToSet(ids)
  BY <1>3 DEF Held, Direct, Fields
<1>8. \A j \in direct : ~(Staged /\ Payload(t.work[j]))
  BY <1>7 DEF Direct, Payload
<1>9. direct \subseteq DOMAIN t.work
  BY <1>6 DEF Line, Placed
<1> HIDE DEF direct
<1>10. ASSUME NEW k \in Keys, NEW i \in On(t, k), NEW j \in On(t, k),
              j \in direct, i < j, ~t.work[i].issued
       PROVE  i \in direct \cup Waiting(t, k) \/ i <= t.work[j].fenceThrough
  <2>1. i \in DOMAIN t.work /\ KeyOf(t.work[i]) = k /\ j \in DOMAIN t.work
    BY DEF On
  <2>2. i \in Int /\ j \in Int /\ i > 0
    BY <1>5, <2>1 DEF Shape, Ids
  <2>3. i \in direct \cup Held(t) \cup Copied(t) \cup Waiting(t, k)
    BY <1>6, <1>10, <2>1 DEF Line, Placed
  <2>4. i \notin Held(t)
    BY <1>7, <1>10, <2>2
  <2>5. ASSUME i \in Copied(t) PROVE i <= t.work[j].fenceThrough
    <3>1. Staged /\ Payload(t.work[i])
      BY <1>6, <2>2, <2>5 DEF Line, Placed
    <3>2. ~Payload(t.work[j])
      BY <1>8, <1>10, <3>1
    <3> QED
      BY <1>6, <1>10, <3>1, <3>2 DEF Line, InTurn
  <2> QED
    BY <2>3, <2>4, <2>5
<1>11. \A i \in Held(t), j \in direct : j < i
  BY <1>7
<1>12. Line(u, direct \ direct)
  BY <1>5, <1>6, <1>10, <1>11, EnqueuedLine
<1>13. direct \in SUBSET Ids(t)
  BY <1>5, <1>9 DEF Shape
<1>14. Good(u)
  BY <1>5, <1>13, EnqueuedKeeps
<1> HIDE DEF u
<1>15. direct \ direct = {}
  OBVIOUS
<1> QED
  BY <1>1, <1>12, <1>14, <1>15, StagingLine DEF Good

\* Ringing moves nothing that the order depends on.
LEMMA RingLine ==
    ASSUME NEW s, Shape(s), NEW keys, NEW out, Line(s, out)
    PROVE  Line(Ring(s, keys), out)
<1> DEFINE t == Ring(s, keys)
<1>1. DOMAIN s = Fields /\ DOMAIN s.qps = Keys
  BY DEF Shape
<1>2. /\ DOMAIN t = Fields
      /\ t.qps = [k \in Keys |->
           IF k \notin keys THEN s.qps[k]
           ELSE [s.qps[k] EXCEPT !.timer = FALSE,
                                 !.fetching = @ \o s.qps[k].published,
                                 !.published = <<>>]]
      /\ \A f \in Fields \ {"qps"} : t[f] = s[f]
  BY <1>1 DEF Ring, Fields
<1> HIDE DEF t
<1>3. ASSUME NEW k \in Keys
      PROVE  /\ t.qps[k].waiting = s.qps[k].waiting /\ Pipe(t.qps[k]) = Pipe(s.qps[k])
             /\ t.qps[k].outstanding = s.qps[k].outstanding
  <2> DEFINE q == s.qps[k]
             r == t.qps[k]
             T == Ids(s)
  <2>1. QueueShape(q, T)
    BY DEF Shape
  <2>2. r = IF k \notin keys THEN q
            ELSE [q EXCEPT !.timer = FALSE, !.fetching = @ \o q.published, !.published = <<>>]
    BY <1>2
  <2> HIDE DEF q, r, T
  <2>3. CASE k \notin keys
    BY <2>2, <2>3 DEF q, r
  <2>4. CASE k \in keys
    <3>1. /\ r.fetching = q.fetching \o q.published /\ r.published = <<>>
          /\ r.waiting = q.waiting /\ r.building = q.building /\ r.outstanding = q.outstanding
      BY <2>1, <2>2, <2>4 DEF QueueShape, QueueFields
    <3>2. q.fetching \o q.published \in Seq(T)
      BY <2>1 DEF QueueShape
    <3>3. (q.fetching \o q.published) \o <<>> = q.fetching \o q.published
      BY <3>2
    <3>4. Pipe(r) = Pipe(q)
      BY <3>1, <3>3 DEF Pipe
    <3> QED
      BY <3>1, <3>4 DEF q, r
  <2> QED
    BY <2>3, <2>4
<1>4. Unmoved(s, t)
  BY <1>2, <1>3 DEF Unmoved, Fields, Lane
<1> QED
  BY <1>4, UnmovedLine DEF t

\* A completion has been written for the first n outstanding works.
Reports(s, t, k, n) ==
    /\ n \in 1 .. Len(s.qps[k].outstanding)
    /\ \A j \in 1 .. n : s.work[s.qps[k].outstanding[j]].acked
    /\ DOMAIN t = Fields /\ \A f \in Fields \ {"qps", "cqes"} : t[f] = s[f]
    /\ DOMAIN t.qps = Keys /\ \A l \in Keys \ {k} : t.qps[l] = s.qps[l]
    /\ \A f \in QueueFields \ {"outstanding"} : t.qps[k][f] = s.qps[k][f]
    /\ t.qps[k].outstanding =
         SubSeq(s.qps[k].outstanding, n + 1, Len(s.qps[k].outstanding))
    /\ t.cqes = Append(s.cqes, [key |-> k, through |-> s.qps[k].outstanding[n]])

LEMMA ProgressIs ==
    ASSUME NEW s, Shape(s), NEW k \in Keys
    PROVE  Progress(s, k) = s \/ \E n : Reports(s, Progress(s, k), k, n)
<1> DEFINE q == s.qps[k]
           Acked(j) == s.work[q.outstanding[j]].acked
           prefixes == {n \in 0 .. Len(q.outstanding) : \A j \in 1 .. n : Acked(j)}
           ready == Max(prefixes)
           t == [s EXCEPT !.qps[k].outstanding = SubSeq(@, ready + 1, Len(@)),
                          !.cqes = Append(@, [key |-> k, through |-> q.outstanding[ready]])]
<1>1. \/ Progress(s, k) = s
      \/ ready # 0 /\ Progress(s, k) = t
  BY DEF Progress
<1>2. /\ DOMAIN s = Fields /\ DOMAIN s.qps = Keys /\ DOMAIN q = QueueFields
      /\ Len(q.outstanding) \in Nat
  BY DEF Shape, QueueShape
<1> HIDE DEF Acked
<1>3. /\ prefixes \subseteq 0 .. Len(q.outstanding) /\ 0 \in prefixes
      /\ \A n \in prefixes : \A j \in 1 .. n : Acked(j)
  BY <1>2
<1> HIDE DEF prefixes
<1>4. ready \in 0 .. Len(q.outstanding) /\ \A j \in 1 .. ready : Acked(j)
  <2>1. ready \in prefixes
    BY <1>2, <1>3, Largest
  <2> HIDE DEF ready
  <2> QED
    BY <1>3, <2>1
<1> HIDE DEF ready
<1>5. ASSUME ready # 0 PROVE Reports(s, t, k, ready)
  <2>1. ready \in 1 .. Len(q.outstanding)
    BY <1>2, <1>4, <1>5
  <2>2. /\ DOMAIN t = Fields /\ \A f \in Fields \ {"qps", "cqes"} : t[f] = s[f]
        /\ t.cqes = Append(s.cqes, [key |-> k, through |-> q.outstanding[ready]])
        /\ t.qps = [s.qps EXCEPT ![k] = [q EXCEPT !.outstanding =
                      SubSeq(q.outstanding, ready + 1, Len(q.outstanding))]]
    BY <1>2 DEF Fields, QueueFields
  <2> HIDE DEF t
  <2>3. /\ DOMAIN t.qps = Keys /\ \A l \in Keys \ {k} : t.qps[l] = s.qps[l]
        /\ t.qps[k] = [q EXCEPT !.outstanding =
                         SubSeq(q.outstanding, ready + 1, Len(q.outstanding))]
    BY <1>2, <2>2
  <2>4. /\ \A f \in QueueFields \ {"outstanding"} : t.qps[k][f] = q[f]
        /\ t.qps[k].outstanding = SubSeq(q.outstanding, ready + 1, Len(q.outstanding))
    BY <1>2, <2>3 DEF QueueFields
  <2>5. \A j \in 1 .. ready : s.work[s.qps[k].outstanding[j]].acked
    BY <1>4 DEF Acked
  <2> QED
    BY <2>1, <2>2, <2>3, <2>4, <2>5 DEF Reports
<1> QED
  BY <1>1, <1>5

LEMMA ProgressLine ==
    ASSUME NEW s, Shape(s), NEW k \in Keys, NEW out, Line(s, out)
    PROVE  Line(Progress(s, k), out)
<1> DEFINE t == Progress(s, k)
<1>1. CASE t = s
  BY <1>1
<1>2. ASSUME NEW n, Reports(s, t, k, n) PROVE Line(t, out)
  <2> HIDE DEF t
  <2> DEFINE q == s.qps[k].outstanding
             cqe == [key |-> k, through |-> q[n]]
             T == Ids(s)
  <2>1. q \in Seq(T) /\ T \in SUBSET Int /\ n \in 1 .. Len(q) /\ Ascends(q) /\ Len(q) \in Nat
    <3>1. q \in Seq(T) /\ Len(q) \in Nat
      BY DEF Shape, QueueShape
    <3>2. T \in SUBSET Int
      BY DEF Shape, Ids
    <3>3. n \in 1 .. Len(q) /\ Ascends(q)
      BY <1>2 DEF Reports, Line, Reported
    <3> QED
      BY <3>1, <3>2, <3>3
  <2>2. /\ t.work = s.work /\ t.handoff = s.handoff /\ Held(t) = Held(s)
        /\ Lane(t) = Lane(s) /\ Copied(t) = Copied(s)
        /\ \A l \in Keys : /\ On(t, l) = On(s, l) /\ Waiting(t, l) = Waiting(s, l)
                           /\ t.qps[l].waiting = s.qps[l].waiting
                           /\ Pipe(t.qps[l]) = Pipe(s.qps[l])
    <3>1. /\ t.work = s.work /\ t.handoff = s.handoff
          /\ t.copying = s.copying /\ t.staging = s.staging
      BY <1>2 DEF Reports, Fields
    <3>2. ASSUME NEW l \in Keys
          PROVE  /\ t.qps[l].waiting = s.qps[l].waiting /\ t.qps[l].fetching = s.qps[l].fetching
                 /\ t.qps[l].published = s.qps[l].published
                 /\ t.qps[l].building = s.qps[l].building
      <4>1. CASE l # k
        BY <1>2, <4>1 DEF Reports
      <4>2. CASE l = k
        BY <1>2, <4>2 DEF Reports, QueueFields
      <4> QED
        BY <4>1, <4>2
    <3> QED
      BY <3>1, <3>2 DEF Held, Lane, Copied, On, Waiting, Pipe
  <2>3. InTurn(t) /\ Piped(t) /\ Queued(t)
    BY <2>2 DEF Line, InTurn, Piped, Queued
  <2>4. Placed(t, out)
    <3>1. \A i \in DOMAIN s.work : Waiting(t, KeyOf(s.work[i])) = Waiting(s, KeyOf(s.work[i]))
      BY <2>2, WorkKey
    <3> QED
      BY <2>2, <3>1 DEF Line, Placed
  <2>5. t.qps[k].outstanding = SubSeq(q, n + 1, Len(q)) /\ t.cqes = Append(s.cqes, cqe)
    BY <1>2 DEF Reports
  <2>6. /\ ToSet(t.qps[k].outstanding) \subseteq ToSet(q) /\ Ascends(t.qps[k].outstanding)
        /\ \A i \in ToSet(t.qps[k].outstanding) : q[n] < i
        /\ q[n] \in ToSet(q)
    <3> HIDE DEF q, T
    <3> DEFINE a == SubSeq(q, 1, n)
               b == SubSeq(q, n + 1, Len(q))
    <3>1. /\ ToSet(q) = ToSet(a) \cup ToSet(b) /\ Ascends(b) /\ Len(a) = n /\ a \in Seq(T)
          /\ \A j \in 1 .. n : a[j] = q[j]
          /\ \A x \in ToSet(a), y \in ToSet(b) : x < y
      <4>1. n \in 0 .. Len(q)
        BY <2>1
      <4> QED
        BY <2>1, <4>1, Cut
    <3> HIDE DEF a, b
    <3>2. n \in DOMAIN a /\ a[n] = q[n]
      BY <2>1, <3>1
    <3>3. q[n] \in ToSet(a)
      BY <3>2 DEF ToSet
    <3> QED
      BY <2>5, <3>1, <3>3 DEF b
  <2>7. q[n] \in On(s, k) /\ s.work[q[n]].issued
    BY <2>6 DEF Line, Reported
  <2>8. \A i \in On(s, k) : ~s.work[i].issued => q[n] < i
    <3>1. \A i \in On(s, k) : i \in Int
      BY WorkKey DEF On
    <3> QED
      BY <2>7, <3>1 DEF Line, InTurn
  <2>9. ASSUME NEW a \in DOMAIN t.cqes
        PROVE  t.cqes[a] = cqe \/ (a \in DOMAIN s.cqes /\ t.cqes[a] = s.cqes[a])
    <3> DEFINE C == [key : Keys, through : T]
    <3>1. s.cqes \in Seq(C)
      BY DEF Shape
    <3>2. cqe \in C
      BY <2>1
    <3> HIDE DEF C, cqe
    <3> QED
      BY <2>5, <2>9, <3>1, <3>2
  <2>10. cqe.key = k /\ cqe.through = q[n]
    OBVIOUS
  <2> HIDE DEF cqe
  <2>11. Reported(t)
    <3> SUFFICES ASSUME NEW l \in Keys
                 PROVE  /\ Ascends(t.qps[l].outstanding)
                        /\ \A i \in ToSet(t.qps[l].outstanding) : i \in On(s, l) /\ s.work[i].issued
                        /\ \A a \in DOMAIN t.cqes : t.cqes[a].key = l =>
                             /\ \A i \in ToSet(t.qps[l].outstanding) : t.cqes[a].through < i
                             /\ \A i \in On(s, l) : ~s.work[i].issued => t.cqes[a].through < i
      BY <2>2 DEF Reported
    <3>1. CASE l # k
      <4>1. t.qps[l].outstanding = s.qps[l].outstanding
        BY <1>2, <3>1 DEF Reports
      <4> QED
        BY <2>9, <2>10, <3>1, <4>1 DEF Line, Reported
    <3>2. CASE l = k
      BY <2>6, <2>8, <2>9, <2>10, <3>2 DEF Line, Reported
    <3> QED
      BY <3>1, <3>2
  <2> QED
    BY <2>3, <2>4, <2>11 DEF Line
<1> QED
  BY <1>1, <1>2, ProgressIs

\* One work is marked in a way the order does not depend on.
LEMMA MarkLine ==
    ASSUME NEW s, Shape(s), NEW out, Line(s, out), NEW i \in DOMAIN s.work, NEW w, NEW t,
           t.work = [s.work EXCEPT ![i] = w],
           t.qps = s.qps, t.copying = s.copying, t.staging = s.staging,
           t.handoff = s.handoff, t.cqes = s.cqes,
           w.peer = s.work[i].peer, w.qp = s.work[i].qp, w.opcode = s.work[i].opcode,
           w.fenceThrough = s.work[i].fenceThrough, w.issued = s.work[i].issued,
           Done(w) <=> Done(s.work[i])
    PROVE  Line(t, out)
<1>1. /\ DOMAIN t.work = DOMAIN s.work
      /\ \A j \in DOMAIN s.work : t.work[j] = IF j = i THEN w ELSE s.work[j]
  OBVIOUS
<1>2. KeyOf(w) = KeyOf(s.work[i])
  BY DEF KeyOf
<1>3. Unmoved(s, t)
  BY <1>1, <1>2 DEF Unmoved, Lane
<1> QED
  BY <1>3, UnmovedLine

LEMMA FailedLine ==
    ASSUME NEW s, Shape(s), NEW out, Line(s, out), NEW i \in DOMAIN s.work
    PROVE  Line(Failed(s, i), out)
<1> DEFINE w == [s.work[i] EXCEPT !.failed = TRUE]
           t == [s EXCEPT !.work[i].failed = TRUE,
                          !.succeeded[s.work[i].call] = FALSE,
                          !.failed = @ + 1]
<1>1. DOMAIN s = Fields /\ WorkShape(s.work[i])
  BY DEF Shape
<1>2. /\ t.work = [s.work EXCEPT ![i] = w]
      /\ t.qps = s.qps /\ t.copying = s.copying
      /\ t.staging = s.staging /\ t.handoff = s.handoff /\ t.cqes = s.cqes
  BY <1>1 DEF Fields
<1>3. /\ w.peer = s.work[i].peer /\ w.qp = s.work[i].qp /\ w.opcode = s.work[i].opcode
      /\ w.fenceThrough = s.work[i].fenceThrough /\ w.issued = s.work[i].issued
      /\ Done(w) <=> Done(s.work[i])
  BY <1>1 DEF WorkShape, WorkFields, Done
<1>4. Failed(s, i) = s \/ Failed(s, i) = t
  BY DEF Failed
<1> HIDE DEF t, w
<1>5. Line(t, out)
  BY <1>2, <1>3, MarkLine
<1> QED
  BY <1>4, <1>5

\* A work is acknowledged; what the mark itself does is left to the caller.
LEMMA AcknowledgedLine ==
    ASSUME NEW s, Good(s), NEW i \in DOMAIN s.work, NEW out,
           Line([s EXCEPT !.work[i].acked = TRUE], out)
    PROVE  Line(Acknowledged(s, i), out)
<1> DEFINE w == [s.work[i] EXCEPT !.acked = TRUE]
           t == [s EXCEPT !.work[i].acked = TRUE]
           k == KeyOf(s.work[i])
           u == Progress(t, k)
           v == Pump(u, DOMAIN u.qps)
<1>1. Acknowledged(s, i) = v
  BY AcknowledgedIs
<1>2. DOMAIN s = Fields /\ WorkShape(s.work[i]) /\ k \in Keys
  BY WorkKey DEF Good, Shape
<1>3. /\ DOMAIN t = Fields /\ t.work = [s.work EXCEPT ![i] = w]
      /\ t.qps = s.qps /\ t.nextId = s.nextId /\ t.fences = s.fences
      /\ t.nextQp = s.nextQp /\ t.copying = s.copying
      /\ t.staging = s.staging /\ t.handoff = s.handoff /\ t.cqes = s.cqes
  BY <1>2 DEF Fields
<1>4. /\ WorkShape(w) /\ w.acked = TRUE
      /\ w.peer = s.work[i].peer /\ w.opcode = s.work[i].opcode
      /\ w.fenceThrough = s.work[i].fenceThrough
      /\ w.issued = s.work[i].issued /\ w.executed = s.work[i].executed
  BY <1>2 DEF WorkShape, WorkFields
<1>5. Line(t, out)
  OBVIOUS
<1> HIDE DEF t, w, k
<1>6. Good(t)
  BY <1>3, <1>4, MarkKeeps
<1>7. Good(u)
  BY <1>2, <1>6, ProgressKeeps
<1>8. Line(u, out)
  BY <1>2, <1>5, <1>6, ProgressLine DEF Good
<1>9. DOMAIN u.qps = Keys
  BY <1>7 DEF Good, Shape
<1> HIDE DEF u
<1>10. Line(v, out)
  BY <1>7, <1>8, <1>9, PumpLine DEF Good
<1> QED
  BY <1>1, <1>10

\* A work that has left the NIC is acknowledged, well or not.
LEMMA CompletedLine ==
    ASSUME NEW s, Good(s), NEW i \in DOMAIN s.work, s.work[i].executed, NEW success \in BOOLEAN,
           NEW out, Line(s, out)
    PROVE  Line(Completed(s, i, success), out)
<1> DEFINE t == IF success THEN s ELSE Failed(s, i)
           u == [t EXCEPT !.work[i].acked = TRUE]
           w == [t.work[i] EXCEPT !.acked = TRUE]
<1>1. Completed(s, i, success) = Acknowledged(t, i)
  BY CompletedIs
<1>2. Good(t) /\ DOMAIN t.work = DOMAIN s.work /\ Line(t, out)
  BY FailedKeeps, FailedLine DEF Good
<1>3. t.work[i].executed
  <2>1. DOMAIN s = Fields /\ DOMAIN s.work[i] = WorkFields
    BY DEF Good, Shape, WorkShape
  <2>2. Failed(s, i).work[i].executed = s.work[i].executed
    BY <2>1 DEF Failed, Fields, WorkFields
  <2> QED
    BY <2>2
<1> HIDE DEF t
<1>4. Shape(t) /\ DOMAIN t = Fields /\ WorkShape(t.work[i])
  BY <1>2 DEF Good, Shape
<1>5. /\ u.work = [t.work EXCEPT ![i] = w]
      /\ u.qps = t.qps /\ u.copying = t.copying
      /\ u.staging = t.staging /\ u.handoff = t.handoff /\ u.cqes = t.cqes
  BY <1>4 DEF Fields
<1>6. /\ w.peer = t.work[i].peer /\ w.qp = t.work[i].qp /\ w.opcode = t.work[i].opcode
      /\ w.fenceThrough = t.work[i].fenceThrough /\ w.issued = t.work[i].issued
      /\ Done(w) <=> Done(t.work[i])
  BY <1>3, <1>4 DEF WorkShape, WorkFields, Done
<1> HIDE DEF u, w
<1>7. Line(u, out)
  BY <1>2, <1>4, <1>5, <1>6, MarkLine
<1> QED
  BY <1>1, <1>2, <1>7, AcknowledgedLine DEF u

\* From s to t the next work of the queue pair k leaves its pipe.
Leaves(s, t, k, i) ==
    /\ s.qps[k].fetching # <<>> /\ i = Head(s.qps[k].fetching)
    /\ DOMAIN t.work = DOMAIN s.work /\ \A j \in DOMAIN s.work \ {i} : t.work[j] = s.work[j]
    /\ \A f \in {"peer", "qp", "opcode", "fenceThrough", "issued"} :
         t.work[i][f] = s.work[i][f]
    /\ Done(t.work[i])
    /\ \A l \in Keys \ {k} : t.qps[l] = s.qps[l]
    /\ t.qps[k].fetching = Tail(s.qps[k].fetching)
    /\ \A f \in {"published", "building", "waiting", "outstanding"} :
         t.qps[k][f] = s.qps[k][f]
    /\ \A f \in {"copying", "staging", "handoff", "cqes"} : t[f] = s[f]

LEMMA LeftLine ==
    ASSUME NEW s, Shape(s), NEW out, Line(s, out), NEW k \in Keys, NEW i, NEW t,
           Leaves(s, t, k, i)
    PROVE  Line(t, out)
<1> DEFINE q == s.qps[k]
           T == Ids(s)
           h == q.published \o q.building
<1>1. /\ DOMAIN s.qps = Keys /\ DOMAIN q = QueueFields
      /\ q.fetching \in Seq(T) /\ q.published \in Seq(T) /\ q.building \in Seq(T)
  BY DEF Shape, QueueShape
<1>2. T \in SUBSET Int
  BY DEF Shape, Ids
<1>3. /\ \A l \in Keys \ {k} : t.qps[l] = s.qps[l]
      /\ t.qps[k].fetching = Tail(q.fetching) /\ t.qps[k].published = q.published
      /\ t.qps[k].building = q.building
      /\ \A l \in Keys : /\ t.qps[l].waiting = s.qps[l].waiting
                         /\ t.qps[l].outstanding = s.qps[l].outstanding
      /\ q.fetching # <<>> /\ i = Head(q.fetching)
      /\ t.copying = s.copying /\ t.staging = s.staging /\ t.handoff = s.handoff
      /\ t.cqes = s.cqes
  BY DEF Leaves
<1>4. /\ i = Head(Pipe(q)) /\ Pipe(t.qps[k]) = Tail(Pipe(q))
      /\ Pipe(q) \in Seq(T) /\ Pipe(q) # <<>>
  <2> DEFINE f == q.fetching
             p == q.published
             b == q.building
             g == Tail(q.fetching)
  <2>1. /\ f \in Seq(T) /\ p \in Seq(T) /\ b \in Seq(T) /\ f # <<>> /\ i = Head(f)
        /\ g = Tail(f)
    BY <1>1, <1>3
  <2>2. Pipe(q) = (f \o p) \o b /\ Pipe(t.qps[k]) = (g \o p) \o b
    BY <1>3 DEF Pipe
  <2> HIDE DEF f, p, b, g, q, T
  <2>3. f \o p \in Seq(T) /\ (f \o p) \o b \in Seq(T)
    BY <2>1
  <2>4. Head(f \o p) = Head(f) /\ Tail(f \o p) = g \o p /\ f \o p # <<>>
    BY ONLY <2>1, FirstRejoined
  <2>5. /\ Head((f \o p) \o b) = Head(f \o p) /\ Tail((f \o p) \o b) = Tail(f \o p) \o b
        /\ (f \o p) \o b # <<>>
    <3> DEFINE fp == f \o p
    <3>1. fp \in Seq(T) /\ b \in Seq(T) /\ fp # <<>>
      BY <2>1, <2>3, <2>4
    <3> HIDE DEF fp
    <3>2. Head(fp \o b) = Head(fp) /\ Tail(fp \o b) = Tail(fp) \o b /\ fp \o b # <<>>
      BY ONLY <3>1, FirstRejoined
    <3> QED
      BY <3>2 DEF fp
  <2> QED
    BY <2>1, <2>2, <2>3, <2>4, <2>5
<1>5. /\ ToSet(Pipe(q)) = ToSet(Pipe(t.qps[k])) \cup {i} /\ Ascends(Pipe(t.qps[k]))
      /\ \A x \in ToSet(Pipe(t.qps[k])) : i < x
  <2> DEFINE p == Pipe(q)
  <2>1. p \in Seq(T) /\ p # <<>> /\ Ascends(p)
    BY <1>4 DEF Line, Piped
  <2> HIDE DEF p, T
  <2>2. /\ ToSet(p) = ToSet(Tail(p)) \cup {Head(p)} /\ Ascends(Tail(p))
        /\ \A x \in ToSet(Tail(p)) : Head(p) < x
    BY <1>2, <2>1, FirstIsLeast
  <2> QED
    BY <1>4, <2>2 DEF p
<1>6. i \in On(s, k) /\ i \in DOMAIN s.work /\ s.work[i].issued
  BY <1>5 DEF Line, Piped, On
<1>7. /\ DOMAIN t.work = DOMAIN s.work
      /\ \A j \in DOMAIN s.work \ {i} : t.work[j] = s.work[j]
      /\ t.work[i].peer = s.work[i].peer /\ t.work[i].qp = s.work[i].qp
      /\ t.work[i].opcode = s.work[i].opcode /\ t.work[i].issued = s.work[i].issued
      /\ t.work[i].fenceThrough = s.work[i].fenceThrough /\ Done(t.work[i])
  BY DEF Leaves
<1>8. \A j \in DOMAIN s.work : /\ KeyOf(t.work[j]) = KeyOf(s.work[j])
                               /\ Payload(t.work[j]) <=> Payload(s.work[j])
                               /\ t.work[j].fenceThrough = s.work[j].fenceThrough
                               /\ t.work[j].issued = s.work[j].issued
                               /\ Done(t.work[j]) <=> j = i \/ Done(s.work[j])
  BY <1>7 DEF KeyOf, Payload
<1>9. /\ Held(t) = Held(s) /\ Lane(t) = Lane(s) /\ Copied(t) = Copied(s)
      /\ \A l \in Keys : On(t, l) = On(s, l) /\ Waiting(t, l) = Waiting(s, l)
  <2>1. Lane(t) = Lane(s) /\ Held(t) = Held(s)
    BY <1>3 DEF Lane, Held
  <2>2. Copied(t) = Copied(s)
    BY <2>1 DEF Copied
  <2>3. \A l \in Keys : Waiting(t, l) = Waiting(s, l)
    BY <1>3 DEF Waiting
  <2>4. \A l \in Keys : On(t, l) = On(s, l)
    BY <1>7, <1>8 DEF On
  <2> QED
    BY <2>1, <2>2, <2>3, <2>4
<1>10. \A l \in Keys : \A j \in On(s, l) : j \in DOMAIN s.work /\ (j = i => l = k)
  BY <1>6 DEF On
<1> HIDE DEF q
<1>11. InTurn(t)
  <2>1. \A j \in DOMAIN t.work : Done(t.work[j]) => t.work[j].issued
    BY <1>6, <1>7, <1>8 DEF Line, InTurn
  <2>2. \A l \in Keys : \A j, x \in On(t, l) : j < x =>
          /\ t.work[x].issued => t.work[j].issued
          /\ Payload(t.work[j]) /\ ~Payload(t.work[x]) => j <= t.work[x].fenceThrough
    BY <1>8, <1>9, <1>10 DEF Line, InTurn
  <2> QED
    BY <2>1, <2>2 DEF InTurn
<1>12. Piped(t)
  <2> SUFFICES ASSUME NEW l \in Keys
               PROVE  /\ Ascends(Pipe(t.qps[l]))
                      /\ \A x \in ToSet(Pipe(t.qps[l])) :
                           /\ x \in On(s, l) /\ t.work[x].issued
                           /\ \A j \in On(s, l) : Done(t.work[j]) => j < x
                      /\ \A x \in On(s, l) : t.work[x].issued /\ ~Done(t.work[x]) =>
                           x \in ToSet(Pipe(t.qps[l]))
    BY <1>9 DEF Piped
  <2>1. CASE l # k
    <3>1. Pipe(t.qps[l]) = Pipe(s.qps[l])
      BY <1>3, <2>1
    <3> QED
      BY <1>8, <1>10, <2>1, <3>1 DEF Line, Piped
  <2>2. CASE l = k
    <3>1. \A x \in ToSet(Pipe(t.qps[k])) :
            /\ x \in On(s, k) /\ s.work[x].issued
            /\ \A j \in On(s, k) : Done(s.work[j]) => j < x
      BY <1>5 DEF Line, Piped, q
    <3>2. \A x \in On(s, k) : s.work[x].issued /\ ~Done(s.work[x]) /\ x # i =>
            x \in ToSet(Pipe(t.qps[k]))
      BY <1>5 DEF Line, Piped, q
    <3> QED
      BY <1>5, <1>8, <1>10, <2>2, <3>1, <3>2
  <2> QED
    BY <2>1, <2>2
<1>13. Reported(t)
  BY <1>3, <1>8, <1>9, <1>10 DEF Line, Reported
<1>14. Queued(t)
  BY <1>3, <1>8, <1>9, <1>10 DEF Line, Queued
<1>15. Placed(t, out)
  <2>1. \A j \in DOMAIN s.work : Waiting(t, KeyOf(t.work[j])) = Waiting(s, KeyOf(s.work[j]))
    BY <1>8, <1>9, WorkKey
  <2> QED
    BY <1>3, <1>7, <1>8, <1>9, <2>1 DEF Line, Placed
<1> QED
  BY <1>11, <1>12, <1>13, <1>14, <1>15 DEF Line

\* What a completion retires was outstanding no longer, and not on its way either.
LEMMA FreedLine ==
    ASSUME NEW s, Shape(s), NEW out, Line(s, out), s.cqes # <<>>, NEW n,
           DOMAIN n = Fields, n.cqes = Tail(s.cqes), \A f \in Fields \ {"cqes"} : n[f] = s[f]
    PROVE  LET cqe == Head(s.cqes)
           IN  Line(Freed(n, cqe.key, Retired(s, cqe)), out)
<1> DEFINE cqe == Head(s.cqes)
           gone == Retired(s, cqe)
           t == Freed(n, cqe.key, gone)
<1>1. /\ DOMAIN s.qps = Keys /\ s.cqes \in Seq([key : Keys, through : Ids(s)])
      /\ n.qps = s.qps /\ n.work = s.work /\ n.handoff = s.handoff
      /\ n.copying = s.copying /\ n.staging = s.staging
      /\ \A l \in Keys : DOMAIN s.qps[l] = QueueFields
  BY DEF Shape, Fields, QueueShape
<1>2. /\ t.work = [i \in DOMAIN s.work \ gone |-> s.work[i]]
      /\ t.copying = s.copying
      /\ t.staging = s.staging /\ t.handoff = s.handoff /\ t.cqes = Tail(s.cqes)
      /\ \A l \in Keys :
           /\ t.qps[l].waiting = s.qps[l].waiting /\ t.qps[l].building = s.qps[l].building
           /\ t.qps[l].published = s.qps[l].published /\ t.qps[l].fetching = s.qps[l].fetching
           /\ t.qps[l].outstanding = s.qps[l].outstanding
  <2> HIDE DEF gone, cqe
  <2> QED
    BY <1>1 DEF Freed, Fields, QueueFields
<1>3. /\ DOMAIN t.work = DOMAIN s.work \ gone
      /\ \A i \in DOMAIN t.work : t.work[i] = s.work[i]
  BY <1>2
<1>4. \A i \in gone : /\ i \in DOMAIN s.work /\ i \in On(s, cqe.key) /\ i <= cqe.through
                      /\ Done(s.work[i]) /\ s.work[i].issued
  BY DEF Retired, On, Done, Line, InTurn
<1> HIDE DEF t, gone
<1>5. 1 \in DOMAIN s.cqes /\ cqe = s.cqes[1] /\ cqe \in [key : Keys, through : Ids(s)]
  <2> DEFINE C == [key : Keys, through : Ids(s)]
             c == s.cqes
  <2>1. c \in Seq(C) /\ c # <<>>
    BY <1>1
  <2>2. cqe = Head(c)
    OBVIOUS
  <2> HIDE DEF C, c, cqe
  <2>3. 1 \in DOMAIN c /\ Head(c) = c[1] /\ c[1] \in C
    BY <2>1
  <2> QED
    BY <2>2, <2>3 DEF c, C
<1> HIDE DEF cqe
<1>6. \A a \in DOMAIN t.cqes : a + 1 \in DOMAIN s.cqes /\ t.cqes[a] = s.cqes[a + 1]
  <2> DEFINE C == [key : Keys, through : Ids(s)]
             c == s.cqes
  <2>1. c \in Seq(C) /\ c # <<>> /\ t.cqes = Tail(c)
    BY <1>1, <1>2
  <2> HIDE DEF C, c
  <2>2. /\ DOMAIN Tail(c) = 1 .. Len(c) - 1 /\ DOMAIN c = 1 .. Len(c) /\ Len(c) \in Nat
        /\ \A a \in 1 .. Len(c) - 1 : Tail(c)[a] = c[a + 1]
    BY <2>1
  <2>3. \A a \in DOMAIN Tail(c) : a + 1 \in DOMAIN c /\ Tail(c)[a] = c[a + 1]
    BY <2>2
  <2> QED
    BY <2>1, <2>3 DEF c
<1>7. cqe.key \in Keys /\ cqe.through \in Int
  <2>1. Ids(s) \subseteq Int
    BY DEF Shape, Ids
  <2> QED
    BY <1>5, <2>1
<1>8. /\ Held(t) = Held(s) /\ Lane(t) = Lane(s) /\ Copied(t) = Copied(s)
      /\ \A l \in Keys : /\ Waiting(t, l) = Waiting(s, l) /\ Pipe(t.qps[l]) = Pipe(s.qps[l])
                         /\ \A i : i \in On(t, l) <=> i \in On(s, l) /\ i \notin gone
  <2>1. Lane(t) = Lane(s) /\ Held(t) = Held(s)
    BY <1>2 DEF Lane, Held
  <2>2. Copied(t) = Copied(s)
    BY <2>1 DEF Copied
  <2>3. \A l \in Keys : Waiting(t, l) = Waiting(s, l) /\ Pipe(t.qps[l]) = Pipe(s.qps[l])
    BY <1>2 DEF Waiting, Pipe
  <2>4. \A l \in Keys : \A i : i \in On(t, l) <=> i \in On(s, l) /\ i \notin gone
    BY <1>3 DEF On
  <2> QED
    BY <2>1, <2>2, <2>3, <2>4
<1>9. \A l \in Keys : \A i \in On(t, l) : i \in DOMAIN t.work /\ i \in On(s, l)
  BY <1>8 DEF On
<1>10. \A i \in gone : i \in Int
  BY <1>4, WorkKey
\* The queues lose nothing.
<1>11. ASSUME NEW l \in Keys, NEW i \in ToSet(Pipe(s.qps[l])) PROVE i \in On(t, l)
  <2>1. i \in On(s, l)
    BY DEF Line, Piped
  <2>2. i \notin gone
    <3>1. i \in gone => l = cqe.key
      BY <1>4, <2>1 DEF On
    <3>2. i \in gone => i < i
      BY <1>4, <2>1 DEF Line, Piped
    <3> QED
      BY <1>10, <3>2
  <2> QED
    BY <1>8, <2>1, <2>2
<1>12. ASSUME NEW l \in Keys, NEW i \in ToSet(s.qps[l].outstanding) PROVE i \in On(t, l)
  <2>1. i \in On(s, l)
    BY DEF Line, Reported
  <2>2. i \notin gone
    <3>1. i \in gone => l = cqe.key
      BY <1>4, <2>1 DEF On
    <3>2. i \in gone => cqe.through < i /\ i <= cqe.through
      BY <1>4, <1>5, <3>1 DEF Line, Reported
    <3> QED
      BY <1>7, <1>10, <3>2
  <2> QED
    BY <1>8, <2>1, <2>2
<1>13. \A i \in DOMAIN s.work : ~s.work[i].issued => i \in DOMAIN t.work
  BY <1>3, <1>4
<1>14. InTurn(t)
  BY <1>3, <1>8, <1>9 DEF Line, InTurn
<1>15. Piped(t)
  BY <1>3, <1>8, <1>9, <1>11 DEF Line, Piped
<1>16. Reported(t)
  BY <1>2, <1>3, <1>6, <1>8, <1>9, <1>12 DEF Line, Reported
<1>17. Queued(t)
  <2>1. \A l \in Keys : \A i \in Waiting(s, l) : i \in On(t, l)
    BY <1>4, <1>8 DEF Line, Queued
  <2> QED
    BY <1>2, <1>3, <1>8, <1>9, <2>1 DEF Line, Queued
<1>18. Placed(t, out)
  <2>1. \A i \in DOMAIN t.work : Waiting(t, KeyOf(t.work[i])) = Waiting(s, KeyOf(s.work[i]))
    BY <1>3, <1>8, WorkKey
  <2>2. \A i \in out \cup Held(s) : i \in DOMAIN t.work /\ ~t.work[i].issued
    BY <1>3, <1>13 DEF Line, Placed
  <2>3. \A i \in Copied(s) : i > 0 => /\ i \in DOMAIN t.work /\ ~t.work[i].issued
                                      /\ Staged /\ Payload(t.work[i])
    BY <1>3, <1>13 DEF Line, Placed
  <2> QED
    BY <1>2, <1>3, <1>8, <2>1, <2>2, <2>3 DEF Line, Placed
<1> QED
  BY <1>14, <1>15, <1>16, <1>17, <1>18 DEF Line, t, gone, cqe

\* Two states with the same works, queues and lanes.
LEMMA AlikeLine ==
    ASSUME NEW s, Shape(s), NEW out, Line(s, out), NEW t,
           t.work = s.work, t.qps = s.qps, t.copying = s.copying, t.staging = s.staging,
           t.handoff = s.handoff, t.cqes = s.cqes
    PROVE  Line(t, out)
<1>1. Unmoved(s, t)
  BY DEF Unmoved, Lane
<1> QED
  BY <1>1, UnmovedLine

\* A responder's answer joins the copies.
LEMMA AnswerLine ==
    ASSUME NEW s, Shape(s), NEW out, Line(s, out), NEW e, e.id \in Int, ~(e.id > 0), NEW t,
           t.work = s.work, t.qps = s.qps, t.copying = s.copying,
           t.staging = Append(s.staging, e), t.handoff = s.handoff, t.cqes = s.cqes
    PROVE  Line(t, out)
<1>1. Lane(t) = Append(Lane(s), e) /\ Lane(s) \in Seq(ToSet(Lane(s)) \cup {e})
  <2> DEFINE T == ToSet(s.copying) \cup ToSet(s.staging) \cup {e}
             q == s.copying
             r == s.staging
             o == <<e>>
             U == ToSet(q \o r) \cup {e}
  <2>1. q \in Seq(ToSet(s.copying)) /\ r \in Seq(ToSet(s.staging))
    BY DEF Shape, IsLane
  <2>2. q \in Seq(T) /\ r \in Seq(T) /\ o \in Seq(T) /\ e \in T
    BY <2>1
  <2>3. Lane(t) = q \o Append(r, e) /\ Lane(s) = q \o r
    BY DEF Lane
  <2> HIDE DEF T, q, r
  <2>4. Append(r, e) = r \o o /\ q \o r \in Seq(T)
    BY <2>2
  <2>5. Append(q \o r, e) = (q \o r) \o o
    BY <2>2, <2>4
  <2>6. q \o r \in Seq(U)
    <3> DEFINE p == q \o r
    <3>1. p \in Seq(T)
      BY <2>4
    <3> HIDE DEF p
    <3>2. \A n \in DOMAIN p : p[n] \in ToSet(p)
      BY DEF ToSet
    <3>3. p \in Seq(ToSet(p) \cup {e})
      BY <3>1, <3>2
    <3> QED
      BY <3>3 DEF p
  <2> HIDE DEF o
  <2>7. (q \o r) \o o = q \o (r \o o)
    BY ONLY <2>2, Regrouped
  <2> QED
    BY <2>3, <2>4, <2>5, <2>6, <2>7
<1> DEFINE lane == Lane(s)
           longer == Append(lane, e)
           T == ToSet(lane) \cup {e}
<1>2. lane \in Seq(T) /\ e \in T /\ Lane(t) = longer
  BY <1>1
<1> HIDE DEF T
<1>3. Copied(t) = Copied(s) \cup {e.id}
  <2>1. ToSet(longer) = ToSet(lane) \cup {e}
    BY <1>2, OneMore
  <2> QED
    BY <1>2, <2>1 DEF Copied, lane
<1>4. InLine(longer)
  <2>1. InLine(lane)
    BY DEF Line, Placed, lane
  <2> HIDE DEF lane
  <2>2. /\ DOMAIN longer = 1 .. Len(lane) + 1 /\ DOMAIN lane = 1 .. Len(lane) /\ Len(lane) \in Nat
        /\ \A n \in 1 .. Len(lane) : longer[n] = lane[n]
        /\ longer[Len(lane) + 1] = e
    BY <1>2
  <2> HIDE DEF longer
  <2>3. ASSUME NEW a \in DOMAIN longer, NEW b \in DOMAIN longer, a < b, longer[b].id > 0
        PROVE  a \in DOMAIN lane /\ b \in DOMAIN lane /\ longer[a] = lane[a] /\ longer[b] = lane[b]
    <3>1. b # Len(lane) + 1
      BY <2>2, <2>3
    <3>2. a \in 1 .. Len(lane) /\ b \in 1 .. Len(lane)
      BY <2>2, <2>3, <3>1
    <3> QED
      BY <2>2, <3>2
  <2> QED
    BY <2>1, <2>3 DEF InLine
<1> HIDE DEF lane, longer
<1>5. /\ Held(t) = Held(s)
      /\ \A k \in Keys : On(t, k) = On(s, k) /\ Waiting(t, k) = Waiting(s, k)
  BY DEF Held, On, Waiting
<1>6. InTurn(t) /\ Piped(t) /\ Reported(t) /\ Queued(t)
  BY <1>5 DEF Line, InTurn, Piped, Reported, Queued
<1>7. /\ \A i \in DOMAIN s.work : i # e.id
      /\ \A k \in Keys : e.id \notin Waiting(s, k)
      /\ e.id \notin out \cup Held(s)
  <2>1. \A i \in DOMAIN s.work : i \in Int /\ i > 0
    BY DEF Shape, Ids
  <2>2. \A i \in DOMAIN s.work : i # e.id
    BY <2>1
  <2>3. \A k \in Keys : \A i \in Waiting(s, k) : i \in DOMAIN s.work
    BY DEF Line, Queued, On
  <2>4. \A i \in out \cup Held(s) : i \in DOMAIN s.work
    BY DEF Line, Placed
  <2> QED
    BY <2>2, <2>3, <2>4
<1>8. Placed(t, out)
  <2>1. \A i \in DOMAIN s.work : Waiting(t, KeyOf(s.work[i])) = Waiting(s, KeyOf(s.work[i]))
    BY <1>5, WorkKey
  <2>2. \A i \in DOMAIN t.work : ~t.work[i].issued =>
          i \in out \cup Held(t) \cup Copied(t) \cup Waiting(t, KeyOf(t.work[i]))
    BY <1>3, <1>5, <2>1 DEF Line, Placed
  <2>3. /\ \A k \in Keys : Waiting(t, k) \cap (out \cup Held(t) \cup Copied(t)) = {}
        /\ out \cap (Held(t) \cup Copied(t)) = {} /\ Held(t) \cap Copied(t) = {}
    BY <1>3, <1>5, <1>7 DEF Line, Placed
  <2>4. \A i \in Copied(t) : i > 0 => /\ i \in DOMAIN t.work /\ ~t.work[i].issued
                                      /\ Staged /\ Payload(t.work[i])
    BY <1>3 DEF Line, Placed
  <2>5. \A i \in Held(t) : \A j \in DOMAIN t.work \ (out \cup Held(t)) : j < i
    BY <1>5 DEF Line, Placed
  <2>6. \A i \in out \cup Held(t) : i \in DOMAIN t.work /\ ~t.work[i].issued
    BY <1>5 DEF Line, Placed
  <2> QED
    BY <1>2, <1>4, <2>2, <2>3, <2>4, <2>5, <2>6 DEF Line, Placed
<1> QED
  BY <1>6, <1>8 DEF Line

\* The CPU worker takes a request over: its works are on their way, behind all
\* that was taken over before and before all that is still handed over.
LEMMA HandedLine ==
    ASSUME NEW s, Shape(s), Line(s, {}), s.handoff # <<>>, NEW t,
           t.work = s.work, t.qps = s.qps, t.copying = s.copying, t.staging = s.staging,
           t.handoff = Tail(s.handoff), t.cqes = s.cqes
    PROVE  LET out == ToSet(Head(s.handoff)) IN
           /\ Line(t, out)
           /\ \A i \in Held(t), j \in out : j < i
           /\ \A i \in Copied(t), j \in out : i < j
<1> DEFINE out == ToSet(Head(s.handoff))
           h == s.handoff
           g == Tail(s.handoff)
<1>1. /\ Len(h) \in Nat \ {0} /\ DOMAIN h = 1 .. Len(h) /\ Head(h) = h[1]
      /\ DOMAIN g = 1 .. Len(h) - 1 /\ \A n \in 1 .. Len(h) - 1 : g[n] = h[n + 1]
  <2> DEFINE T == Seq(Ids(s))
  <2>1. h \in Seq(T) /\ h # <<>> /\ g = Tail(h)
    BY DEF Shape
  <2> HIDE DEF T, h, g
  <2> QED
    BY <2>1
<1>2. 1 \in DOMAIN h /\ \A n \in DOMAIN g : n + 1 \in DOMAIN h /\ 1 < n + 1 /\ g[n] = h[n + 1]
  BY <1>1
<1>3. \A n \in DOMAIN h : n = 1 \/ (n - 1 \in DOMAIN g /\ g[n - 1] = h[n])
  <2>1. \A n \in DOMAIN h : n = 1 \/ (n - 1 \in DOMAIN g /\ n - 1 + 1 = n)
    BY <1>1
  <2> QED
    BY <1>2, <2>1
<1>4. out = ToSet(h[1]) /\ t.handoff = g
  BY <1>1
<1>5. Held(s) = UNION {ToSet(h[a]) : a \in DOMAIN h} /\ Held(t) = UNION {ToSet(g[a]) : a \in DOMAIN g}
  BY <1>4 DEF Held
<1>6. \A a, b \in DOMAIN h : a < b => \A x \in ToSet(h[a]), y \in ToSet(h[b]) : x < y
  BY DEF Line, Placed
<1> HIDE DEF h, g, out
<1>7. Held(s) = Held(t) \cup out
  BY <1>2, <1>3, <1>4, <1>5
<1>8. ASSUME NEW i \in Held(t), NEW j \in out PROVE j < i
  <2>1. PICK a \in DOMAIN g : i \in ToSet(g[a])
    BY <1>5
  <2>2. a + 1 \in DOMAIN h /\ 1 < a + 1 /\ g[a] = h[a + 1] /\ 1 \in DOMAIN h
    BY <1>2
  <2> QED
    BY <1>4, <1>6, <2>1, <2>2
<1>9. \A i \in Held(s) : i \in DOMAIN s.work /\ ~s.work[i].issued
  BY DEF Line, Placed
<1>10. \A i \in DOMAIN s.work : i \in Int /\ i > 0
  BY DEF Shape, Ids
<1>11. out \cap Held(t) = {}
  <2>1. \A i \in out : ~(i < i)
    BY <1>7, <1>9, <1>10
  <2> QED
    BY <1>8, <2>1
<1>12. /\ Lane(t) = Lane(s) /\ Copied(t) = Copied(s)
       /\ \A k \in Keys : On(t, k) = On(s, k) /\ Waiting(t, k) = Waiting(s, k)
  BY DEF Lane, Copied, On, Waiting
<1>13. ASSUME NEW i \in Copied(t), NEW j \in out PROVE i < j
  <2>1. i \in Int
    <3>1. \A e \in ToSet(Lane(s)) : e.id \in Int
      <4> DEFINE q == s.copying
                 r == s.staging
                 T == ToSet(q) \cup ToSet(r)
      <4>1. q \in Seq(ToSet(q)) /\ r \in Seq(ToSet(r)) /\ Lane(s) = q \o r /\ \A e \in T : e.id \in Int
        BY DEF Shape, IsLane, Lane
      <4> HIDE DEF q, r
      <4>2. q \in Seq(T) /\ r \in Seq(T)
        BY <4>1
      <4>3. ToSet(q \o r) = ToSet(q) \cup ToSet(r)
        BY <4>2, Parts
      <4> QED
        BY <4>1, <4>3
    <3> QED
      BY <1>12, <3>1 DEF Copied
  <2>2. j \in DOMAIN s.work /\ j \in Int /\ j > 0 /\ j \in Held(s)
    BY <1>7, <1>9, <1>10
  <2>3. CASE i > 0
    <3>1. i \in DOMAIN s.work /\ i \notin Held(s)
      BY <1>12, <2>3 DEF Line, Placed
    <3> QED
      BY <2>2, <3>1 DEF Line, Placed
  <2>4. CASE ~(i > 0)
    BY <2>1, <2>2, <2>4
  <2> QED
    BY <2>3, <2>4
<1>14. InTurn(t) /\ Piped(t) /\ Reported(t) /\ Queued(t)
  BY <1>12 DEF Line, InTurn, Piped, Reported, Queued
<1>15. Placed(t, out)
  <2>1. \A i \in DOMAIN s.work : Waiting(t, KeyOf(s.work[i])) = Waiting(s, KeyOf(s.work[i]))
    BY <1>12, WorkKey
  <2>2. \A i \in DOMAIN t.work : ~t.work[i].issued =>
          i \in out \cup Held(t) \cup Copied(t) \cup Waiting(t, KeyOf(t.work[i]))
    BY <1>7, <1>12, <2>1 DEF Line, Placed
  <2>3. /\ \A k \in Keys : Waiting(t, k) \cap (out \cup Held(t) \cup Copied(t)) = {}
        /\ out \cap (Held(t) \cup Copied(t)) = {} /\ Held(t) \cap Copied(t) = {}
    BY <1>7, <1>11, <1>12 DEF Line, Placed
  <2>4. \A i \in out \cup Held(t) : i \in DOMAIN t.work /\ ~t.work[i].issued
    BY <1>7, <1>9
  <2>5. \A i \in Copied(t) : i > 0 => /\ i \in DOMAIN t.work /\ ~t.work[i].issued
                                      /\ Staged /\ Payload(t.work[i])
    BY <1>12 DEF Line, Placed
  <2>6. \A i \in Held(t) : \A j \in DOMAIN t.work \ (out \cup Held(t)) : j < i
    BY <1>7 DEF Line, Placed
  <2>7. \A a, b \in DOMAIN g : a < b => \A x \in ToSet(g[a]), y \in ToSet(g[b]) : x < y
    <3> SUFFICES ASSUME NEW a \in DOMAIN g, NEW b \in DOMAIN g, a < b
                 PROVE  \A x \in ToSet(g[a]), y \in ToSet(g[b]) : x < y
      OBVIOUS
    <3>1. a + 1 < b + 1
      BY <1>1
    <3> QED
      BY <1>2, <1>6, <3>1
  <2>8. conf.cpuHandoff
    BY DEF Line, Placed
  <2>9. InLine(Lane(t))
    BY <1>12 DEF Line, Placed
  <2> QED
    BY <1>4, <2>2, <2>3, <2>4, <2>5, <2>6, <2>7, <2>8, <2>9 DEF Placed
<1> QED
  BY <1>8, <1>13, <1>14, <1>15 DEF Line, out

\* The next copy has ended.  A work it was for is on its way: nothing of its
\* queue pair that is handed over or still copied comes before it.
LEMMA CopyEndsLine ==
    ASSUME NEW s, Shape(s), Line(s, {}), s.copying # <<>>, NEW e, e = Head(s.copying), NEW t,
           t.work = s.work, t.qps = s.qps, t.copying = Tail(s.copying), t.staging = s.staging,
           t.handoff = s.handoff, t.cqes = s.cqes
    PROVE  /\ ~(e.id > 0) => Line(t, {})
           /\ e.id > 0 =>
                /\ Line(t, {e.id})
                /\ \A i \in Held(t) : e.id < i
                /\ \A k \in Keys : \A i, j \in On(t, k) :
                     j = e.id /\ i < j /\ ~t.work[i].issued => i \in Waiting(t, k)
<1> DEFINE q == s.copying
           r == s.staging
           T == ToSet(s.copying) \cup ToSet(s.staging)
           lane == q \o r
           rest == Tail(q) \o r
<1>1. /\ q \in Seq(T) /\ r \in Seq(T) /\ q # <<>> /\ e = Head(q) /\ \A x \in T : x.id \in Int
  <2>1. q \in Seq(ToSet(s.copying)) /\ r \in Seq(ToSet(s.staging)) /\ \A x \in T : x.id \in Int
    BY DEF Shape, IsLane
  <2> QED
    BY <2>1
<1>2. lane = Lane(s) /\ rest = Lane(t)
  BY DEF Lane
<1> HIDE DEF q, r, T
<1>3. lane \in Seq(T) /\ e = Head(lane) /\ rest = Tail(lane) /\ lane # <<>>
  <2>1. Head(lane) = Head(q) /\ Tail(lane) = Tail(q) \o r /\ lane # <<>>
    BY ONLY <1>1, FirstRejoined
  <2> QED
    BY <1>1, <2>1
<1>4. InLine(lane)
  BY <1>2 DEF Line, Placed
<1> HIDE DEF lane, rest
<1>5. /\ Len(lane) \in Nat \ {0} /\ DOMAIN lane = 1 .. Len(lane) /\ lane[1] = e
      /\ DOMAIN rest = 1 .. Len(lane) - 1 /\ \A n \in 1 .. Len(lane) - 1 : rest[n] = lane[n + 1]
      /\ \A n \in 1 .. Len(lane) : lane[n] \in T
  BY <1>3
<1>6. /\ 1 \in DOMAIN lane /\ e \in T
      /\ \A n \in DOMAIN rest : /\ n + 1 \in DOMAIN lane /\ 1 < n + 1 /\ rest[n] = lane[n + 1]
                                /\ rest[n] \in T
  BY <1>5
<1>7. \A n \in DOMAIN lane : n = 1 \/ (n - 1 \in DOMAIN rest /\ rest[n - 1] = lane[n])
  <2>1. \A n \in DOMAIN lane : n = 1 \/ (n - 1 \in DOMAIN rest /\ n - 1 + 1 = n)
    BY <1>5
  <2> QED
    BY <1>6, <2>1
<1>8. ToSet(lane) = ToSet(rest) \cup {e}
  BY <1>5, <1>6, <1>7 DEF ToSet
<1>9. Copied(s) = Copied(t) \cup {e.id}
  BY <1>2, <1>8 DEF Copied
<1>10. InLine(rest)
  <2> SUFFICES ASSUME NEW a \in DOMAIN rest, NEW b \in DOMAIN rest, a < b,
                      rest[a].id > 0, rest[b].id > 0
               PROVE  rest[a].id < rest[b].id
    BY DEF InLine
  <2>1. a + 1 < b + 1
    BY <1>5
  <2> QED
    BY <1>4, <1>6, <2>1 DEF InLine
<1>11. ASSUME e.id > 0, NEW i \in Copied(t), i > 0 PROVE e.id < i
  <2>1. PICK n \in DOMAIN rest : i = rest[n].id
    BY <1>2 DEF Copied, ToSet
  <2> QED
    BY <1>4, <1>5, <1>6, <1>11, <2>1 DEF InLine
<1>12. e.id \in Int
  BY <1>1, <1>6
<1>13. e.id > 0 => e.id \notin Copied(t)
  BY <1>11, <1>12
<1>14. /\ Held(t) = Held(s)
       /\ \A k \in Keys : On(t, k) = On(s, k) /\ Waiting(t, k) = Waiting(s, k)
  BY DEF Held, On, Waiting
<1>15. InTurn(t) /\ Piped(t) /\ Reported(t) /\ Queued(t)
  BY <1>14 DEF Line, InTurn, Piped, Reported, Queued
<1>16. \A i \in DOMAIN s.work : /\ Waiting(t, KeyOf(s.work[i])) = Waiting(s, KeyOf(s.work[i]))
                                /\ i \in Int /\ i > 0
  <2>1. \A i \in DOMAIN s.work : i \in Int /\ i > 0
    BY DEF Shape, Ids
  <2> QED
    BY <1>14, <2>1, WorkKey
<1>17. e.id > 0 => e.id \in DOMAIN s.work /\ ~s.work[e.id].issued /\ e.id \notin Held(s)
  BY <1>9 DEF Line, Placed
<1>18. ASSUME NEW out, out = IF e.id > 0 THEN {e.id} ELSE {} PROVE Line(t, out)
  <2>0. /\ out \cup Copied(t) \subseteq Copied(s)
        /\ out \cap Copied(t) = {} /\ out \cap Held(s) = {}
        /\ \A i \in out : i \in DOMAIN s.work /\ ~s.work[i].issued
        /\ \A i \in Copied(s) : i \in out \cup Copied(t) \/ ~(i > 0)
    BY <1>9, <1>13, <1>17, <1>18
  <2>1. \A i \in DOMAIN t.work : ~t.work[i].issued =>
          i \in out \cup Held(t) \cup Copied(t) \cup Waiting(t, KeyOf(t.work[i]))
    <3> SUFFICES ASSUME NEW i \in DOMAIN s.work, ~s.work[i].issued
                 PROVE  i \in out \cup Held(t) \cup Copied(t) \cup Waiting(t, KeyOf(s.work[i]))
      OBVIOUS
    <3>1. i \in Held(s) \cup Copied(s) \cup Waiting(s, KeyOf(s.work[i]))
      BY DEF Line, Placed
    <3> QED
      BY <1>14, <1>16, <2>0, <3>1
  <2>2. /\ \A k \in Keys : Waiting(t, k) \cap (out \cup Held(t) \cup Copied(t)) = {}
        /\ out \cap (Held(t) \cup Copied(t)) = {} /\ Held(t) \cap Copied(t) = {}
    BY <1>14, <2>0 DEF Line, Placed
  <2>3. \A i \in out \cup Held(t) : i \in DOMAIN t.work /\ ~t.work[i].issued
    BY <1>14, <2>0 DEF Line, Placed
  <2>4. \A i \in Copied(t) : i > 0 => /\ i \in DOMAIN t.work /\ ~t.work[i].issued
                                      /\ Staged /\ Payload(t.work[i])
    BY <2>0 DEF Line, Placed
  <2>5. \A i \in Held(t) : \A j \in DOMAIN t.work \ (out \cup Held(t)) : j < i
    BY <1>14 DEF Line, Placed
  <2>6. InLine(Lane(t))
    BY <1>2, <1>10
  <2>7. Placed(t, out)
    BY <2>1, <2>2, <2>3, <2>4, <2>5, <2>6 DEF Line, Placed
  <2> QED
    BY <1>15, <2>7 DEF Line
<1>19. ASSUME e.id > 0, NEW i \in Held(t) PROVE e.id < i
  BY <1>14, <1>17, <1>19 DEF Line, Placed
<1>20. ASSUME e.id > 0, NEW k \in Keys, NEW i \in On(t, k), i < e.id, ~t.work[i].issued
       PROVE  i \in Waiting(t, k)
  <2>1. i \in DOMAIN s.work /\ KeyOf(s.work[i]) = k /\ i \in Int /\ i > 0
    BY <1>16 DEF On
  <2>2. i \in Held(s) \cup Copied(s) \cup Waiting(s, k)
    BY <1>20, <2>1 DEF Line, Placed
  <2>3. i \notin Held(s)
    BY <1>12, <1>14, <1>19, <1>20, <2>1
  <2>4. i \notin Copied(t) /\ i # e.id
    BY <1>11, <1>12, <1>20, <2>1
  <2> QED
    BY <1>9, <1>14, <2>2, <2>3, <2>4
<1> QED
  BY <1>18, <1>19, <1>20

\* A work queue entry is published: it keeps its place in the pipe.
LEMMA PublishedLine ==
    ASSUME NEW s, Shape(s), NEW out, Line(s, out), NEW k \in Keys, s.qps[k].building # <<>>, NEW t,
           t.work = s.work, t.copying = s.copying, t.staging = s.staging,
           t.handoff = s.handoff, t.cqes = s.cqes,
           t.qps = [s.qps EXCEPT ![k] = [s.qps[k] EXCEPT
                      !.building = Tail(@), !.published = Append(@, Head(s.qps[k].building))]]
    PROVE  Line(t, out)
<1> DEFINE q == s.qps[k]
           T == Ids(s)
           f == q.fetching
           p == q.published
           b == q.building
           o == <<Head(q.building)>>
           g == Tail(q.building)
<1>1. /\ DOMAIN s.qps = Keys /\ DOMAIN q = QueueFields
      /\ f \in Seq(T) /\ p \in Seq(T) /\ b \in Seq(T) /\ b # <<>>
  BY DEF Shape, QueueShape
<1>2. /\ \A l \in Keys \ {k} : t.qps[l] = s.qps[l]
      /\ t.qps[k].building = g /\ t.qps[k].published = Append(p, Head(b))
      /\ t.qps[k].fetching = f /\ t.qps[k].waiting = q.waiting
      /\ t.qps[k].outstanding = q.outstanding
  BY <1>1 DEF QueueFields
<1>3. Pipe(t.qps[k]) = (f \o Append(p, Head(b))) \o g /\ Pipe(q) = (f \o p) \o b
  BY <1>2 DEF Pipe
<1>4. Pipe(t.qps[k]) = Pipe(q)
  <2>1. o = <<Head(b)>> /\ g = Tail(b)
    OBVIOUS
  <2> HIDE DEF q, T, f, p, b, o, g
  <2>2. Head(b) \in T /\ g \in Seq(T) /\ o \in Seq(T)
    BY <1>1, <2>1
  <2>3. Append(p, Head(b)) = p \o o
    BY <1>1, <2>1, <2>2
  <2>4. b = o \o g
    BY <1>1, <2>1, <2>2
  <2>5. p \in Seq(T) /\ f \in Seq(T) /\ o \in Seq(T) /\ g \in Seq(T)
    BY <1>1, <2>2
  <2>6. (f \o p) \o o = f \o (p \o o)
    BY ONLY <2>5, Regrouped
  <2> DEFINE fp == f \o p
  <2>7. fp \in Seq(T)
    BY <2>5
  <2> HIDE DEF fp
  <2>8. (fp \o o) \o g = fp \o (o \o g)
    BY ONLY <2>5, <2>7, Regrouped
  <2> QED
    BY <1>3, <2>3, <2>4, <2>6, <2>8 DEF fp
<1>5. Unmoved(s, t)
  BY <1>2, <1>4 DEF Unmoved, Lane
<1> QED
  BY <1>5, UnmovedLine

-----------------------------------------------------------------------------
(* The steps keep the order.                                               *)

LInv == Line(m, {})

LEMMA LineNext ==
    ASSUME conf' = conf, Line(m', {})
    PROVE  LInv'
<1>1. Keys' = Keys /\ Staged' = Staged
  BY DEF Keys, Staged
<1>2. InTurn(m)' /\ Piped(m)'
  BY <1>1 DEF Line, InTurn, Piped
<1>3. Reported(m)' /\ Queued(m)'
  BY <1>1 DEF Line, Reported, Queued
<1>4. Placed(m, {})'
  BY <1>1 DEF Line, Placed
<1> QED
  BY <1>2, <1>3, <1>4 DEF LInv, Line

LEMMA FenceLine ==
    ASSUME IInv, LInv, Fence
    PROVE  LInv'
<1> DEFINE peer == conf.calls[made + 1].peer
           r == Ring(m, {k \in Keys : k[1] = peer})
           t == [r EXCEPT !.fences[peer] = m.nextId - 1]
<1>1. m' = t /\ conf' = conf
  BY DEF Fence, Call
<1>2. Good(r) /\ Line(r, {})
  BY RingKeeps, RingLine DEF IInv, LInv, Good
<1> HIDE DEF r, peer
<1>3. DOMAIN r = Fields /\ Shape(r)
  BY <1>2 DEF Good, Shape
<1>4. /\ t.work = r.work /\ t.qps = r.qps /\ t.copying = r.copying
      /\ t.staging = r.staging /\ t.handoff = r.handoff /\ t.cqes = r.cqes
  BY <1>3 DEF Fields
<1> HIDE DEF t
<1>5. Line(t, {})
  BY <1>2, <1>3, <1>4, AlikeLine
<1> QED
  BY <1>1, <1>5, LineNext

LEMMA QuietLine ==
    ASSUME IInv, LInv, Quiet
    PROVE  LInv'
<1> DEFINE r == Ring(m, Keys)
           s == [r EXCEPT !.quiet = @ \cup {[call |-> made + 1, watermark |-> m.nextId - 1]}]
           t == [s EXCEPT !.quiet = @ \ QuietReady(s)]
<1>1. m' = t /\ conf' = conf
  BY DEF Quiet, CheckQuiet, Call
<1>2. Good(r) /\ Line(r, {})
  BY RingKeeps, RingLine DEF IInv, LInv, Good
<1> HIDE DEF r
<1>3. DOMAIN r = Fields /\ Shape(r)
  BY <1>2 DEF Good, Shape
<1>4. /\ t.work = r.work /\ t.qps = r.qps /\ t.copying = r.copying
      /\ t.staging = r.staging /\ t.handoff = r.handoff /\ t.cqes = r.cqes
  BY <1>3 DEF Fields
<1> HIDE DEF s, t
<1>5. Line(t, {})
  BY <1>2, <1>3, <1>4, AlikeLine
<1> QED
  BY <1>1, <1>5, LineNext

LEMMA StageSourcePayloadLine ==
    ASSUME IInv, LInv, StageSourcePayload
    PROVE  LInv'
<1> DEFINE e == [id |-> -(made + 1), bytes |-> conf.calls[made + 1].bytes]
           s == [m EXCEPT !.staging = Append(@, e)]
           t == PumpSourceStaging(s)
<1>1. m' = t /\ Call("respond") /\ conf' = conf
  BY DEF StageSourcePayload, Call
<1>2. /\ Good(m) /\ Shape(m) /\ DOMAIN m = Fields /\ IsLane(m.staging, m.nextId)
      /\ m.nextId \in Nat \ {0}
  BY DEF IInv, Good, Shape
<1>3. made \in Nat
  BY <1>1, CallIs
<1>4. e.id \in Int /\ e.id < m.nextId /\ ~(e.id > 0)
  BY <1>2, <1>3
<1> HIDE DEF e
<1>5. IsLane(<<e>>, m.nextId)
  <2>1. ToSet(<<e>>) = {e}
    BY DEF ToSet
  <2> QED
    BY <1>4, <2>1 DEF IsLane
<1>6. Append(m.staging, e) = m.staging \o <<e>>
  BY <1>2 DEF IsLane
<1>7. /\ DOMAIN s = Fields /\ s.staging = Append(m.staging, e)
      /\ \A f \in Fields \ {"staging"} : s[f] = m[f]
  BY <1>2 DEF Fields
<1>8. /\ s.work = m.work /\ s.qps = m.qps /\ s.copying = m.copying
      /\ s.handoff = m.handoff /\ s.cqes = m.cqes
  BY <1>7 DEF Fields
<1> HIDE DEF s
<1>9. Good(s)
  BY <1>2, <1>5, <1>6, <1>7, StagingGrows
<1>10. Line(s, {})
  BY <1>2, <1>4, <1>7, <1>8, AnswerLine DEF LInv
<1>11. Line(t, {})
  BY <1>9, <1>10, StagingLine DEF Good
<1> QED
  BY <1>1, <1>11, LineNext

LEMMA ReleaseSourceStagingLine ==
    ASSUME IInv, LInv, ReleaseSourceStaging
    PROVE  LInv'
<1>1. PICK e \in m.serving :
        m' = PumpSourceStaging([m EXCEPT !.used = @ - e.bytes, !.serving = @ \ {e}])
  BY DEF ReleaseSourceStaging
<1> DEFINE s == [m EXCEPT !.used = @ - e.bytes, !.serving = @ \ {e}]
<1>2. Good(m) /\ Shape(m) /\ DOMAIN m = Fields /\ conf' = conf
  BY DEF IInv, Good, Shape, ReleaseSourceStaging
<1>3. /\ DOMAIN s = Fields /\ s.staging = m.staging
      /\ s.work = m.work /\ s.qps = m.qps /\ s.nextId = m.nextId /\ s.fences = m.fences
      /\ s.nextQp = m.nextQp /\ s.copying = m.copying /\ s.handoff = m.handoff /\ s.cqes = m.cqes
  BY <1>2 DEF Fields
<1>4. m' = PumpSourceStaging(s)
  BY <1>1
<1> HIDE DEF s
<1>5. Good(s) /\ Line(s, {})
  BY <1>2, <1>3, Alike, AlikeLine DEF LInv
<1>6. Line(PumpSourceStaging(s), {})
  BY <1>5, StagingLine DEF Good
<1> QED
  BY <1>2, <1>4, <1>6, LineNext

LEMMA StartLine ==
    ASSUME IInv, LInv, Start
    PROVE  LInv'
<1> DEFINE s == [m EXCEPT !.handoff = Tail(@)]
           ids == Head(m.handoff)
<1>1. m' = Started(s, ids) /\ conf' = conf /\ m.handoff # <<>>
  BY DEF Start, Event
<1>2. Good(m) /\ Shape(m) /\ DOMAIN m = Fields /\ m.handoff \in Seq(Seq(Ids(m)))
  BY DEF IInv, Good, Shape
<1>3. Tail(m.handoff) \in Seq(Seq(Ids(m))) /\ ids \in Seq(Ids(m))
  BY <1>1, <1>2
<1>4. /\ DOMAIN s = Fields /\ s.handoff = Tail(m.handoff)
      /\ s.work = m.work /\ s.qps = m.qps /\ s.nextId = m.nextId /\ s.fences = m.fences
      /\ s.nextQp = m.nextQp /\ s.copying = m.copying /\ s.staging = m.staging /\ s.cqes = m.cqes
  BY <1>2 DEF Fields
<1> HIDE DEF s
<1>5. Ids(s) = Ids(m)
  BY <1>4 DEF Ids
<1>6. Good(s)
  <2>1. Shape(s)
    <3> HIDE DEF ids
    <3> QED
      BY <1>2, <1>3, <1>4, <1>5 DEF Shape
  <2> QED
    BY <1>2, <1>4, <2>1, WorksStay
<1>7. /\ Line(s, ToSet(ids))
      /\ \A i \in Held(s), j \in ToSet(ids) : j < i
      /\ \A i \in Copied(s), j \in ToSet(ids) : i < j
  BY <1>1, <1>2, <1>4, HandedLine DEF LInv
<1> HIDE DEF ids
<1>8. Line(Started(s, ids), {})
  BY <1>3, <1>5, <1>6, <1>7, StartedLine
<1> QED
  BY <1>1, <1>8, LineNext

LEMMA SourceStagedLine ==
    ASSUME IInv, LInv, SourceStaged
    PROVE  LInv'
<1> DEFINE e == Head(m.copying)
           s == [m EXCEPT !.copying = Tail(@)]
           t == IF e.id > 0 THEN Enqueued(s, {e.id}) ELSE [s EXCEPT !.serving = @ \cup {e}]
<1>1. m' = t /\ conf' = conf /\ m.copying # <<>>
  BY DEF SourceStaged, Event
<1>2. /\ Good(m) /\ Shape(m) /\ DOMAIN m = Fields /\ IsLane(m.copying, m.nextId)
      /\ m.copying \in Seq(ToSet(m.copying))
  BY DEF IInv, Good, Shape, IsLane
<1>3. IsLane(Tail(m.copying), m.nextId)
  <2>1. Tail(m.copying) = SubSeq(m.copying, 2, Len(m.copying)) /\ Len(m.copying) \in Nat
    BY <1>1, <1>2
  <2>2. 2 \in Nat \ {0} /\ Len(m.copying) \in 0 .. Len(m.copying)
    BY <2>1
  <2>3. IsLane(SubSeq(m.copying, 2, Len(m.copying)), m.nextId)
    BY <1>2, <2>2, LanePart, Zenon
  <2> QED
    BY <2>1, <2>3
<1>4. /\ DOMAIN s = Fields /\ s.copying = Tail(m.copying)
      /\ s.work = m.work /\ s.qps = m.qps /\ s.nextId = m.nextId /\ s.fences = m.fences
      /\ s.nextQp = m.nextQp /\ s.handoff = m.handoff /\ s.staging = m.staging /\ s.cqes = m.cqes
  BY <1>2 DEF Fields
<1> HIDE DEF s
<1>5. /\ ~(e.id > 0) => Line(s, {})
      /\ e.id > 0 =>
           /\ Line(s, {e.id})
           /\ \A i \in Held(s) : e.id < i
           /\ \A k \in Keys : \A i, j \in On(s, k) :
                j = e.id /\ i < j /\ ~s.work[i].issued => i \in Waiting(s, k)
  BY <1>1, <1>2, <1>4, CopyEndsLine DEF LInv
<1> HIDE DEF e
<1>6. Ids(s) = Ids(m)
  BY <1>4 DEF Ids
<1>7. Shape(s)
  BY <1>2, <1>3, <1>4, <1>6 DEF Shape
<1>8. CASE e.id > 0
  <2> DEFINE ids == {e.id}
  <2>1. t = Enqueued(s, ids)
    BY <1>8
  <2>2. /\ Line(s, ids) /\ \A i \in Held(s), j \in ids : j < i
        /\ \A k \in Keys : \A i, j \in On(s, k) : j \in ids /\ i < j /\ ~s.work[i].issued =>
             i \in ids \cup Waiting(s, k) \/ i <= s.work[j].fenceThrough
    BY <1>5, <1>8
  <2> HIDE DEF ids, t
  <2>3. Line(Enqueued(s, ids), ids \ ids)
    BY <1>7, <2>2, EnqueuedLine
  <2>4. ids \ ids = {}
    OBVIOUS
  <2> QED
    BY <1>1, <2>1, <2>3, <2>4, LineNext
<1>9. CASE ~(e.id > 0)
  <2>1. /\ t.copying = s.copying /\ t.work = s.work /\ t.qps = s.qps
        /\ t.handoff = s.handoff /\ t.staging = s.staging /\ t.cqes = s.cqes
    BY <1>4, <1>9 DEF Fields
  <2> HIDE DEF t
  <2>2. Line(t, {})
    BY <1>5, <1>7, <1>9, <2>1, AlikeLine
  <2> QED
    BY <1>1, <2>2, LineNext
<1> QED
  BY <1>8, <1>9

LEMMA PublishLine ==
    ASSUME IInv, LInv, NEW k \in Keys, Publish(k) \/ BatchTimeout(k)
    PROVE  LInv'
<1> DEFINE q == m.qps[k]
           r == [q EXCEPT !.building = Tail(@), !.published = Append(@, Head(q.building))]
           s == [m EXCEPT !.qps[k].building = Tail(@),
                          !.qps[k].published = Append(@, Head(m.qps[k].building))]
           u == [s EXCEPT !.qps[k].timer = TRUE]
<1>1. conf' = conf
  BY DEF Publish, BatchTimeout, Event
<1>2. Good(m) /\ Shape(m) /\ DOMAIN m = Fields /\ DOMAIN m.qps = Keys /\ QueueShape(q, Ids(m))
  BY DEF IInv, Good, Shape
<1>3. DOMAIN q = QueueFields /\ q.building \in Seq(Ids(m)) /\ q.published \in Seq(Ids(m))
  BY <1>2 DEF QueueShape
<1>4. CASE BatchTimeout(k)
  <2>1. m' = Ring(m, {k})
    BY <1>4 DEF BatchTimeout, Event
  <2> QED
    BY <1>1, <1>2, <2>1, RingLine, LineNext DEF LInv
<1>5. CASE Publish(k)
  <2>1. q.building # <<>> /\ (m' = Ring(s, {k}) \/ m' = u)
    BY <1>5 DEF Publish, Event
  <2>2. /\ DOMAIN s = Fields /\ s.qps = [m.qps EXCEPT ![k] = r]
        /\ s.work = m.work /\ s.nextId = m.nextId
        /\ s.copying = m.copying /\ s.staging = m.staging /\ s.handoff = m.handoff
        /\ s.cqes = m.cqes
    BY <1>2, <1>3 DEF Fields, QueueFields
  <2> HIDE DEF s
  <2>3. Line(s, {})
    BY <1>2, <2>1, <2>2, PublishedLine DEF LInv
  <2>4. DOMAIN s.qps = Keys /\ \A l \in Keys : s.qps[l] = IF l = k THEN r ELSE m.qps[l]
    BY <1>2, <2>2
  <2>5. QueueShape(r, Ids(m))
    <3> HIDE DEF q
    <3> DEFINE h == Head(q.building)
    <3>1. h \in Ids(m) /\ Tail(q.building) \in Seq(Ids(m))
      BY <1>3, <2>1
    <3>2. Append(q.published, h) \in Seq(Ids(m))
      BY <1>3, <3>1
    <3>3. /\ DOMAIN r = QueueFields
          /\ r.building = Tail(q.building) /\ r.published = Append(q.published, h)
          /\ r.waiting = q.waiting /\ r.fetching = q.fetching /\ r.outstanding = q.outstanding
      BY <1>3 DEF QueueFields
    <3> HIDE DEF r, h
    <3> QED
      BY <1>2, <3>1, <3>2, <3>3 DEF QueueShape
  <2> HIDE DEF r
  <2>6. Ids(s) = Ids(m)
    BY <2>2 DEF Ids
  <2>7. Shape(s)
    BY <1>2, <2>2, <2>4, <2>5, <2>6 DEF Shape
  <2>8. CASE m' = Ring(s, {k})
    BY <1>1, <2>3, <2>7, <2>8, RingLine, LineNext
  <2>9. CASE m' = u
    <3>1. /\ u.work = s.work /\ u.copying = s.copying /\ u.staging = s.staging
          /\ u.handoff = s.handoff /\ u.cqes = s.cqes
          /\ u.qps = [s.qps EXCEPT ![k] = [s.qps[k] EXCEPT !.timer = TRUE]]
      BY <2>2 DEF Fields
    <3>2. QueueShape(s.qps[k], Ids(s))
      BY <2>7 DEF Shape
    <3>3. \A l \in Keys : /\ u.qps[l].waiting = s.qps[l].waiting
                          /\ u.qps[l].outstanding = s.qps[l].outstanding
                          /\ u.qps[l].fetching = s.qps[l].fetching
                          /\ u.qps[l].published = s.qps[l].published
                          /\ u.qps[l].building = s.qps[l].building
      BY <2>4, <3>1, <3>2 DEF QueueShape, QueueFields
    <3> HIDE DEF u
    <3>4. Unmoved(s, u)
      BY <3>1, <3>3 DEF Unmoved, Lane, Pipe
    <3> QED
      BY <1>1, <2>3, <2>7, <2>9, <3>4, UnmovedLine, LineNext
  <2> QED
    BY <2>1, <2>8, <2>9
<1> QED
  BY <1>4, <1>5

LEMMA ExecuteWorkLine ==
    ASSUME IInv, LInv, NEW k \in Keys, ExecuteWork(k)
    PROVE  LInv'
<1> DEFINE q == m.qps[k]
           i == Head(q.fetching)
           r == [q EXCEPT !.fetching = Tail(@)]
           s == [m EXCEPT !.qps[k].fetching = Tail(@)]
           u == [s EXCEPT !.work[i].executed = TRUE]
<1>1. /\ q.fetching # <<>> /\ conf' = conf
      /\ IF i \notin DOMAIN m.work THEN m' = s
         ELSE m' = Completed(s, i, FALSE) \/ m' = u
  BY DEF ExecuteWork, Event
<1>2. Good(m) /\ Shape(m) /\ DOMAIN m = Fields /\ DOMAIN m.qps = Keys /\ QueueShape(q, Ids(m))
  BY DEF IInv, Good, Shape
<1>3. DOMAIN q = QueueFields /\ q.fetching \in Seq(Ids(m))
  BY <1>2 DEF QueueShape
<1>4. /\ DOMAIN s = Fields /\ s.qps = [m.qps EXCEPT ![k] = r]
      /\ s.work = m.work /\ s.nextId = m.nextId /\ s.fences = m.fences /\ s.nextQp = m.nextQp
      /\ s.copying = m.copying /\ s.staging = m.staging /\ s.handoff = m.handoff
      /\ s.cqes = m.cqes
  BY <1>2, <1>3 DEF Fields, QueueFields
<1>5. /\ Tail(q.fetching) \in Seq(Ids(m)) /\ i \in ToSet(q.fetching)
      /\ ToSet(Tail(q.fetching)) \subseteq ToSet(q.fetching)
  BY <1>1, <1>3, FirstAndRest
<1>6. i \in DOMAIN m.work
  <2>1. i \in ToSet(Pipe(q))
    <3> DEFINE f == q.fetching
               p == q.published
               b == q.building
               T == Ids(m)
    <3>1. f \in Seq(T) /\ p \in Seq(T) /\ b \in Seq(T) /\ i \in ToSet(f) /\ Pipe(q) = (f \o p) \o b
      BY <1>2, <1>5 DEF QueueShape, Pipe
    <3> HIDE DEF f, p, b, T, q, i
    <3>2. f \o p \in Seq(T) /\ i \in ToSet(f \o p)
      BY <3>1, Parts
    <3> DEFINE fp == f \o p
    <3>3. fp \in Seq(T) /\ i \in ToSet(fp)
      BY <3>2
    <3> HIDE DEF fp
    <3>4. i \in ToSet(fp \o b)
      BY <3>1, <3>3, Parts
    <3> QED
      BY <3>1, <3>4 DEF fp
  <2> QED
    BY <2>1 DEF LInv, Line, Piped, On
<1>7. /\ DOMAIN r = QueueFields /\ r.fetching = Tail(q.fetching) /\ r.waiting = q.waiting
      /\ r.building = q.building /\ r.published = q.published /\ r.outstanding = q.outstanding
  BY <1>3 DEF QueueFields
<1> HIDE DEF r
<1>8. /\ QueueShape(r, Ids(m)) /\ InPipe(r) \subseteq InPipe(q)
      /\ i = Head(q.fetching) /\ WorkShape(m.work[i])
  BY <1>2, <1>5, <1>6, <1>7 DEF QueueShape, InPipe, Shape
<1>9. Good(s)
  <2> HIDE DEF s, i
  <2> QED
    BY <1>2, <1>4, <1>8, QueueMoves
<1> HIDE DEF s, i
<1>12. /\ Shape(m) /\ Line(m, {}) /\ m.qps[k].fetching # <<>> /\ i = Head(m.qps[k].fetching)
       /\ \A l \in Keys \ {k} : s.qps[l] = m.qps[l]
       /\ s.qps[k].fetching = Tail(m.qps[k].fetching) /\ s.qps[k].published = m.qps[k].published
       /\ s.qps[k].building = m.qps[k].building /\ s.qps[k].waiting = m.qps[k].waiting
       /\ s.qps[k].outstanding = m.qps[k].outstanding
  <2>1. s.qps[k] = r /\ \A l \in Keys \ {k} : s.qps[l] = m.qps[l]
    BY <1>2, <1>4
  <2> QED
    BY <1>1, <1>2, <1>7, <1>8, <2>1 DEF LInv
<1> HIDE DEF q
<1>10. CASE m' = u
  <2> DEFINE w == [m.work[i] EXCEPT !.executed = TRUE]
  <2>1. /\ u.work = [m.work EXCEPT ![i] = w] /\ u.qps = s.qps
        /\ u.copying = m.copying /\ u.staging = m.staging
        /\ u.handoff = m.handoff /\ u.cqes = m.cqes
    BY <1>4 DEF Fields
  <2>2. /\ w.peer = m.work[i].peer /\ w.qp = m.work[i].qp /\ w.opcode = m.work[i].opcode
        /\ w.fenceThrough = m.work[i].fenceThrough /\ w.issued = m.work[i].issued /\ Done(w)
    BY <1>8 DEF WorkShape, WorkFields, Done
  <2> HIDE DEF u, w
  <2>3. /\ DOMAIN u.work = DOMAIN m.work
        /\ u.work[i] = w /\ \A j \in DOMAIN m.work \ {i} : u.work[j] = m.work[j]
    BY <1>6, <2>1
  <2>4. Line(u, {})
    <3>1. Leaves(m, u, k, i)
      BY <1>12, <2>1, <2>2, <2>3 DEF Leaves
    <3> QED
      BY <1>12, <3>1, LeftLine
  <2> QED
    BY <1>1, <1>10, <2>4, LineNext
<1>11. CASE m' = Completed(s, i, FALSE)
  <2> DEFINE t == Failed(s, i)
             w == [t.work[i] EXCEPT !.acked = TRUE]
             v == [t EXCEPT !.work[i].acked = TRUE]
             b == [s.work[i] EXCEPT !.failed = TRUE]
  <2>1. Completed(s, i, FALSE) = Acknowledged(t, i)
    BY CompletedIs
  <2>2. Good(t) /\ DOMAIN t.work = DOMAIN s.work
    BY <1>4, <1>6, <1>9, FailedKeeps
  <2>3. /\ DOMAIN t = Fields /\ t.qps = s.qps /\ t.copying = s.copying /\ t.staging = s.staging
        /\ t.handoff = s.handoff /\ t.cqes = s.cqes
        /\ t.work = s.work \/ t.work = [s.work EXCEPT ![i] = b]
    BY <1>4 DEF Failed, Fields
  <2>4. /\ DOMAIN b = WorkFields /\ b.peer = m.work[i].peer /\ b.qp = m.work[i].qp
        /\ b.opcode = m.work[i].opcode
        /\ b.fenceThrough = m.work[i].fenceThrough /\ b.issued = m.work[i].issued
    BY <1>4, <1>8 DEF WorkShape, WorkFields
  <2> HIDE DEF t, b
  <2>5. /\ \A j \in DOMAIN m.work \ {i} : t.work[j] = m.work[j]
        /\ t.work[i] = m.work[i] \/ t.work[i] = b
    BY <1>4, <1>6, <2>3
  <2>6. /\ DOMAIN t.work[i] = WorkFields
        /\ t.work[i].peer = m.work[i].peer /\ t.work[i].qp = m.work[i].qp
        /\ t.work[i].opcode = m.work[i].opcode
        /\ t.work[i].fenceThrough = m.work[i].fenceThrough
        /\ t.work[i].issued = m.work[i].issued
    BY <1>8, <2>4, <2>5 DEF WorkShape
  <2>7. /\ w.peer = m.work[i].peer /\ w.qp = m.work[i].qp /\ w.opcode = m.work[i].opcode
        /\ w.fenceThrough = m.work[i].fenceThrough /\ w.issued = m.work[i].issued /\ Done(w)
    BY <2>6 DEF WorkFields, Done
  <2>8. /\ v.work = [t.work EXCEPT ![i] = w] /\ v.qps = s.qps
        /\ v.copying = m.copying /\ v.staging = m.staging
        /\ v.handoff = m.handoff /\ v.cqes = m.cqes
    BY <1>4, <2>3 DEF Fields
  <2> HIDE DEF v, w
  <2>9. /\ DOMAIN v.work = DOMAIN m.work
        /\ v.work[i] = w /\ \A j \in DOMAIN m.work \ {i} : v.work[j] = m.work[j]
    BY <1>4, <1>6, <2>2, <2>5, <2>8
  <2>10. Line(v, {})
    <3>1. Leaves(m, v, k, i)
      BY <1>12, <2>7, <2>8, <2>9 DEF Leaves
    <3> QED
      BY <1>12, <3>1, LeftLine
  <2>11. Line(Acknowledged(t, i), {})
    BY <1>4, <1>6, <2>2, <2>10, AcknowledgedLine DEF v
  <2> QED
    BY <1>1, <1>11, <2>1, <2>11, LineNext
<1> QED
  BY <1>1, <1>6, <1>10, <1>11

LEMMA PacketAckLine ==
    ASSUME IInv, LInv, NEW i \in DOMAIN m.work, PacketAck(i)
    PROVE  LInv'
<1> DEFINE w == [m.work[i] EXCEPT !.acknowledged = @ + 1]
           s == [m EXCEPT !.work[i].acknowledged = @ + 1]
<1>1. conf' = conf /\ (m' = Acknowledged(s, i) \/ m' = s) /\ m.work[i].executed
  BY DEF PacketAck, Event
<1>2. Good(m) /\ Shape(m) /\ DOMAIN m = Fields /\ WorkShape(m.work[i])
  BY DEF IInv, Good, Shape
<1>3. /\ DOMAIN s = Fields /\ s.work = [m.work EXCEPT ![i] = w]
      /\ s.qps = m.qps /\ s.nextId = m.nextId /\ s.fences = m.fences /\ s.nextQp = m.nextQp
      /\ s.copying = m.copying /\ s.staging = m.staging /\ s.handoff = m.handoff
      /\ s.cqes = m.cqes
  BY <1>2 DEF Fields
<1>4. /\ WorkShape(w) /\ w.acked = m.work[i].acked /\ w.issued = m.work[i].issued
      /\ w.peer = m.work[i].peer /\ w.qp = m.work[i].qp /\ w.opcode = m.work[i].opcode
      /\ w.fenceThrough = m.work[i].fenceThrough /\ w.executed = m.work[i].executed
  BY <1>2 DEF WorkShape, WorkFields
<1> HIDE DEF s, w
<1>5. Good(s) /\ DOMAIN s.work = DOMAIN m.work
  BY <1>2, <1>3, <1>4, MarkKeeps
<1>6. Line(s, {})
  <2>1. Done(w) <=> Done(m.work[i])
    BY <1>4 DEF Done
  <2> QED
    BY <1>2, <1>3, <1>4, <2>1, MarkLine DEF LInv
<1>7. Line(Acknowledged(s, i), {})
  <2>1. s.work[i].executed
    BY <1>1, <1>3, <1>4
  <2>2. Line(Completed(s, i, TRUE), {})
    BY <1>5, <1>6, <2>1, CompletedLine
  <2>3. Completed(s, i, TRUE) = Acknowledged(s, i)
    BY CompletedIs
  <2> QED
    BY <2>2, <2>3
<1> QED
  BY <1>1, <1>6, <1>7, LineNext

LEMMA OperationLine ==
    ASSUME IInv, LInv, NEW i \in DOMAIN m.work,
           OperationComplete(i) \/ OperationFails(i) \/ NotifyFailure(i)
    PROVE  LInv'
<1>1. conf' = conf /\ Good(m) /\ Shape(m)
  BY DEF OperationComplete, OperationFails, NotifyFailure, Event, IInv, Good
<1>2. CASE NotifyFailure(i)
  <2>1. m' = Failed(m, i)
    BY <1>2 DEF NotifyFailure, Event
  <2> QED
    BY <1>1, <2>1, FailedLine, LineNext DEF LInv
<1>3. CASE OperationComplete(i) \/ OperationFails(i)
  <2>1. PICK success \in BOOLEAN : m' = Completed(m, i, success)
    BY <1>3 DEF OperationComplete, OperationFails, Event
  <2>2. m.work[i].executed
    BY <1>3 DEF OperationComplete, OperationFails
  <2>3. Line(Completed(m, i, success), {})
    BY <1>1, <2>2, CompletedLine DEF LInv
  <2> QED
    BY <1>1, <2>1, <2>3, LineNext
<1> QED
  BY <1>2, <1>3

LEMMA ObserveLine ==
    ASSUME IInv, LInv, Observe
    PROVE  LInv'
<1> DEFINE cqe == Head(m.cqes)
           gone == Retired(m, cqe)
           n == [m EXCEPT !.cqes = Tail(@)]
           s == Freed(n, cqe.key, gone)
           t == IF StagingOf(m, gone) > 0 THEN PumpSourceStaging(s) ELSE s
           u == Pump(t, {cqe.key})
           v == Progress(u, cqe.key)
           x == [v EXCEPT !.quiet = @ \ QuietReady(v)]
<1>1. m.cqes # <<>> /\ conf' = conf /\ m' = x
  <2> DEFINE told == {m.work[i].call : i \in gone} \ {m.work[i].call : i \in DOMAIN m.work \ gone}
  <2>1. CheckQuiet(v, told)
    BY DEF Observe
  <2> HIDE DEF told, v
  <2>2. m' = x
    BY <2>1 DEF CheckQuiet
  <2> QED
    BY <2>2 DEF Observe
<1>2. /\ Good(m) /\ Shape(m) /\ DOMAIN m = Fields
      /\ m.cqes \in Seq([key : Keys, through : Ids(m)])
  BY DEF IInv, Good, Shape
<1>3. /\ cqe \in [key : Keys, through : Ids(m)]
      /\ Tail(m.cqes) \in Seq([key : Keys, through : Ids(m)])
  BY <1>1, <1>2, FirstAndRest
<1>4. {cqe.key} \in SUBSET Keys /\ cqe.key \in Keys
  BY <1>3
<1>5. DOMAIN n = Fields /\ n.cqes = Tail(m.cqes) /\ \A f \in Fields \ {"cqes"} : n[f] = m[f]
  BY <1>2 DEF Fields
<1>6. Line(s, {})
  <2> HIDE DEF n
  <2> QED
    BY <1>1, <1>2, <1>5, FreedLine DEF LInv
<1> HIDE DEF n, cqe, gone
<1>7. /\ n.work = m.work /\ n.qps = m.qps /\ n.nextId = m.nextId /\ n.fences = m.fences
      /\ n.nextQp = m.nextQp /\ n.copying = m.copying /\ n.staging = m.staging
      /\ n.handoff = m.handoff
  BY <1>5 DEF Fields
<1>8. Ids(n) = Ids(m)
  BY <1>7 DEF Ids
<1>9. Shape(n)
  BY <1>2, <1>3, <1>5, <1>7, <1>8 DEF Shape
<1>10. Good(n)
  BY <1>2, <1>7, <1>9, WorksStay
<1>11. Good(s)
  BY <1>10, FreedKeeps
<1> HIDE DEF s
<1>12. Good(t) /\ Line(t, {})
  BY <1>6, <1>11, PumpSourceStagingKeeps, StagingLine DEF Good
<1> HIDE DEF t
<1>13. Good(u) /\ Line(u, {})
  BY <1>4, <1>12, PumpKeeps, PumpLine DEF Good
<1> HIDE DEF u
<1>14. Good(v) /\ Line(v, {})
  BY <1>4, <1>13, ProgressKeeps, ProgressLine DEF Good
<1> HIDE DEF v
<1>15. DOMAIN v = Fields /\ Shape(v)
  BY <1>14 DEF Good, Shape
<1>16. /\ x.work = v.work /\ x.qps = v.qps /\ x.copying = v.copying
       /\ x.staging = v.staging /\ x.handoff = v.handoff /\ x.cqes = v.cqes
  BY <1>15 DEF Fields
<1> HIDE DEF x
<1>17. Line(x, {})
  BY <1>14, <1>15, <1>16, AlikeLine
<1> QED
  BY <1>1, <1>17, LineNext

\* New works are on their way, behind all the others.  Each that has no payload
\* is fenced behind the payloads before it: a read behind those it finds, the
\* signal of a put behind everything.
LEMMA NewWorksLine ==
    ASSUME IInv, LInv, Call("submit"), NEW n \in Nat \ {0}, NEW s, NEW new, NEW ids,
           Submitted(s, n, new, ids)
    PROVE  /\ Line(s, DOMAIN new) /\ ToSet(ids) = DOMAIN new
           /\ Held(s) = Held(m) /\ Copied(s) = Copied(m)
           /\ \A i \in DOMAIN new : /\ i \in Int
                                    /\ \A j \in DOMAIN m.work : j < i
                                    /\ \A j \in Copied(m) : j < i
<1> DEFINE call == conf.calls[made + 1]
<1>1. call.opcode \in {"WRITE", "SEND", "READ", "PUT_SIGNAL"}
  <2>1. made + 1 \in 1 .. Len(conf.calls) /\ conf \in Confs /\ call.op = "submit"
    BY CallIs DEF IInv, Calls
  <2> DEFINE c == made + 1
  <2> HIDE DEF c
  <2>2. c \in 1 .. Len(conf.calls) /\ conf \in Confs /\ conf.calls[c].op = "submit"
    BY <2>1 DEF c
  <2>3. conf.calls[c].opcode \in {"WRITE", "SEND", "READ", "PUT_SIGNAL"}
    BY <2>2, SubmissionAssumption
  <2> QED
    BY <2>3 DEF c
<1>2. DOMAIN new = m.nextId .. m.nextId + n - 1
  BY DEF Submitted
<1>3. \A i \in DOMAIN new :
        /\ new[i].opcode \in {call.opcode, "SIGNAL"}
        /\ ~new[i].acked /\ ~new[i].issued /\ ~new[i].executed
        /\ new[i].opcode = "SIGNAL" => new[i].fenceThrough = i - 1
        /\ new[i].opcode = "READ" => \A j \in DOMAIN m.work :
             KeyOf(m.work[j]) = KeyOf(new[i]) /\ Payload(m.work[j]) => j <= new[i].fenceThrough
  BY DEF Submitted, Payload
<1> HIDE DEF call
<1>4. /\ Shape(m) /\ m.nextId \in Nat \ {0} /\ DOMAIN m.work \subseteq Ids(m)
      /\ \A i \in Ids(m) : i \in Int /\ i > 0 /\ i < m.nextId
  BY DEF IInv, Good, Shape, Ids
<1>5. \A i \in DOMAIN new : i \in Int /\ i > 0 /\ i >= m.nextId
  BY <1>2, <1>4
<1>6. \A i \in DOMAIN m.work : /\ i \in Int /\ i > 0 /\ i \notin DOMAIN new
                               /\ \A j \in DOMAIN new : i < j
  BY <1>4, <1>5
<1>7. /\ DOMAIN s.work = DOMAIN m.work \cup DOMAIN new
      /\ \A i \in DOMAIN new : s.work[i] = new[i]
      /\ \A i \in DOMAIN m.work : s.work[i] = m.work[i]
  <2>1. s.work = [i \in DOMAIN m.work \cup DOMAIN new |->
                    IF i \in DOMAIN new THEN new[i] ELSE m.work[i]]
    BY DEF Submitted
  <2> QED
    BY <1>6, <2>1
<1>8. /\ s.qps = m.qps /\ s.copying = m.copying /\ s.staging = m.staging
      /\ s.handoff = m.handoff /\ s.cqes = m.cqes /\ Shape(s)
  BY DEF Submitted, Fields, Good
<1>9. ToSet(ids) = DOMAIN new
  <2>1. ids = [j \in 1 .. n |-> m.nextId + j - 1]
    BY DEF Submitted
  <2>2. \A i \in DOMAIN new : i - m.nextId + 1 \in 1 .. n /\ m.nextId + (i - m.nextId + 1) - 1 = i
    BY <1>2, <1>4
  <2>3. \A j \in 1 .. n : m.nextId + j - 1 \in DOMAIN new
    BY <1>2, <1>4
  <2>4. DOMAIN ids = 1 .. n /\ \A j \in 1 .. n : ids[j] = m.nextId + j - 1
    BY <2>1
  <2>5. \A i \in DOMAIN new : \E j \in DOMAIN ids : ids[j] = i
    BY <2>2, <2>4
  <2> QED
    BY <2>3, <2>4, <2>5 DEF ToSet
<1>10. /\ Held(s) = Held(m) /\ Lane(s) = Lane(m) /\ Copied(s) = Copied(m)
       /\ \A k \in Keys : Waiting(s, k) = Waiting(m, k)
  BY <1>8 DEF Held, Lane, Copied, Waiting
<1>11. ASSUME NEW i \in Copied(m), NEW j \in DOMAIN new PROVE i < j
  <2>1. i \in Int /\ i < m.nextId
    <3> DEFINE q == m.copying
               r == m.staging
               T == ToSet(q) \cup ToSet(r)
    <3>1. /\ q \in Seq(ToSet(q)) /\ r \in Seq(ToSet(r)) /\ Lane(m) = q \o r
          /\ \A e \in T : e.id \in Int /\ e.id < m.nextId
      BY <1>4 DEF Shape, IsLane, Lane
    <3> HIDE DEF q, r
    <3>2. q \in Seq(T) /\ r \in Seq(T)
      BY <3>1
    <3>3. ToSet(q \o r) = ToSet(q) \cup ToSet(r)
      BY <3>2, Parts
    <3> QED
      BY <3>1, <3>3 DEF Copied
  <2> QED
    BY <1>4, <1>5, <2>1
<1>12. \A k \in Keys : \A i \in On(s, k) : i \in On(m, k) \/ i \in DOMAIN new
  BY <1>7 DEF On
<1>13. \A k \in Keys : \A i \in On(m, k) : i \in On(s, k) /\ i \in DOMAIN m.work
  BY <1>7 DEF On
<1>14. InTurn(s)
  <2>1. \A i \in DOMAIN s.work : Done(s.work[i]) => s.work[i].issued
    BY <1>3, <1>7 DEF LInv, Line, InTurn, Done
  <2>2. ASSUME NEW k \in Keys, NEW i \in On(s, k), NEW j \in On(s, k), i < j
        PROVE  /\ s.work[j].issued => s.work[i].issued
               /\ Payload(s.work[i]) /\ ~Payload(s.work[j]) => i <= s.work[j].fenceThrough
    <3>1. CASE j \in DOMAIN new
      <4>1. ~s.work[j].issued /\ s.work[j] = new[j]
        BY <1>3, <1>7, <3>1
      <4>2. ASSUME Payload(s.work[i]), ~Payload(s.work[j]) PROVE i <= s.work[j].fenceThrough
        <5>1. new[j].opcode \in {"READ", "SIGNAL"}
          BY <1>1, <1>3, <3>1, <4>1, <4>2 DEF Payload, HasSourcePayload
        <5>2. i \in Int /\ j \in Int
          BY <1>5, <1>6, <1>7, <3>1 DEF On
        <5>3. CASE new[j].opcode = "SIGNAL"
          <6>1. new[j].fenceThrough = j - 1
            BY <1>3, <3>1, <5>3
          <6> QED
            BY <2>2, <4>1, <5>2, <6>1
        <5>4. CASE new[j].opcode = "READ"
          <6>1. i \notin DOMAIN new
            <7>1. ASSUME i \in DOMAIN new PROVE FALSE
              <8>1. s.work[i] = new[i] /\ new[i].opcode \in {call.opcode, "SIGNAL"}
                    /\ new[j].opcode \in {call.opcode, "SIGNAL"}
                BY <1>3, <1>7, <3>1, <7>1
              <8> QED
                BY <4>2, <5>4, <8>1 DEF Payload, HasSourcePayload
            <7> QED
              BY <7>1
          <6>2. /\ i \in DOMAIN m.work /\ s.work[i] = m.work[i]
                /\ KeyOf(m.work[i]) = k /\ KeyOf(new[j]) = k
            BY <1>7, <4>1, <6>1 DEF On
          <6> QED
            BY <1>3, <3>1, <4>1, <4>2, <5>4, <6>2
        <5> QED
          BY <5>1, <5>3, <5>4
      <4> QED
        BY <4>1, <4>2
    <3>2. CASE j \notin DOMAIN new
      <4>1. j \in On(m, k) /\ j \in DOMAIN m.work
        BY <1>12, <1>13, <3>2
      <4>2. i \notin DOMAIN new
        <5>1. ASSUME i \in DOMAIN new PROVE FALSE
          <6>1. i \in Int /\ j \in Int /\ j < i
            BY <1>5, <1>6, <4>1, <5>1
          <6> QED
            BY <2>2, <6>1
        <5> QED
          BY <5>1
      <4>3. i \in On(m, k) /\ s.work[i] = m.work[i] /\ s.work[j] = m.work[j]
        BY <1>7, <1>12, <1>13, <4>1, <4>2
      <4> QED
        BY <2>2, <4>1, <4>3 DEF LInv, Line, InTurn
    <3> QED
      BY <3>1, <3>2
  <2> QED
    BY <2>1, <2>2 DEF InTurn
<1>15. Piped(s)
  <2>1. \A i \in DOMAIN new : ~Done(s.work[i]) /\ ~s.work[i].issued
    BY <1>3, <1>7 DEF Done
  <2> QED
    BY <1>7, <1>8, <1>12, <1>13, <2>1 DEF LInv, Line, Piped
<1>16. Reported(s)
  <2>1. ASSUME NEW a \in DOMAIN m.cqes, NEW i \in DOMAIN new PROVE m.cqes[a].through < i
    <3> DEFINE C == [key : Keys, through : Ids(m)]
    <3>1. m.cqes \in Seq(C)
      BY <1>4 DEF Shape
    <3>2. m.cqes[a] \in C
      <4> HIDE DEF C
      <4> QED
        BY <3>1
    <3>3. m.cqes[a].through \in Ids(m)
      BY <3>2
    <3> QED
      BY <1>4, <1>5, <3>3
  <2> SUFFICES ASSUME NEW k \in Keys
               PROVE  /\ Ascends(m.qps[k].outstanding)
                      /\ \A i \in ToSet(m.qps[k].outstanding) : i \in On(s, k) /\ s.work[i].issued
                      /\ \A a \in DOMAIN m.cqes : m.cqes[a].key = k =>
                           /\ \A i \in ToSet(m.qps[k].outstanding) : m.cqes[a].through < i
                           /\ \A i \in On(s, k) : ~s.work[i].issued => m.cqes[a].through < i
    BY <1>8 DEF Reported
  <2>2. \A i \in ToSet(m.qps[k].outstanding) : i \in On(s, k) /\ s.work[i].issued
    BY <1>7, <1>13 DEF LInv, Line, Reported
  <2>3. ASSUME NEW a \in DOMAIN m.cqes, m.cqes[a].key = k, NEW i \in On(s, k), ~s.work[i].issued
        PROVE  m.cqes[a].through < i
    <3>1. CASE i \in DOMAIN new
      BY <2>1, <3>1
    <3>2. CASE i \in On(m, k)
      BY <1>7, <1>13, <2>3, <3>2 DEF LInv, Line, Reported
    <3> QED
      BY <1>12, <3>1, <3>2
  <2> QED
    BY <2>2, <2>3 DEF LInv, Line, Reported
<1>17. Queued(s)
  <2> SUFFICES ASSUME NEW k \in Keys
               PROVE  /\ Ascends(m.qps[k].waiting)
                      /\ \A i \in Waiting(m, k) : i \in On(s, k) /\ ~s.work[i].issued
                      /\ \A j \in Waiting(m, k), i \in On(s, k) : i < j /\ ~s.work[i].issued =>
                           i \in Waiting(m, k) \/ i <= s.work[j].fenceThrough
    BY <1>8, <1>10 DEF Queued
  <2>1. \A i \in Waiting(m, k) : i \in On(m, k) /\ i \in DOMAIN m.work /\ s.work[i] = m.work[i]
    BY <1>7, <1>13 DEF LInv, Line, Queued
  <2>2. \A i \in Waiting(m, k) : i \in On(s, k) /\ ~s.work[i].issued
    BY <1>13, <2>1 DEF LInv, Line, Queued
  <2>3. ASSUME NEW j \in Waiting(m, k), NEW i \in On(s, k), i < j, ~s.work[i].issued
        PROVE  i \in Waiting(m, k) \/ i <= s.work[j].fenceThrough
    <3>1. i \notin DOMAIN new
      <4>1. ASSUME i \in DOMAIN new PROVE FALSE
        <5>1. i \in Int /\ j \in Int /\ j < i
          BY <1>5, <1>6, <2>1, <4>1
        <5> QED
          BY <2>3, <5>1
      <4> QED
        BY <4>1
    <3>2. i \in On(m, k) /\ s.work[i] = m.work[i]
      BY <1>7, <1>12, <1>13, <3>1
    <3> QED
      BY <2>1, <2>3, <3>2 DEF LInv, Line, Queued
  <2> QED
    BY <2>2, <2>3 DEF LInv, Line, Queued
<1>18. Placed(s, DOMAIN new)
  <2> DEFINE out == DOMAIN new
  <2>1. ASSUME NEW i \in DOMAIN s.work, ~s.work[i].issued
        PROVE  i \in out \cup Held(m) \cup Copied(m) \cup Waiting(s, KeyOf(s.work[i]))
    <3>1. CASE i \in DOMAIN m.work
      <4>1. s.work[i] = m.work[i] /\ KeyOf(m.work[i]) \in Keys
        BY <1>4, <1>7, <3>1, WorkKey
      <4>2. i \in Held(m) \cup Copied(m) \cup Waiting(m, KeyOf(m.work[i]))
        BY <2>1, <3>1, <4>1 DEF LInv, Line, Placed
      <4> QED
        BY <1>10, <4>1, <4>2
    <3> QED
      BY <1>7, <3>1
  <2>2. \A k \in Keys : \A i \in Waiting(m, k) : i \in DOMAIN m.work
    BY DEF LInv, Line, Queued, On
  <2>3. \A i \in Held(m) : i \in DOMAIN m.work /\ ~m.work[i].issued
    BY DEF LInv, Line, Placed
  <2>4. \A i \in out : i \notin Copied(m) /\ i \notin Held(m) /\ i \notin DOMAIN m.work
    <3>1. \A i \in out : ~(i < i)
      BY <1>5
    <3> QED
      BY <1>6, <1>11, <2>3, <3>1
  <2> HIDE DEF out
  <2>5. /\ \A k \in Keys : Waiting(m, k) \cap (out \cup Held(m) \cup Copied(m)) = {}
        /\ out \cap (Held(m) \cup Copied(m)) = {} /\ Held(m) \cap Copied(m) = {}
    BY <2>2, <2>4 DEF LInv, Line, Placed
  <2>6. \A i \in out \cup Held(m) : i \in DOMAIN s.work /\ ~s.work[i].issued
    BY <1>3, <1>7, <2>3 DEF out
  <2>7. \A i \in Copied(m) : i > 0 => /\ i \in DOMAIN s.work /\ ~s.work[i].issued
                                      /\ Staged /\ Payload(s.work[i])
    BY <1>7 DEF LInv, Line, Placed
  <2>8. \A i \in Held(m) : \A j \in DOMAIN s.work \ (out \cup Held(m)) : j < i
    BY <1>7 DEF LInv, Line, Placed, out
  <2>9. Placed(s, out)
    BY <1>8, <1>10, <2>1, <2>5, <2>6, <2>7, <2>8 DEF LInv, Line, Placed
  <2> QED
    BY <2>9 DEF out
<1> QED
  BY <1>5, <1>6, <1>9, <1>10, <1>11, <1>14, <1>15, <1>16, <1>17, <1>18 DEF Line

\* They are handed to the CPU worker.
LEMMA HandOverLine ==
    ASSUME NEW s, Shape(s), NEW ids \in Seq(Ids(s)), Line(s, ToSet(ids)), conf.cpuHandoff,
           \A j \in ToSet(ids) : \A i \in DOMAIN s.work \ ToSet(ids) : i < j, NEW t,
           t.work = s.work, t.qps = s.qps, t.copying = s.copying, t.staging = s.staging,
           t.handoff = Append(s.handoff, ids), t.cqes = s.cqes
    PROVE  Line(t, {})
<1> DEFINE out == ToSet(ids)
           h == s.handoff
           g == Append(s.handoff, ids)
           T == Seq(Ids(s))
<1>1. h \in Seq(T) /\ ids \in T /\ g = Append(h, ids) /\ t.handoff = g
  BY DEF Shape
<1>2. Held(s) = UNION {ToSet(h[a]) : a \in DOMAIN h} /\ Held(t) = UNION {ToSet(g[a]) : a \in DOMAIN g}
  BY <1>1 DEF Held
<1>3. \A a, b \in DOMAIN h : a < b => \A x \in ToSet(h[a]), y \in ToSet(h[b]) : x < y
  BY DEF Line, Placed
<1> HIDE DEF h, g, T
<1>4. /\ Len(h) \in Nat /\ DOMAIN h = 1 .. Len(h) /\ DOMAIN g = 1 .. Len(h) + 1
      /\ \A a \in 1 .. Len(h) : g[a] = h[a]
      /\ g[Len(h) + 1] = ids
  BY <1>1
<1>5. /\ Len(h) + 1 \in DOMAIN g /\ \A a \in DOMAIN h : a \in DOMAIN g /\ g[a] = h[a]
      /\ \A a \in DOMAIN g : a \in DOMAIN h \/ a = Len(h) + 1
  BY <1>4
<1>6. Held(t) = Held(s) \cup out
  BY <1>2, <1>4, <1>5
<1> HIDE DEF out
<1>7. Line(s, out) /\ \A j \in out : \A i \in DOMAIN s.work \ out : i < j
  BY DEF out
<1>8. \A i \in Held(s) : i \in DOMAIN s.work \ out
  BY <1>7 DEF Line, Placed
<1>9. /\ Lane(t) = Lane(s) /\ Copied(t) = Copied(s)
      /\ \A k \in Keys : On(t, k) = On(s, k) /\ Waiting(t, k) = Waiting(s, k)
  BY DEF Lane, Copied, On, Waiting
<1>10. InTurn(t) /\ Piped(t) /\ Reported(t) /\ Queued(t)
  BY <1>9 DEF Line, InTurn, Piped, Reported, Queued
<1>11. ASSUME NEW a \in DOMAIN g, NEW b \in DOMAIN g, a < b,
              NEW x \in ToSet(g[a]), NEW y \in ToSet(g[b])
       PROVE  x < y
  <2>1. a \in DOMAIN h /\ g[a] = h[a]
    BY <1>4, <1>11
  <2>2. CASE b \in DOMAIN h
    BY <1>3, <1>5, <1>11, <2>1, <2>2
  <2>3. CASE b = Len(h) + 1
    <3>1. y \in out /\ x \in Held(s)
      BY <1>2, <1>4, <1>11, <2>1, <2>3 DEF out
    <3> QED
      BY <1>7, <1>8, <3>1
  <2> QED
    BY <1>5, <2>2, <2>3
<1>12. Placed(t, {})
  <2>1. \A i \in DOMAIN s.work : Waiting(t, KeyOf(s.work[i])) = Waiting(s, KeyOf(s.work[i]))
    BY <1>9, WorkKey
  <2>2. \A i \in DOMAIN t.work : ~t.work[i].issued =>
          i \in {} \cup Held(t) \cup Copied(t) \cup Waiting(t, KeyOf(t.work[i]))
    BY <1>6, <1>7, <1>9, <2>1 DEF Line, Placed
  <2>3. /\ \A k \in Keys : Waiting(t, k) \cap ({} \cup Held(t) \cup Copied(t)) = {}
        /\ {} \cap (Held(t) \cup Copied(t)) = {} /\ Held(t) \cap Copied(t) = {}
    BY <1>6, <1>7, <1>9 DEF Line, Placed
  <2>4. \A i \in {} \cup Held(t) : i \in DOMAIN t.work /\ ~t.work[i].issued
    BY <1>6, <1>7 DEF Line, Placed
  <2>5. \A i \in Copied(t) : i > 0 => /\ i \in DOMAIN t.work /\ ~t.work[i].issued
                                      /\ Staged /\ Payload(t.work[i])
    BY <1>9 DEF Line, Placed
  <2>6. \A i \in Held(t) : \A j \in DOMAIN t.work \ ({} \cup Held(t)) : j < i
    BY <1>6, <1>7 DEF Line, Placed
  <2>7. InLine(Lane(t))
    BY <1>9 DEF Line, Placed
  <2> QED
    BY <1>1, <1>11, <2>2, <2>3, <2>4, <2>5, <2>6, <2>7 DEF Placed
<1> QED
  BY <1>10, <1>12 DEF Line

LEMMA SubmitLine ==
    ASSUME IInv, LInv, Submit
    PROVE  LInv'
<1>1. Call("submit") /\ conf' = conf
  BY DEF Submit, Call
<1>2. PICK n, s, new, ids : n \in Nat \ {0} /\ Submitted(s, n, new, ids)
  BY SubmitIs
<1>3. /\ Line(s, DOMAIN new) /\ ToSet(ids) = DOMAIN new
      /\ Held(s) = Held(m) /\ Copied(s) = Copied(m)
      /\ \A i \in DOMAIN new : /\ i \in Int
                               /\ \A j \in DOMAIN m.work : j < i
                               /\ \A j \in Copied(m) : j < i
  BY <1>1, <1>2, NewWorksLine
<1>4. /\ Good(s) /\ Shape(s) /\ DOMAIN s = Fields /\ ids \in Seq(Ids(s))
      /\ DOMAIN s.work = DOMAIN m.work \cup DOMAIN new /\ s.handoff = m.handoff
  BY <1>2 DEF Submitted, Good, Fields
<1>5. CASE conf.cpuHandoff
  <2> DEFINE h == [s EXCEPT !.handoff = Append(@, ids)]
  <2>1. m' = h
    BY <1>2, <1>5 DEF Submitted
  <2>2. /\ h.work = s.work /\ h.qps = s.qps /\ h.copying = s.copying /\ h.staging = s.staging
        /\ h.handoff = Append(s.handoff, ids) /\ h.cqes = s.cqes
    BY <1>4 DEF Fields
  <2> HIDE DEF h
  <2>3. \A j \in ToSet(ids) : \A i \in DOMAIN s.work \ ToSet(ids) : i < j
    BY <1>3, <1>4
  <2>4. Line(h, {})
    BY <1>3, <1>4, <1>5, <2>2, <2>3, HandOverLine
  <2> QED
    BY <1>1, <2>1, <2>4, LineNext
<1>6. CASE ~conf.cpuHandoff
  <2>1. m' = Started(s, ids)
    BY <1>2, <1>6 DEF Submitted
  <2>2. m.handoff = <<>>
    BY <1>6 DEF LInv, Line, Placed
  <2>3. Held(s) = {}
    BY <1>4, <2>2 DEF Held
  <2>4. Line(Started(s, ids), {})
    BY <1>3, <1>4, <2>3, StartedLine
  <2> QED
    BY <1>1, <2>1, <2>4, LineNext
<1> QED
  BY <1>5, <1>6

LEMMA InitLine == Init => LInv
<1> SUFFICES ASSUME Init PROVE LInv
  OBVIOUS
<1>1. /\ DOMAIN m.work = {} /\ m.qps = [k \in Keys |-> EmptyQp]
      /\ m.handoff = <<>> /\ m.staging = <<>> /\ m.copying = <<>> /\ m.cqes = <<>>
  BY DEF Init
<1>2. /\ Pipe(EmptyQp) = <<>> /\ EmptyQp.waiting = <<>> /\ EmptyQp.outstanding = <<>>
  BY DEF Pipe, EmptyQp
<1>3. ToSet(<<>>) = {} /\ Ascends(<<>>) /\ InLine(<<>>)
  BY DEF ToSet, Ascends, InLine
<1>4. Lane(m) = <<>> /\ Copied(m) = {} /\ Held(m) = {}
  <2>1. Lane(m) = <<>>
    BY <1>1 DEF Lane
  <2> QED
    BY <1>1, <1>3, <2>1 DEF Copied, Held
<1>5. \A k \in Keys : On(m, k) = {} /\ Waiting(m, k) = {} /\ m.qps[k] = EmptyQp
  BY <1>1, <1>2, <1>3 DEF On, Waiting
<1>6. InTurn(m) /\ Piped(m)
  BY <1>1, <1>2, <1>3, <1>5 DEF InTurn, Piped
<1>7. Reported(m) /\ Queued(m)
  BY <1>1, <1>2, <1>3, <1>5 DEF Reported, Queued
<1>8. Placed(m, {})
  BY <1>1, <1>3, <1>4, <1>5 DEF Placed
<1> QED
  BY <1>6, <1>7, <1>8 DEF LInv, Line

LEMMA NextLine == IInv /\ LInv /\ [Next]_vars => LInv'
<1> SUFFICES ASSUME IInv, LInv, [Next]_vars PROVE LInv'
  OBVIOUS
<1>1. CASE Submit \/ Fence \/ Quiet \/ StageSourcePayload
  BY <1>1, SubmitLine, FenceLine, QuietLine, StageSourcePayloadLine
<1>2. CASE Scheduled
  <2>1. CASE Start \/ SourceStaged \/ ReleaseSourceStaging \/ Observe
    BY <2>1, StartLine, SourceStagedLine, ReleaseSourceStagingLine, ObserveLine
  <2>2. ASSUME NEW k \in Keys, Publish(k) \/ BatchTimeout(k) \/ ExecuteWork(k) PROVE LInv'
    BY <2>2, PublishLine, ExecuteWorkLine
  <2>3. ASSUME NEW i \in DOMAIN m.work, PacketAck(i) PROVE LInv'
    BY <2>3, PacketAckLine
  <2> QED
    BY <1>2, <2>1, <2>2, <2>3 DEF Scheduled
<1>3. ASSUME NEW i \in DOMAIN m.work,
             OperationComplete(i) \/ OperationFails(i) \/ NotifyFailure(i)
      PROVE  LInv'
  BY <1>3, OperationLine
<1>4. CASE UNCHANGED vars
  BY <1>4, LineNext DEF vars, LInv
<1> QED
  BY <1>1, <1>2, <1>3, <1>4 DEF Next

\* The next of the pipe is behind all that has left it, so what is before a work
\* that has left the NIC cannot be in the pipe still.
LEMMA LineImplies ==
    ASSUME IInv, LInv
    PROVE  SendQueueOrder
<1> SUFFICES ASSUME NEW k \in Keys
             PROVE  /\ ToSet(m.qps[k].outstanding) \subseteq DOMAIN m.work
                    /\ \A a, b \in DOMAIN m.qps[k].outstanding :
                         a < b => m.qps[k].outstanding[a] < m.qps[k].outstanding[b]
                    /\ \A i, j \in DOMAIN m.work :
                         /\ i < j /\ KeyOf(m.work[i]) = k /\ KeyOf(m.work[j]) = k
                         /\ m.work[j].executed
                         => m.work[i].executed \/ m.work[i].acked
  BY DEF SendQueueOrder
<1>1. ToSet(m.qps[k].outstanding) \subseteq DOMAIN m.work /\ Ascends(m.qps[k].outstanding)
  BY DEF LInv, Line, Reported, On
<1>2. ASSUME NEW i \in DOMAIN m.work, NEW j \in DOMAIN m.work,
             i < j, KeyOf(m.work[i]) = k, KeyOf(m.work[j]) = k, m.work[j].executed
      PROVE  m.work[i].executed \/ m.work[i].acked
  <2>1. i \in On(m, k) /\ j \in On(m, k) /\ Done(m.work[j]) /\ i \in Int /\ j \in Int
    <3>1. Shape(m)
      BY DEF IInv, Good
    <3> QED
      BY <1>2, <3>1, WorkKey DEF On, Done
  <2>2. m.work[i].issued
    BY <1>2, <2>1 DEF LInv, Line, InTurn
  <2>3. i \notin ToSet(Pipe(m.qps[k]))
    <3>1. i \in ToSet(Pipe(m.qps[k])) => j < i
      BY <2>1 DEF LInv, Line, Piped
    <3> QED
      BY <1>2, <2>1, <3>1
  <2>4. Done(m.work[i])
    BY <2>1, <2>2, <2>3 DEF LInv, Line, Piped
  <2> QED
    BY <2>4 DEF Done
<1> QED
  BY <1>1, <1>2 DEF Ascends

-----------------------------------------------------------------------------
(* The theorems.                                                           *)

\* Every step keeps the invariant.
LEMMA NextKeeps == IInv /\ [Next]_vars => IInv'
<1> SUFFICES ASSUME IInv, [Next]_vars PROVE IInv'
  OBVIOUS
<1>1. CASE Submit
  BY <1>1, SubmitStep
<1>2. CASE Fence
  BY <1>2, FenceStep
<1>3. CASE Quiet
  BY <1>3, QuietStep
<1>4. CASE StageSourcePayload
  BY <1>4, StageSourcePayloadStep
<1>5. CASE Scheduled
  <2>1. CASE Start
    BY <2>1, StartStep
  <2>2. CASE SourceStaged
    BY <2>2, SourceStagedStep
  <2>3. CASE ReleaseSourceStaging
    BY <2>3, ReleaseSourceStagingStep
  <2>4. CASE Observe
    BY <2>4, ObserveStep
  <2>5. ASSUME NEW k \in Keys, Publish(k) PROVE IInv'
    BY <2>5, PublishStep
  <2>6. ASSUME NEW k \in Keys, BatchTimeout(k) PROVE IInv'
    BY <2>6, BatchTimeoutStep
  <2>7. ASSUME NEW k \in Keys, ExecuteWork(k) PROVE IInv'
    BY <2>7, ExecuteWorkStep
  <2>8. ASSUME NEW i \in DOMAIN m.work, PacketAck(i) PROVE IInv'
    BY <2>8, PacketAckStep
  <2> QED
    BY <1>5, <2>1, <2>2, <2>3, <2>4, <2>5, <2>6, <2>7, <2>8 DEF Scheduled
<1>6. ASSUME NEW i \in DOMAIN m.work,
             OperationComplete(i) \/ OperationFails(i) \/ NotifyFailure(i)
      PROVE  IInv'
  BY <1>6, OperationStep, NotifyFailureStep
<1>7. CASE UNCHANGED vars
  <2>1. m' = m /\ UNCHANGED <<conf, made, origin>> /\ Good(m) /\ Same(m, m)
    BY <1>7 DEF vars, IInv, Same
  <2> QED
    BY <2>1, EventStep
<1> QED
  BY <1>1, <1>2, <1>3, <1>4, <1>5, <1>6, <1>7 DEF Next

\* In every behaviour of the submission model, for any configuration and any
\* calls: the queues hold ids that were given out, only issued works are in
\* the pipe of a queue pair, and a work is issued only past its fence, which
\* lies behind all that was submitted before the last Fence of its peer.
THEOREM SubmissionInvariant == Spec => []IInv
BY InitEstablishes, NextKeeps, PTL DEF Spec

\* No work leaves the NIC before what Fence, or the payload of its put, orders
\* it behind is remotely visible (fenceThrough and BlockedByFence,
\* rdma-submission-model.cc:930 and :1004).
THEOREM FencesHold == Spec => []FencedOrder
<1>1. IInv => FencedOrder
  BY InvariantOrders
<1> QED
  BY <1>1, SubmissionInvariant, PTL

\* A callback is called once and never early: a request's when the last of its
\* works is observed, Quiet's when every request before it has been told, and
\* with success only if all of them succeeded (Observe and CheckQuiet,
\* rdma-submission-model.cc:1281 and :1381).
THEOREM CallbacksTold == Spec => []ToldWhenDone
<1>1. IInv /\ TInv => ToldWhenDone
  BY ToldImplies
<1> QED
  BY <1>1, SubmissionInvariant, InitTold, NextTold, PTL DEF Spec

\* On every queue pair works leave the NIC and are reported in the order they
\* were submitted, whatever staging, handoff, batches and moderation lie
\* between: what Observe (rdma-submission-model.cc:1281) relies on when it
\* retires all works up to one id.
THEOREM SendQueuesInOrder == Spec => []SendQueueOrder
<1>1. IInv /\ LInv => SendQueueOrder
  BY LineImplies
<1> QED
  BY <1>1, SubmissionInvariant, InitLine, NextLine, PTL DEF Spec

=============================================================================
