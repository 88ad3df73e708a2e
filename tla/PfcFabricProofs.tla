--------------------------- MODULE PfcFabricProofs ---------------------------
(***************************************************************************)
(* What holds of the endpoints behind an output port and of the port, for  *)
(* any endpoints, workloads, thresholds, timers and losses: the slots of   *)
(* the transmit window are exact, flows keep their order across pauses,    *)
(* and the headroom bounds the data in the port's queue.                   *)
(***************************************************************************)
EXTENDS PfcFabric, FiniteSetTheorems, TLAPS

-----------------------------------------------------------------------------
(* Sequences.                                                              *)

\* Picked lists the elements at the given positions, each once and in order.
\* (The rank of a position among them is a bijection.)
LEMMA PickedIs ==
    ASSUME NEW T, NEW ps \in Seq(T), NEW at \in SUBSET DOMAIN ps
    PROVE  /\ Picked(ps, at) \in Seq(T)
           /\ ToSet(Picked(ps, at)) = {ps[n] : n \in at}
           /\ \A i, j \in DOMAIN Picked(ps, at) :
                i < j => \E k, n \in at : /\ k < n
                                          /\ Picked(ps, at)[i] = ps[k]
                                          /\ Picked(ps, at)[j] = ps[n]
<1> DEFINE c == Cardinality(at)
           UpTo(n) == {k \in at : k <= n}
           rank == [n \in at |-> Cardinality(UpTo(n))]
<1>1. /\ IsFiniteSet(at) /\ c \in Nat
      /\ \A n \in at : n \in Nat
  <2>1. Len(ps) \in Nat /\ DOMAIN ps = 1..Len(ps)
    OBVIOUS
  <2>2. IsFiniteSet(1..Len(ps))
    BY <2>1, FS_Interval
  <2>3. IsFiniteSet(at)
    BY <2>1, <2>2, FS_Subset
  <2> QED
    BY <2>1, <2>3, FS_CardinalityType
<1>2. \A n \in at : IsFiniteSet(UpTo(n)) /\ Cardinality(UpTo(n)) \in Nat
  <2> SUFFICES ASSUME NEW n \in at
               PROVE  IsFiniteSet(UpTo(n)) /\ Cardinality(UpTo(n)) \in Nat
    OBVIOUS
  <2>1. UpTo(n) \in SUBSET at
    OBVIOUS
  <2>2. IsFiniteSet(UpTo(n))
    BY <1>1, <2>1, FS_Subset
  <2> QED
    BY <2>2, FS_CardinalityType
<1>3. ASSUME NEW k \in at, NEW n \in at, k < n PROVE rank[k] < rank[n]
  <2>1. UpTo(k) \cup {n} \in SUBSET UpTo(n)
    BY <1>1, <1>3
  <2>2. n \notin UpTo(k)
    BY <1>1, <1>3
  <2>3. Cardinality(UpTo(k) \cup {n}) = Cardinality(UpTo(k)) + 1
    BY <1>2, <2>2, FS_AddElement
  <2>4. Cardinality(UpTo(k) \cup {n}) <= Cardinality(UpTo(n))
    BY <1>2, <2>1, FS_Subset
  <2> HIDE DEF UpTo
  <2>5. rank[k] = Cardinality(UpTo(k)) /\ rank[n] = Cardinality(UpTo(n))
    OBVIOUS
  <2> QED
    BY <1>2, <2>3, <2>4, <2>5
<1>4. ASSUME NEW n \in at PROVE rank[n] \in 1..c
  <2>1. UpTo(n) \in SUBSET at /\ n \in UpTo(n)
    BY <1>1
  <2>2. Cardinality(UpTo(n)) <= c
    BY <1>1, <2>1, FS_Subset
  <2>3. Cardinality(UpTo(n)) # 0
    BY <1>2, <2>1, FS_EmptySet
  <2>4. rank[n] = Cardinality(UpTo(n))
    OBVIOUS
  <2> HIDE DEF UpTo, c, rank
  <2> QED
    BY <1>1, <1>2, <2>2, <2>3, <2>4
<1>5. \A n \in at : rank[n] = Cardinality({k \in at : k <= n})
  OBVIOUS
<1> HIDE DEF c, UpTo
<1>6. rank \in [at -> 1..c]
  BY <1>4
<1> HIDE DEF rank
<1>7. \A k, n \in at : rank[k] = rank[n] => k = n
  <2> SUFFICES ASSUME NEW k \in at, NEW n \in at, rank[k] = rank[n]
               PROVE  k = n
    OBVIOUS
  <2>1. rank[k] \in Int /\ rank[n] \in Int
    BY <1>4
  <2>2. ~(k < n) /\ ~(n < k)
    BY <1>3, <2>1
  <2> QED
    BY <1>1, <2>2
<1>8. rank \in Surjection(at, 1..c)
  <2>1. IsFiniteSet(1..c) /\ Cardinality(1..c) = c
    BY <1>1, FS_Interval
  <2>2. rank \in Injection(at, 1..c)
    BY <1>6, <1>7 DEF Injection, IsInjective
  <2> QED
    BY <2>1, <2>2, FS_Injection DEF c
<1>9. \A i \in 1..c : \E n \in at : rank[n] = i
  BY <1>8 DEF Surjection
<1> DEFINE Nth(i) == CHOOSE n \in at : Cardinality({k \in at : k <= n}) = i
<1>10. ASSUME NEW i \in 1..c PROVE Nth(i) \in at /\ rank[Nth(i)] = i
  <2>1. \E n \in at : Cardinality({k \in at : k <= n}) = i
    BY <1>5, <1>9
  <2>2. Nth(i) \in at /\ Cardinality({k \in at : k <= Nth(i)}) = i
    BY <2>1
  <2> QED
    BY <1>5, <2>2
<1>11. Picked(ps, at) = [i \in 1..c |-> ps[Nth(i)]]
  BY DEF Picked, c
<1> HIDE DEF Nth
<1>12. \A n \in at : ps[n] \in T
  OBVIOUS
<1> DEFINE r == Picked(ps, at)
<1>13. r \in [1..c -> T] /\ DOMAIN r = 1..c /\ \A i \in 1..c : r[i] = ps[Nth(i)]
  BY <1>10, <1>11, <1>12
<1> HIDE DEF r
<1>14. r \in Seq(T)
  BY <1>1, <1>13
<1>15. ToSet(r) = {ps[n] : n \in at}
  <2>1. \A n \in at : rank[n] \in 1..c /\ Nth(rank[n]) = n
    BY <1>4, <1>7, <1>10
  <2>2. ASSUME NEW i \in 1..c PROVE r[i] \in {ps[n] : n \in at}
    BY <1>10, <1>13
  <2>3. ASSUME NEW n \in at PROVE \E i \in 1..c : r[i] = ps[n]
    BY <1>13, <2>1
  <2> QED
    BY <1>13, <2>2, <2>3 DEF ToSet
<1>16. ASSUME NEW i \in 1..c, NEW j \in 1..c, i < j
       PROVE  \E k, n \in at : k < n /\ r[i] = ps[k] /\ r[j] = ps[n]
  <2>1. /\ Nth(i) \in at /\ Nth(j) \in at
        /\ rank[Nth(i)] = i /\ rank[Nth(j)] = j
    BY <1>10
  <2>2. ~(Nth(j) < Nth(i)) /\ Nth(i) # Nth(j)
    BY <1>1, <1>3, <1>16, <2>1
  <2>3. Nth(i) < Nth(j)
    BY <1>1, <2>1, <2>2
  <2> QED
    BY <1>13, <2>1, <2>3
<1> QED
  BY <1>13, <1>14, <1>15, <1>16 DEF r

\* What a concatenation holds, and where.
LEMMA ConcatHas ==
    ASSUME NEW T, NEW q \in Seq(T), NEW r \in Seq(T)
    PROVE  /\ q \o r \in Seq(T)
           /\ ToSet(q \o r) = ToSet(q) \cup ToSet(r)
           /\ Len(q \o r) = Len(q) + Len(r)
           /\ \A i \in 1..(Len(q) + Len(r)) :
                (q \o r)[i] = IF i <= Len(q) THEN q[i] ELSE r[i - Len(q)]
<1>1. /\ q \o r \in Seq(T) /\ Len(q \o r) = Len(q) + Len(r)
      /\ Len(q) \in Nat /\ Len(r) \in Nat
      /\ DOMAIN q = 1..Len(q) /\ DOMAIN r = 1..Len(r)
      /\ DOMAIN (q \o r) = 1..(Len(q) + Len(r))
      /\ \A i \in 1..(Len(q) + Len(r)) :
           (q \o r)[i] = IF i <= Len(q) THEN q[i] ELSE r[i - Len(q)]
  OBVIOUS
<1> DEFINE s == q \o r
<1> HIDE DEF s
<1>2. ASSUME NEW i \in 1..Len(q) PROVE s[i] = q[i] /\ i \in 1..(Len(q) + Len(r))
  BY <1>1 DEF s
<1>3. ASSUME NEW i \in 1..Len(r)
      PROVE  s[Len(q) + i] = r[i] /\ Len(q) + i \in 1..(Len(q) + Len(r))
  BY <1>1 DEF s
<1>4. ASSUME NEW i \in 1..(Len(q) + Len(r))
      PROVE  \/ i \in 1..Len(q) /\ s[i] = q[i]
             \/ i - Len(q) \in 1..Len(r) /\ s[i] = r[i - Len(q)]
  BY <1>1 DEF s
<1>5. ToSet(s) = ToSet(q) \cup ToSet(r)
  BY <1>1, <1>2, <1>3, <1>4 DEF ToSet, s
<1> QED
  BY <1>1, <1>5 DEF s

-----------------------------------------------------------------------------
(* One endpoint.  In these definitions e is an endpoint, g the packets it  *)
(* was given, n the packets that are at the switch or acknowledged, and x  *)
(* the packets whose slot was released and whose copy is still stored.     *)

\* p and q are packets of one flow and p is the earlier one.
Before(e, p, q) == p[1] = q[1] /\ p[2] < q[2] /\ e.class[p] = e.class[q]

\* The packets given, and those that have left the queues before the window.
Given(g) == {<<"bulk", i>> : i \in 1..g.bulk} \cup {<<"rdma", i>> : i \in 1..g.rdma}
Taken(e, g) ==
    {<<"bulk", i>> : i \in 1..(g.bulk - Len(e.bulk))}
        \cup {<<"rdma", i>> : i \in 1..(g.rdma - Len(e.rdma))}

Endpoint ==
    [size : Nat, class : UNION {[S -> Class] : S \in SUBSET Packet}, paced : BOOLEAN,
     bulk : Seq(Packet), rdma : Seq(Packet), queue : Seq(Packet),
     window : SUBSET Packet, inflight : Nat,
     holds : SUBSET Class, expiry : SUBSET Class,
     retries : UNION {[S -> Nat] : S \in SUBSET Packet},
     pacer : SUBSET (Packet \X Nat), wire : Seq(Packet), lost : SUBSET Packet]

\* What waits for the window is the packets given last, in order.
Waiting(e, g) ==
    /\ g \in [bulk : Nat, rdma : Nat]
    /\ Len(e.bulk) <= g.bulk /\ Len(e.rdma) <= g.rdma
    /\ \A i \in 1..Len(e.bulk) : e.bulk[i] = <<"bulk", g.bulk - Len(e.bulk) + i>>
    /\ \A i \in 1..Len(e.rdma) : e.rdma[i] = <<"rdma", g.rdma - Len(e.rdma) + i>>
    /\ Given(g) \subseteq DOMAIN e.class

Slots(e, x) ==
    /\ e.window = (ToSet(e.queue) \cup DOMAIN e.retries) \ x
    /\ IsFiniteSet(e.window) /\ e.inflight = Cardinality(e.window)
    /\ e.inflight <= e.size

\* The packets on their way to the switch.
Underway(e) == ToSet(e.wire) \cup {y[1] : y \in e.pacer}

\* The packets that have been handed to the egress.
Sent(e, n) == DOMAIN e.retries \cup e.lost \cup Underway(e) \cup n

\* A packet is parked once, and only before it is sent.
Apart(e, g, n) ==
    /\ Sent(e, n) \cup ToSet(e.queue) \subseteq Taken(e, g)
    /\ Sent(e, n) \cap ToSet(e.queue) = {}
    /\ \A i, j \in DOMAIN e.queue : e.queue[i] = e.queue[j] => i = j

Fresh(e, p) == p \in DOMAIN e.retries /\ e.retries[p] = 0

\* Sends that are not deferred are on the wire in order.
InTurn(e) ==
    /\ e.pacer = {}
    /\ \A i, j \in DOMAIN e.wire :
          /\ Fresh(e, e.wire[i]) /\ Fresh(e, e.wire[j])
          /\ Before(e, e.wire[i], e.wire[j])
          => i < j

Ordered(e) ==
    /\ \A i, j \in DOMAIN e.queue : Before(e, e.queue[i], e.queue[j]) => i < j
    /\ e.paced \/ InTurn(e)
    /\ \A p \in ToSet(e.queue), q \in DOMAIN e.retries \cup e.lost : ~Before(e, p, q)

\* Only packets of held classes are parked.
Parked(e) == \A p \in ToSet(e.queue) : IsHeld(e, p)

Good(e, g, n, x) ==
    /\ e \in Endpoint /\ Waiting(e, g) /\ Slots(e, x) /\ x \subseteq n
    /\ Apart(e, g, n) /\ Ordered(e)

\* The packets ps may be dispatched behind all others.
Follows(e, g, n, ps) ==
    /\ ps \in Seq(Packet) /\ ToSet(ps) \subseteq Taken(e, g)
    /\ ToSet(ps) \cap (Sent(e, n) \cup ToSet(e.queue)) = {}
    /\ \A i, j \in DOMAIN ps : ps[i] = ps[j] => i = j
    /\ \A i, j \in DOMAIN ps : Before(e, ps[i], ps[j]) => i < j
    /\ \A p \in ToSet(ps), q \in DOMAIN e.retries \cup e.lost \cup ToSet(e.queue) :
          ~Before(e, p, q)

\* e and f differ in the slots, the parked packets and what was sent only.
SameRest(e, f) ==
    /\ f.size = e.size /\ f.class = e.class /\ f.bulk = e.bulk /\ f.rdma = e.rdma
    /\ f.holds = e.holds /\ f.expiry = e.expiry /\ f.paced = e.paced

\* Types of the fields.
LEMMA FieldTypes ==
    ASSUME NEW e \in Endpoint
    PROVE  /\ e.queue \in Seq(Packet) /\ e.wire \in Seq(Packet)
           /\ e.bulk \in Seq(Packet) /\ e.rdma \in Seq(Packet)
           /\ e.size \in Nat /\ e.inflight \in Nat
           /\ e.window \subseteq Packet /\ e.lost \subseteq Packet
           /\ DOMAIN e.retries \subseteq Packet
           /\ \A p \in DOMAIN e.retries : e.retries[p] \in Nat
           /\ e.retries = [p \in DOMAIN e.retries |-> e.retries[p]]
           /\ e.holds \subseteq Class /\ e.expiry \subseteq Class
           /\ e.paced \in BOOLEAN /\ e.pacer \subseteq Packet \X Nat
  BY DEF Endpoint

\* What Handed changes: the sends are under way, and on the wire in turn when
\* they are not deferred.
LEMMA HandedFields ==
    ASSUME NEW e \in Endpoint, NEW xs \in Seq(Packet \X Nat)
    PROVE  LET d  == Handed(e, xs)
               ps == [i \in DOMAIN xs |-> xs[i][1]]
           IN  /\ d \in Endpoint /\ SameRest(e, d) /\ ps \in Seq(Packet)
               /\ d.window = e.window /\ d.inflight = e.inflight /\ d.lost = e.lost
               /\ d.queue = e.queue /\ d.retries = e.retries
               /\ Underway(d) = Underway(e) \cup ToSet(ps)
               /\ ~e.paced => d.pacer = e.pacer /\ d.wire = e.wire \o ps
<1> DEFINE d  == Handed(e, xs)
           ps == [i \in DOMAIN xs |-> xs[i][1]]
<1>1. /\ DOMAIN xs = 1..Len(xs) /\ Len(xs) \in Nat
      /\ \A i \in DOMAIN xs : xs[i] \in Packet \X Nat
  OBVIOUS
<1>2. \A i \in DOMAIN xs : xs[i][1] \in Packet
  BY <1>1
<1>3. ps \in Seq(Packet) /\ DOMAIN ps = DOMAIN xs /\ \A i \in DOMAIN xs : ps[i] = xs[i][1]
  BY <1>1, <1>2
<1>4. ToSet(ps) = {y[1] : y \in ToSet(xs)} /\ ToSet(xs) \subseteq Packet \X Nat
  BY <1>1, <1>3 DEF ToSet
<1>5. CASE e.paced
  <2> DEFINE y == e.pacer \cup ToSet(xs)
  <2>1. d = [e EXCEPT !.pacer = y]
    BY <1>5 DEF Handed
  <2>2. y \in SUBSET (Packet \X Nat)
    BY <1>4, FieldTypes
  <2>3. {z[1] : z \in y} = {z[1] : z \in e.pacer} \cup ToSet(ps)
    BY <1>4
  <2> HIDE DEF y, d, ps
  <2>4. /\ d \in Endpoint /\ SameRest(e, d) /\ d.pacer = y /\ d.wire = e.wire
        /\ d.window = e.window /\ d.inflight = e.inflight /\ d.lost = e.lost
        /\ d.queue = e.queue /\ d.retries = e.retries
    BY <2>1, <2>2 DEF Endpoint, SameRest
  <2> QED
    BY <1>3, <1>5, <2>3, <2>4 DEF Underway, d, ps
<1>6. CASE ~e.paced
  <2> DEFINE w == e.wire \o ps
  <2>1. d = [e EXCEPT !.wire = w]
    BY <1>6 DEF Handed
  <2> HIDE DEF d, ps
  <2>0. e.wire \in Seq(Packet) /\ ps \in Seq(Packet)
    BY <1>3, FieldTypes
  <2>2. w \in Seq(Packet) /\ ToSet(w) = ToSet(e.wire) \cup ToSet(ps)
    BY <2>0, ConcatHas
  <2> HIDE DEF w
  <2>3. /\ d \in Endpoint /\ SameRest(e, d) /\ d.pacer = e.pacer /\ d.wire = w
        /\ d.window = e.window /\ d.inflight = e.inflight /\ d.lost = e.lost
        /\ d.queue = e.queue /\ d.retries = e.retries
    BY <2>1, <2>2 DEF Endpoint, SameRest
  <2> QED
    BY <1>3, <2>2, <2>3 DEF Underway, d, ps, w
<1> QED
  BY <1>5, <1>6

\* What Dispatched changes.
LEMMA DispatchedFields ==
    ASSUME NEW e \in Endpoint, NEW ps \in Seq(Packet)
    PROVE  LET held == {i \in DOMAIN ps : IsHeld(e, ps[i])}
               out  == Picked(ps, DOMAIN ps \ held)
               kept == Picked(ps, held)
               d    == Dispatched(e, ps)
           IN  /\ d \in Endpoint /\ SameRest(e, d)
               /\ d.window = e.window /\ d.inflight = e.inflight /\ d.lost = e.lost
               /\ out \in Seq(Packet) /\ kept \in Seq(Packet)
               /\ Underway(d) = Underway(e) \cup ToSet(out) /\ d.queue = e.queue \o kept
               /\ ~e.paced => d.pacer = e.pacer /\ d.wire = e.wire \o out
               /\ DOMAIN d.retries = DOMAIN e.retries \cup ToSet(out)
               /\ \A p \in DOMAIN d.retries :
                     d.retries[p] = IF p \in DOMAIN e.retries THEN e.retries[p] ELSE 0
<1> DEFINE held == {i \in DOMAIN ps : IsHeld(e, ps[i])}
           out  == Picked(ps, DOMAIN ps \ held)
           kept == Picked(ps, held)
           d    == Dispatched(e, ps)
           tries == [p \in DOMAIN e.retries \cup ToSet(out) |->
                       IF p \in DOMAIN e.retries THEN e.retries[p] ELSE 0]
           xs   == [i \in DOMAIN out |-> <<out[i], 0>>]
           f    == [e EXCEPT !.retries = tries]
           h    == Handed(f, xs)
<1>1. held \in SUBSET DOMAIN ps /\ DOMAIN ps \ held \in SUBSET DOMAIN ps
  OBVIOUS
<1>2. d = [h EXCEPT !.queue = @ \o kept]
  BY DEF Dispatched, Transmitted
<1> HIDE DEF held
<1>3. out \in Seq(Packet) /\ kept \in Seq(Packet)
  BY <1>1, PickedIs
<1>4. ToSet(out) \subseteq Packet
  BY <1>3 DEF ToSet
<1> HIDE DEF out, kept, d
<1>5. /\ xs \in Seq(Packet \X Nat) /\ DOMAIN xs = DOMAIN out
      /\ [i \in DOMAIN xs |-> xs[i][1]] = out
  <2>1. /\ DOMAIN out = 1..Len(out) /\ Len(out) \in Nat
        /\ \A i \in DOMAIN out : out[i] \in Packet
        /\ out = [i \in DOMAIN out |-> out[i]]
    BY <1>3
  <2>2. DOMAIN xs = DOMAIN out /\ \A i \in DOMAIN xs : xs[i] = <<out[i], 0>>
    OBVIOUS
  <2>3. xs \in [1..Len(out) -> Packet \X Nat]
    BY <2>1
  <2>4. xs \in Seq(Packet \X Nat)
    BY <2>1, <2>3
  <2> HIDE DEF xs
  <2>5. [i \in DOMAIN xs |-> xs[i][1]] = [i \in DOMAIN out |-> out[i]]
    BY <2>2
  <2> QED
    BY <2>1, <2>2, <2>4, <2>5
<1>6. /\ DOMAIN tries = DOMAIN e.retries \cup ToSet(out)
      /\ DOMAIN tries \in SUBSET Packet
      /\ tries \in [DOMAIN tries -> Nat]
  BY <1>4, FieldTypes
<1>7. tries \in UNION {[S -> Nat] : S \in SUBSET Packet}
  BY <1>6
<1>8. \A p \in DOMAIN tries : tries[p] = IF p \in DOMAIN e.retries THEN e.retries[p] ELSE 0
  OBVIOUS
<1> HIDE DEF tries, xs
<1>9. /\ f \in Endpoint /\ f.retries = tries /\ SameRest(e, f)
      /\ f.window = e.window /\ f.inflight = e.inflight /\ f.lost = e.lost
      /\ f.queue = e.queue /\ f.pacer = e.pacer /\ f.wire = e.wire
  BY <1>7 DEF Endpoint, SameRest
<1> HIDE DEF f
<1>10. /\ h \in Endpoint /\ SameRest(f, h)
       /\ h.window = f.window /\ h.inflight = f.inflight /\ h.lost = f.lost
       /\ h.queue = f.queue /\ h.retries = f.retries
       /\ Underway(h) = Underway(f) \cup ToSet(out)
       /\ ~f.paced => h.pacer = f.pacer /\ h.wire = f.wire \o out
  BY <1>5, <1>9, HandedFields
<1> HIDE DEF h
<1>11. h.queue \o kept \in Seq(Packet)
  BY <1>3, <1>10, FieldTypes, ConcatHas
<1>12. /\ d \in Endpoint /\ SameRest(h, d) /\ d.queue = h.queue \o kept
       /\ d.window = h.window /\ d.inflight = h.inflight /\ d.lost = h.lost
       /\ d.retries = h.retries /\ d.wire = h.wire /\ d.pacer = h.pacer
  BY <1>2, <1>10, <1>11 DEF Endpoint, SameRest
<1>13. SameRest(e, d) /\ f.paced = e.paced /\ Underway(f) = Underway(e)
       /\ Underway(d) = Underway(h)
  BY <1>9, <1>10, <1>12 DEF SameRest, Underway
<1>14. /\ d.window = e.window /\ d.inflight = e.inflight /\ d.lost = e.lost
       /\ Underway(d) = Underway(e) \cup ToSet(out) /\ d.queue = e.queue \o kept
       /\ ~e.paced => d.pacer = e.pacer /\ d.wire = e.wire \o out
  BY <1>9, <1>10, <1>12, <1>13
<1>15. /\ DOMAIN d.retries = DOMAIN e.retries \cup ToSet(out)
       /\ \A p \in DOMAIN d.retries :
            d.retries[p] = IF p \in DOMAIN e.retries THEN e.retries[p] ELSE 0
  <2>1. d.retries = tries
    BY <1>9, <1>10, <1>12
  <2> QED
    BY <1>6, <1>8, <2>1
<1> QED
  BY <1>3, <1>12, <1>13, <1>14, <1>15 DEF held, out, kept, d

\* A packet does not precede itself.
LEMMA BeforeStrict ==
    ASSUME NEW e, NEW p \in Packet PROVE ~Before(e, p, p)
<1>1. p[2] \in Nat
  BY FabricAssumption DEF Packet
<1> QED
  BY <1>1 DEF Before

\* Picking positions keeps a sequence without repetitions, and its order.
LEMMA PickedKeeps ==
    ASSUME NEW e, NEW ps \in Seq(Packet), NEW at \in SUBSET DOMAIN ps,
           \A i, j \in DOMAIN ps : ps[i] = ps[j] => i = j,
           \A i, j \in DOMAIN ps : Before(e, ps[i], ps[j]) => i < j
    PROVE  LET r == Picked(ps, at)
           IN  /\ \A i, j \in DOMAIN r : r[i] = r[j] => i = j
               /\ \A i, j \in DOMAIN r : Before(e, r[i], r[j]) => i < j
<1> DEFINE r == Picked(ps, at)
<1>1. /\ r \in Seq(Packet)
      /\ \A i, j \in DOMAIN r :
           i < j => \E k, n \in at : k < n /\ r[i] = ps[k] /\ r[j] = ps[n]
  BY PickedIs
<1> HIDE DEF r
<1>2. /\ \A i \in DOMAIN r : i \in Int /\ r[i] \in Packet
      /\ \A k \in at : k \in Int /\ k \in DOMAIN ps
  BY <1>1
<1>3. ASSUME NEW i \in DOMAIN r, NEW j \in DOMAIN r, i < j
      PROVE  r[i] # r[j] /\ ~Before(e, r[j], r[i])
  <2>1. PICK k \in at, n \in at : k < n /\ r[i] = ps[k] /\ r[j] = ps[n]
    BY <1>1, <1>3
  <2>2. k # n /\ ~(n < k)
    BY <1>2, <2>1
  <2> QED
    BY <1>2, <2>1, <2>2
<1>4. ASSUME NEW i \in DOMAIN r, NEW j \in DOMAIN r, r[i] = r[j] PROVE i = j
  <2>1. ~(i < j) /\ ~(j < i)
    BY <1>3, <1>4
  <2> QED
    BY <1>2, <2>1
<1>5. ASSUME NEW i \in DOMAIN r, NEW j \in DOMAIN r, Before(e, r[i], r[j]) PROVE i < j
  <2>1. ~(j < i)
    BY <1>3, <1>5
  <2>2. i # j
    BY <1>2, <1>5, BeforeStrict
  <2> QED
    BY <1>2, <2>1, <2>2
<1> QED
  BY <1>4, <1>5 DEF r

\* Packets that may be dispatched behind all others are parked or sent without
\* harm to the slots, the order or the separation of what is parked and sent.
LEMMA DispatchedKeeps ==
    ASSUME NEW e \in Endpoint, NEW g, NEW n, NEW x, NEW ps,
           Waiting(e, g), x \subseteq n, Apart(e, g, n), Ordered(e), Parked(e),
           Follows(e, g, n, ps),
           e.window = (ToSet(e.queue) \cup ToSet(ps) \cup DOMAIN e.retries) \ x,
           IsFiniteSet(e.window), e.inflight = Cardinality(e.window),
           e.inflight <= e.size
    PROVE  /\ Good(Dispatched(e, ps), g, n, x) /\ Parked(Dispatched(e, ps))
           /\ SameRest(e, Dispatched(e, ps))
<1> DEFINE held == {i \in DOMAIN ps : IsHeld(e, ps[i])}
           go   == DOMAIN ps \ held
           out  == Picked(ps, go)
           kept == Picked(ps, held)
           d    == Dispatched(e, ps)
<1>1. ps \in Seq(Packet) /\ held \in SUBSET DOMAIN ps /\ go \in SUBSET DOMAIN ps
  BY DEF Follows
<1>2. /\ d \in Endpoint /\ SameRest(e, d)
      /\ d.window = e.window /\ d.inflight = e.inflight /\ d.lost = e.lost
      /\ out \in Seq(Packet) /\ kept \in Seq(Packet)
      /\ Underway(d) = Underway(e) \cup ToSet(out) /\ d.queue = e.queue \o kept
      /\ ~e.paced => d.pacer = e.pacer /\ d.wire = e.wire \o out
      /\ DOMAIN d.retries = DOMAIN e.retries \cup ToSet(out)
      /\ \A p \in DOMAIN d.retries :
            d.retries[p] = IF p \in DOMAIN e.retries THEN e.retries[p] ELSE 0
  BY <1>1, DispatchedFields
<1>3. ToSet(out) = {ps[i] : i \in go} /\ ToSet(kept) = {ps[i] : i \in held}
  BY <1>1, PickedIs
<1>4. /\ ToSet(out) \cup ToSet(kept) = ToSet(ps)
      /\ ToSet(out) \cap ToSet(kept) = {}
      /\ \A p \in ToSet(out) : ~IsHeld(e, p)
      /\ \A p \in ToSet(kept) : IsHeld(e, p)
  BY <1>3 DEF ToSet
<1>5. /\ \A i, j \in DOMAIN kept : kept[i] = kept[j] => i = j
      /\ \A i, j \in DOMAIN kept : Before(e, kept[i], kept[j]) => i < j
      /\ \A i, j \in DOMAIN out : Before(e, out[i], out[j]) => i < j
  <2>1. /\ \A i, j \in DOMAIN ps : ps[i] = ps[j] => i = j
        /\ \A i, j \in DOMAIN ps : Before(e, ps[i], ps[j]) => i < j
    BY DEF Follows
  <2> HIDE DEF held, go
  <2>2. /\ \A i, j \in DOMAIN kept : kept[i] = kept[j] => i = j
        /\ \A i, j \in DOMAIN kept : Before(e, kept[i], kept[j]) => i < j
    BY <1>1, <2>1, PickedKeeps
  <2>3. \A i, j \in DOMAIN out : Before(e, out[i], out[j]) => i < j
    BY <1>1, <2>1, PickedKeeps
  <2> QED
    BY <2>2, <2>3
<1> HIDE DEF held, go, out, kept, d
<1>6. ToSet(d.queue) = ToSet(e.queue) \cup ToSet(kept)
  <2>1. e.queue \in Seq(Packet)
    BY FieldTypes
  <2> QED
    BY <1>2, <2>1, ConcatHas
<1>7. /\ Len(e.queue) \in Nat /\ Len(kept) \in Nat
      /\ DOMAIN d.queue = 1..(Len(e.queue) + Len(kept))
      /\ DOMAIN e.queue = 1..Len(e.queue) /\ DOMAIN kept = 1..Len(kept)
      /\ \A i \in DOMAIN d.queue :
           d.queue[i] = IF i <= Len(e.queue) THEN e.queue[i] ELSE kept[i - Len(e.queue)]
  <2>1. e.queue \in Seq(Packet)
    BY FieldTypes
  <2> QED
    BY <1>2, <2>1, ConcatHas
<1>8. ASSUME ~e.paced
      PROVE
      /\ Len(e.wire) \in Nat /\ Len(out) \in Nat
      /\ DOMAIN d.wire = 1..(Len(e.wire) + Len(out))
      /\ DOMAIN e.wire = 1..Len(e.wire) /\ DOMAIN out = 1..Len(out)
      /\ \A i \in DOMAIN d.wire :
           d.wire[i] = IF i <= Len(e.wire) THEN e.wire[i] ELSE out[i - Len(e.wire)]
  <2>1. e.wire \in Seq(Packet)
    BY FieldTypes
  <2>2. d.wire = e.wire \o out /\ out \in Seq(Packet)
    BY <1>2, <1>8
  <2>3. /\ Len(e.wire) \in Nat /\ Len(out) \in Nat
        /\ DOMAIN e.wire = 1..Len(e.wire) /\ DOMAIN out = 1..Len(out)
    BY <2>1, <2>2
  <2>4. /\ e.wire \o out \in Seq(Packet) /\ Len(e.wire \o out) = Len(e.wire) + Len(out)
        /\ \A i \in 1..(Len(e.wire) + Len(out)) :
             (e.wire \o out)[i] = IF i <= Len(e.wire) THEN e.wire[i] ELSE out[i - Len(e.wire)]
    BY <2>1, <2>2, ConcatHas
  <2>5. DOMAIN d.wire = 1..(Len(e.wire) + Len(out))
    BY <2>2, <2>4
  <2> QED
    BY <2>2, <2>3, <2>4, <2>5
<1>9. Taken(d, g) = Taken(e, g) /\ \A p, q : Before(d, p, q) <=> Before(e, p, q)
  BY <1>2 DEF Taken, Before, SameRest
<1>10. Waiting(d, g)
  BY <1>2 DEF Waiting, SameRest
<1>11. Slots(d, x)
  <2>1. d.window = (ToSet(d.queue) \cup DOMAIN d.retries) \ x
    BY <1>2, <1>4, <1>6
  <2> QED
    BY <1>2, <2>1 DEF Slots, SameRest
<1>12. Apart(d, g, n)
  <2>1. Sent(d, n) = Sent(e, n) \cup ToSet(out)
    BY <1>2, <1>6 DEF Sent
  <2>2. Sent(d, n) \cup ToSet(d.queue) \subseteq Taken(d, g)
    BY <1>4, <1>6, <1>9, <2>1 DEF Apart, Follows
  <2>3. Sent(d, n) \cap ToSet(d.queue) = {}
    BY <1>4, <1>6, <2>1 DEF Apart, Follows
  <2>4. ASSUME NEW i \in DOMAIN d.queue, NEW j \in DOMAIN d.queue, d.queue[i] = d.queue[j]
        PROVE  i = j
    <3>1. ToSet(e.queue) \cap ToSet(kept) = {}
      BY <1>4 DEF Follows
    <3>2. CASE i <= Len(e.queue) /\ j <= Len(e.queue)
      BY <1>7, <2>4, <3>2 DEF Apart
    <3>3. CASE ~(i <= Len(e.queue)) /\ ~(j <= Len(e.queue))
      <4>1. i - Len(e.queue) \in DOMAIN kept /\ j - Len(e.queue) \in DOMAIN kept
        BY <1>7, <3>3
      <4>2. i - Len(e.queue) = j - Len(e.queue)
        BY <1>5, <1>7, <2>4, <3>3, <4>1
      <4> QED
        BY <1>7, <4>2
    <3>4. CASE i <= Len(e.queue) /\ ~(j <= Len(e.queue))
      <4>1. i \in DOMAIN e.queue /\ j - Len(e.queue) \in DOMAIN kept
        BY <1>7, <3>4
      <4> QED
        BY <1>7, <2>4, <3>1, <3>4, <4>1 DEF ToSet
    <3>5. CASE ~(i <= Len(e.queue)) /\ j <= Len(e.queue)
      <4>1. j \in DOMAIN e.queue /\ i - Len(e.queue) \in DOMAIN kept
        BY <1>7, <3>5
      <4> QED
        BY <1>7, <2>4, <3>1, <3>5, <4>1 DEF ToSet
    <3> QED
      BY <3>2, <3>3, <3>4, <3>5
  <2> QED
    BY <2>2, <2>3, <2>4 DEF Apart
<1>13. ASSUME NEW i \in DOMAIN d.queue, NEW j \in DOMAIN d.queue,
              Before(d, d.queue[i], d.queue[j])
       PROVE  i < j
  <2>1. Before(e, d.queue[i], d.queue[j])
    BY <1>9, <1>13
  <2>2. CASE i <= Len(e.queue) /\ j <= Len(e.queue)
    BY <1>7, <2>1, <2>2 DEF Ordered, InTurn
  <2>3. CASE ~(i <= Len(e.queue)) /\ ~(j <= Len(e.queue))
    <3>1. i - Len(e.queue) \in DOMAIN kept /\ j - Len(e.queue) \in DOMAIN kept
      BY <1>7, <2>3
    <3>2. i - Len(e.queue) < j - Len(e.queue)
      BY <1>5, <1>7, <2>1, <2>3, <3>1
    <3> QED
      BY <1>7, <3>2
  <2>4. CASE i <= Len(e.queue) /\ ~(j <= Len(e.queue))
    BY <1>7, <2>4
  <2>5. CASE ~(i <= Len(e.queue)) /\ j <= Len(e.queue)
    <3>1. j \in DOMAIN e.queue /\ i - Len(e.queue) \in DOMAIN kept
      BY <1>7, <2>5
    <3>2. d.queue[i] \in ToSet(ps) /\ d.queue[j] \in ToSet(e.queue)
      BY <1>4, <1>7, <2>5, <3>1 DEF ToSet
    <3> QED
      BY <2>1, <3>2 DEF Follows
  <2> QED
    BY <2>2, <2>3, <2>4, <2>5
<1>14. ASSUME ~e.paced, NEW i \in DOMAIN d.wire, NEW j \in DOMAIN d.wire,
              Fresh(d, d.wire[i]), Fresh(d, d.wire[j]), Before(d, d.wire[i], d.wire[j])
       PROVE  i < j
  <2>1. Before(e, d.wire[i], d.wire[j])
    BY <1>9, <1>14
  <2>0. ToSet(out) \cap ToSet(e.wire) = {} /\ ToSet(out) \cap DOMAIN e.retries = {}
    BY <1>4 DEF Follows, Sent, Underway
  <2>2. CASE i <= Len(e.wire) /\ j <= Len(e.wire)
    <3>1. /\ d.wire[i] = e.wire[i] /\ d.wire[j] = e.wire[j]
          /\ i \in DOMAIN e.wire /\ j \in DOMAIN e.wire
      BY <1>8, <1>14, <2>2
    <3>2. e.wire[i] \notin ToSet(out) /\ e.wire[j] \notin ToSet(out)
      BY <2>0, <3>1 DEF ToSet
    <3>3. Fresh(e, e.wire[i]) /\ Fresh(e, e.wire[j])
      BY <1>2, <1>14, <3>1, <3>2 DEF Fresh
    <3> QED
      BY <1>14, <2>1, <3>1, <3>3 DEF Ordered, InTurn
  <2>3. CASE ~(i <= Len(e.wire)) /\ ~(j <= Len(e.wire))
    <3>1. i - Len(e.wire) \in DOMAIN out /\ j - Len(e.wire) \in DOMAIN out
      BY <1>8, <1>14, <2>3
    <3>2. i - Len(e.wire) < j - Len(e.wire)
      BY <1>5, <1>8, <1>14, <2>1, <2>3, <3>1
    <3> QED
      BY <1>8, <1>14, <3>2
  <2>4. CASE i <= Len(e.wire) /\ ~(j <= Len(e.wire))
    BY <1>8, <1>14, <2>4
  <2>5. CASE ~(i <= Len(e.wire)) /\ j <= Len(e.wire)
    <3>1. j \in DOMAIN e.wire /\ i - Len(e.wire) \in DOMAIN out
      BY <1>8, <1>14, <2>5
    <3>2. d.wire[i] \in ToSet(ps) /\ d.wire[j] = e.wire[j] /\ e.wire[j] \in ToSet(e.wire)
      BY <1>4, <1>8, <1>14, <2>5, <3>1 DEF ToSet
    <3>3. e.wire[j] \in DOMAIN e.retries
      BY <1>2, <1>14, <2>0, <3>2 DEF Fresh
    <3> QED
      BY <2>1, <3>2, <3>3 DEF Follows
  <2> QED
    BY <2>2, <2>3, <2>4, <2>5
<1>15. ASSUME NEW p \in ToSet(d.queue), NEW q \in DOMAIN d.retries \cup d.lost
       PROVE  ~Before(d, p, q)
  <2>1. CASE q \in DOMAIN e.retries \cup e.lost
    BY <1>4, <1>6, <1>9, <2>1 DEF Ordered, InTurn, Follows
  <2>2. CASE q \in ToSet(out)
    <3>1. IsHeld(e, p) /\ ~IsHeld(e, q)
      BY <1>4, <1>6, <2>2 DEF Parked
    <3>2. e.class[p] # e.class[q]
      BY <3>1 DEF IsHeld
    <3> QED
      BY <1>9, <3>2 DEF Before
  <2> QED
    BY <1>2, <2>1, <2>2
<1>16. Ordered(d)
  <2>1. e.paced \/ d.pacer = {}
    BY <1>2 DEF Ordered, InTurn
  <2>2. d.paced = e.paced
    BY <1>2 DEF SameRest
  <2>3. d.paced \/ InTurn(d)
    BY <1>14, <2>1, <2>2 DEF InTurn
  <2> QED
    BY <1>13, <1>15, <2>3 DEF Ordered, InTurn
<1>17. Parked(d)
  BY <1>2, <1>4, <1>6 DEF Parked, IsHeld, SameRest
<1> QED
  BY <1>2, <1>10, <1>11, <1>12, <1>16, <1>17 DEF Good, d

\* The empty sequence has no elements.
LEMMA EmptyHasNothing == ToSet(<<>>) = {}
  BY DEF ToSet

\* TrySendQueuedPackets leaves only packets of held classes parked.
LEMMA DrainKeeps ==
    ASSUME NEW e, NEW g, NEW n, NEW x, Good(e, g, n, x)
    PROVE  LET f == TrySendQueuedPackets(e)
           IN  Good(f, g, n, x) /\ Parked(f) /\ SameRest(e, f)
<1> DEFINE f == [e EXCEPT !.queue = <<>>]
<1>1. e \in Endpoint /\ f \in Endpoint
  <2>1. e \in Endpoint /\ <<>> \in Seq(Packet)
    BY DEF Good
  <2> QED
    BY <2>1 DEF Endpoint
<1>2. /\ SameRest(e, f) /\ f.queue = <<>> /\ f.window = e.window
      /\ f.inflight = e.inflight /\ f.retries = e.retries
      /\ f.wire = e.wire /\ f.pacer = e.pacer /\ f.lost = e.lost
  BY <1>1 DEF Endpoint, SameRest
<1>3. TrySendQueuedPackets(e) = Dispatched(f, e.queue)
  BY DEF TrySendQueuedPackets
<1> HIDE DEF f
<1>4. /\ Taken(f, g) = Taken(e, g) /\ Sent(f, n) = Sent(e, n)
      /\ \A p, q : Before(f, p, q) <=> Before(e, p, q)
      /\ ToSet(f.queue) = {} /\ DOMAIN f.queue = {}
  BY <1>2, EmptyHasNothing DEF Taken, Sent, Underway, Before, SameRest
<1>5. Waiting(f, g)
  BY <1>2 DEF Waiting, SameRest, Good
<1>6. Apart(f, g, n)
  BY <1>4 DEF Apart, Good
<1>7. Ordered(f)
  BY <1>2, <1>4 DEF Ordered, InTurn, Good, Fresh, SameRest
<1>8. Parked(f)
  BY <1>4 DEF Parked
<1>9. Follows(f, g, n, e.queue)
  <2>1. e.queue \in Seq(Packet)
    BY <1>1, FieldTypes
  <2>2. /\ ToSet(e.queue) \subseteq Taken(f, g)
        /\ ToSet(e.queue) \cap (Sent(f, n) \cup ToSet(f.queue)) = {}
        /\ \A i, j \in DOMAIN e.queue : e.queue[i] = e.queue[j] => i = j
    BY <1>4 DEF Good, Apart
  <2>3. /\ \A i, j \in DOMAIN e.queue : Before(f, e.queue[i], e.queue[j]) => i < j
        /\ \A p \in ToSet(e.queue), q \in DOMAIN f.retries \cup f.lost \cup ToSet(f.queue) :
             ~Before(f, p, q)
    BY <1>2, <1>4 DEF Good, Ordered, InTurn
  <2> QED
    BY <2>1, <2>2, <2>3 DEF Follows
<1>10. /\ f.window = (ToSet(f.queue) \cup ToSet(e.queue) \cup DOMAIN f.retries) \ x
       /\ IsFiniteSet(f.window) /\ f.inflight = Cardinality(f.window)
       /\ f.inflight <= f.size /\ x \subseteq n
  BY <1>2, <1>4 DEF Good, Slots, SameRest
<1>11. /\ Good(Dispatched(f, e.queue), g, n, x) /\ Parked(Dispatched(f, e.queue))
       /\ SameRest(f, Dispatched(f, e.queue))
  BY <1>1, <1>5, <1>6, <1>7, <1>8, <1>9, <1>10, DispatchedKeeps
<1> QED
  BY <1>2, <1>3, <1>11 DEF SameRest

\* Cardinality of a set that grows by the elements of a sequence without
\* repetitions.
LEMMA RunCounts ==
    ASSUME NEW S, IsFiniteSet(S), NEW T, NEW ps \in Seq(T),
           \A i, j \in DOMAIN ps : ps[i] = ps[j] => i = j,
           S \cap ToSet(ps) = {}
    PROVE  /\ IsFiniteSet(S \cup ToSet(ps))
           /\ Cardinality(S \cup ToSet(ps)) = Cardinality(S) + Len(ps)
<1>1. Len(ps) \in Nat /\ DOMAIN ps = 1..Len(ps)
  OBVIOUS
<1>2. IsFiniteSet(1..Len(ps)) /\ Cardinality(1..Len(ps)) = Len(ps)
  BY <1>1, FS_Interval
<1>3. ps \in Bijection(1..Len(ps), ToSet(ps))
  BY <1>1 DEF Bijection, Injection, Surjection, IsInjective, ToSet
<1>4. ExistsBijection(1..Len(ps), ToSet(ps))
  BY <1>3 DEF ExistsBijection
<1>5. IsFiniteSet(ToSet(ps)) /\ Cardinality(ToSet(ps)) = Len(ps)
  BY <1>2, <1>4, FS_Bijection
<1>6. IsFiniteSet(S \cup ToSet(ps))
  BY <1>5, FS_Union
<1>7. Cardinality(S \cup ToSet(ps))
        = Cardinality(S) + Cardinality(ToSet(ps)) - Cardinality(S \cap ToSet(ps))
  BY <1>5, FS_Union
<1>8. Cardinality(S \cap ToSet(ps)) = 0 /\ Cardinality(S) \in Nat
  BY FS_EmptySet, FS_CardinalityType
<1> QED
  BY <1>1, <1>5, <1>6, <1>7, <1>8

\* Packets that may be dispatched take a slot each, if there is room.
LEMMA WindowedKeeps ==
    ASSUME NEW e, NEW g, NEW n, NEW x, NEW ps,
           Good(e, g, n, x), Parked(e), Follows(e, g, n, ps),
           Len(ps) <= e.size - e.inflight
    PROVE  LET f == Windowed(e, ps)
           IN  Good(f, g, n, x) /\ Parked(f) /\ SameRest(e, f)
<1> DEFINE f == [e EXCEPT !.window = @ \cup ToSet(ps), !.inflight = @ + Len(ps)]
<1>1. /\ e \in Endpoint /\ ps \in Seq(Packet) /\ ToSet(ps) \subseteq Packet
      /\ Len(ps) \in Nat
  BY DEF Good, Follows, ToSet
<1>2. f \in Endpoint
  <2>0. e.window \subseteq Packet /\ e.inflight \in Nat
    BY <1>1, FieldTypes
  <2>1. e.window \cup ToSet(ps) \in SUBSET Packet /\ e.inflight + Len(ps) \in Nat
    BY <1>1, <2>0
  <2> QED
    BY <1>1, <2>1 DEF Endpoint
<1>3. /\ SameRest(e, f) /\ f.queue = e.queue /\ f.window = e.window \cup ToSet(ps)
      /\ f.inflight = e.inflight + Len(ps) /\ f.retries = e.retries
      /\ f.wire = e.wire /\ f.pacer = e.pacer /\ f.lost = e.lost
  BY <1>1 DEF Endpoint, SameRest
<1>4. Windowed(e, ps) = Dispatched(f, ps)
  BY DEF Windowed
<1> HIDE DEF f
<1>5. /\ Taken(f, g) = Taken(e, g) /\ Sent(f, n) = Sent(e, n)
      /\ \A p, q : Before(f, p, q) <=> Before(e, p, q)
  BY <1>3 DEF Taken, Sent, Underway, Before, SameRest
<1>6. Waiting(f, g)
  BY <1>3 DEF Waiting, SameRest, Good
<1>7. Apart(f, g, n)
  BY <1>3, <1>5 DEF Apart, Good
<1>8. Ordered(f)
  BY <1>3, <1>5 DEF Ordered, InTurn, Good, Fresh, SameRest
<1>9. Parked(f)
  BY <1>3 DEF Parked, IsHeld, SameRest
<1>10. Follows(f, g, n, ps)
  BY <1>3, <1>5 DEF Follows
<1>11. e.window \cap ToSet(ps) = {} /\ ToSet(ps) \cap x = {}
  BY DEF Good, Slots, Follows, Sent, Underway
<1>12. /\ IsFiniteSet(f.window)
       /\ Cardinality(f.window) = Cardinality(e.window) + Len(ps)
  BY <1>1, <1>3, <1>11, RunCounts DEF Good, Slots, Follows
<1>13. /\ f.window = (ToSet(f.queue) \cup ToSet(ps) \cup DOMAIN f.retries) \ x
       /\ f.inflight = Cardinality(f.window)
       /\ x \subseteq n
  BY <1>3, <1>11, <1>12 DEF Good, Slots
<1>14. f.inflight <= f.size
  <2>1. e.size \in Nat /\ e.inflight \in Nat
    BY <1>1, FieldTypes
  <2>2. f.size = e.size
    BY <1>3 DEF SameRest
  <2> QED
    BY <1>1, <1>3, <2>1, <2>2
<1>15. /\ Good(Dispatched(f, ps), g, n, x) /\ Parked(Dispatched(f, ps))
       /\ SameRest(f, Dispatched(f, ps))
  BY <1>2, <1>6, <1>7, <1>8, <1>9, <1>10, <1>12, <1>13, <1>14, DispatchedKeeps
<1> QED
  BY <1>3, <1>4, <1>15 DEF SameRest

\* The first k bulk fragments may be dispatched.
LEMMA BulkTakes ==
    ASSUME NEW e, NEW g, NEW n, NEW x, Good(e, g, n, x), Parked(e),
           NEW k \in 0..Len(e.bulk), k <= e.size - e.inflight
    PROVE  LET f == Windowed([e EXCEPT !.bulk = SubSeq(@, k + 1, Len(@))],
                             SubSeq(e.bulk, 1, k))
           IN  /\ Good(f, g, n, x) /\ Parked(f)
               /\ f.size = e.size /\ f.class = e.class
               /\ f.holds = e.holds /\ f.expiry = e.expiry
<1> DEFINE b == SubSeq(e.bulk, k + 1, Len(e.bulk))
           f == [e EXCEPT !.bulk = b]
           ps == SubSeq(e.bulk, 1, k)
<1>1. e \in Endpoint /\ e.bulk \in Seq(Packet) /\ Len(e.bulk) \in Nat /\ k \in Nat
  <2>1. e \in Endpoint
    BY DEF Good
  <2>2. e.bulk \in Seq(Packet)
    BY <2>1, FieldTypes
  <2> QED
    BY <2>1, <2>2
<1>2. /\ b \in Seq(Packet) /\ ps \in Seq(Packet)
      /\ Len(b) = Len(e.bulk) - k /\ Len(ps) = k
      /\ \A i \in 1..(Len(e.bulk) - k) : b[i] = e.bulk[k + i]
      /\ \A i \in 1..k : ps[i] = e.bulk[i]
  BY <1>1
<1> HIDE DEF b, ps
<1>3. f \in Endpoint
  BY <1>1, <1>2 DEF Endpoint
<1>4. /\ f.bulk = b /\ f.rdma = e.rdma /\ f.size = e.size /\ f.class = e.class
      /\ f.paced = e.paced /\ f.queue = e.queue /\ f.window = e.window
      /\ f.inflight = e.inflight /\ f.retries = e.retries
      /\ f.wire = e.wire /\ f.pacer = e.pacer /\ f.lost = e.lost
      /\ f.holds = e.holds /\ f.expiry = e.expiry
  BY <1>1 DEF Endpoint
<1>5. [e EXCEPT !.bulk = SubSeq(@, k + 1, Len(@))] = f
  BY DEF b
<1> HIDE DEF f
<1>6. /\ Sent(f, n) = Sent(e, n)
      /\ \A p, q : Before(f, p, q) <=> Before(e, p, q)
  BY <1>4 DEF Sent, Underway, Before
<1> DEFINE low == g.bulk - Len(e.bulk)
<1>7. /\ g \in [bulk : Nat, rdma : Nat] /\ low \in Nat
      /\ \A i \in 1..Len(e.bulk) : e.bulk[i] = <<"bulk", low + i>>
      /\ g.bulk - Len(f.bulk) = low + k
  BY <1>1, <1>2, <1>4 DEF Good, Waiting
<1> HIDE DEF low
<1>8. Taken(e, g) = {<<"bulk", i>> : i \in 1..low}
                      \cup {<<"rdma", i>> : i \in 1..(g.rdma - Len(e.rdma))}
  BY DEF Taken, low
<1>9. Taken(f, g) = {<<"bulk", i>> : i \in 1..(low + k)}
                      \cup {<<"rdma", i>> : i \in 1..(g.rdma - Len(e.rdma))}
  BY <1>4, <1>7 DEF Taken
<1>10. /\ DOMAIN ps = 1..k /\ \A i \in 1..k : ps[i] = <<"bulk", low + i>>
       /\ \A p \in ToSet(ps) : \E i \in (low + 1)..(low + k) : p = <<"bulk", i>>
  <2>1. DOMAIN ps = 1..k
    BY <1>2
  <2>2. ASSUME NEW i \in 1..k
        PROVE  ps[i] = <<"bulk", low + i>> /\ low + i \in (low + 1)..(low + k)
    <3>1. i \in 1..Len(e.bulk) /\ low + i \in (low + 1)..(low + k)
      BY <1>1, <1>7
    <3> QED
      BY <1>2, <1>7, <3>1
  <2> QED
    BY <2>1, <2>2 DEF ToSet
<1>11. /\ Taken(e, g) \subseteq Taken(f, g) /\ ToSet(ps) \subseteq Taken(f, g)
       /\ ToSet(ps) \cap Taken(e, g) = {}
  <2>1. Taken(e, g) \subseteq Taken(f, g)
    BY <1>1, <1>7, <1>8, <1>9
  <2>2. ToSet(ps) \subseteq Taken(f, g)
    BY <1>1, <1>7, <1>9, <1>10
  <2>3. ToSet(ps) \cap Taken(e, g) = {}
    BY <1>1, <1>7, <1>8, <1>10
  <2> QED
    BY <2>1, <2>2, <2>3
<1>12. ASSUME NEW p \in ToSet(ps), NEW q \in Taken(e, g) PROVE ~Before(f, p, q)
  <2>1. PICK i \in (low + 1)..(low + k) : p = <<"bulk", i>>
    BY <1>10
  <2>2. CASE \E j \in 1..low : q = <<"bulk", j>>
    BY <1>1, <1>7, <2>1, <2>2 DEF Before
  <2>3. CASE \E j \in 1..(g.rdma - Len(e.rdma)) : q = <<"rdma", j>>
    BY <2>1, <2>3 DEF Before
  <2> QED
    BY <1>8, <2>2, <2>3
<1>13. Waiting(f, g)
  <2>1. \A i \in 1..Len(f.bulk) : f.bulk[i] = <<"bulk", g.bulk - Len(f.bulk) + i>>
    <3> SUFFICES ASSUME NEW i \in 1..(Len(e.bulk) - k)
                 PROVE  b[i] = <<"bulk", low + k + i>>
      BY <1>2, <1>4, <1>7
    <3>1. k + i \in 1..Len(e.bulk) /\ b[i] = e.bulk[k + i]
      BY <1>1, <1>2
    <3>2. e.bulk[k + i] = <<"bulk", low + (k + i)>>
      BY <1>7, <3>1
    <3>3. low + (k + i) = low + k + i
      BY <1>1, <1>7, <3>1
    <3> QED
      BY <3>1, <3>2, <3>3
  <2>2. Len(f.bulk) <= g.bulk
    BY <1>1, <1>2, <1>4 DEF Good, Waiting
  <2> QED
    BY <1>4, <1>7, <2>1, <2>2 DEF Good, Waiting
<1>14. Good(f, g, n, x)
  <2>1. Slots(f, x)
    BY <1>4 DEF Good, Slots
  <2>2. Apart(f, g, n)
    BY <1>4, <1>6, <1>11 DEF Good, Apart
  <2>3. Ordered(f)
    BY <1>4, <1>6 DEF Good, Ordered, InTurn, Fresh
  <2> QED
    BY <1>3, <1>13, <2>1, <2>2, <2>3 DEF Good
<1>15. Parked(f)
  BY <1>4 DEF Parked, IsHeld
<1>16. Follows(f, g, n, ps)
  <2>1. ToSet(ps) \cap (Sent(f, n) \cup ToSet(f.queue)) = {}
    BY <1>4, <1>6, <1>11 DEF Good, Apart
  <2>2. DOMAIN ps = 1..k /\ \A i \in 1..k : ps[i] = <<"bulk", low + i>>
    BY <1>10
  <2>3. \A i, j \in DOMAIN ps : ps[i] = ps[j] => i = j
    BY <1>1, <1>7, <2>2
  <2>4. ASSUME NEW i \in DOMAIN ps, NEW j \in DOMAIN ps, Before(f, ps[i], ps[j]) PROVE i < j
    <3>1. low + i < low + j
      BY <2>2, <2>4 DEF Before
    <3> QED
      BY <1>1, <1>7, <2>2, <3>1
  <2>5. \A p \in ToSet(ps), q \in DOMAIN f.retries \cup f.lost \cup ToSet(f.queue) :
           ~Before(f, p, q)
    BY <1>4, <1>12 DEF Good, Apart, Sent, Underway
  <2> QED
    BY <1>2, <1>11, <2>1, <2>3, <2>4, <2>5 DEF Follows
<1>17. Len(ps) <= f.size - f.inflight
  BY <1>2, <1>4
<1>18. LET h == Windowed(f, ps) IN Good(h, g, n, x) /\ Parked(h) /\ SameRest(f, h)
  BY <1>14, <1>15, <1>16, <1>17, WindowedKeeps
<1> QED
  BY <1>4, <1>5, <1>18 DEF SameRest, ps

\* The first k RDMA packets may be dispatched.
LEMMA RdmaTakes ==
    ASSUME NEW e, NEW g, NEW n, NEW x, Good(e, g, n, x), Parked(e),
           NEW k \in 0..Len(e.rdma), k <= e.size - e.inflight
    PROVE  LET f == Windowed([e EXCEPT !.rdma = SubSeq(@, k + 1, Len(@))],
                             SubSeq(e.rdma, 1, k))
           IN  /\ Good(f, g, n, x) /\ Parked(f)
               /\ f.size = e.size /\ f.class = e.class
               /\ f.holds = e.holds /\ f.expiry = e.expiry
<1> DEFINE b == SubSeq(e.rdma, k + 1, Len(e.rdma))
           f == [e EXCEPT !.rdma = b]
           ps == SubSeq(e.rdma, 1, k)
<1>1. e \in Endpoint /\ e.rdma \in Seq(Packet) /\ Len(e.rdma) \in Nat /\ k \in Nat
  <2>1. e \in Endpoint
    BY DEF Good
  <2>2. e.rdma \in Seq(Packet)
    BY <2>1, FieldTypes
  <2> QED
    BY <2>1, <2>2
<1>2. /\ b \in Seq(Packet) /\ ps \in Seq(Packet)
      /\ Len(b) = Len(e.rdma) - k /\ Len(ps) = k
      /\ \A i \in 1..(Len(e.rdma) - k) : b[i] = e.rdma[k + i]
      /\ \A i \in 1..k : ps[i] = e.rdma[i]
  BY <1>1
<1> HIDE DEF b, ps
<1>3. f \in Endpoint
  BY <1>1, <1>2 DEF Endpoint
<1>4. /\ f.rdma = b /\ f.bulk = e.bulk /\ f.size = e.size /\ f.class = e.class
      /\ f.paced = e.paced /\ f.queue = e.queue /\ f.window = e.window
      /\ f.inflight = e.inflight /\ f.retries = e.retries
      /\ f.wire = e.wire /\ f.pacer = e.pacer /\ f.lost = e.lost
      /\ f.holds = e.holds /\ f.expiry = e.expiry
  BY <1>1 DEF Endpoint
<1>5. [e EXCEPT !.rdma = SubSeq(@, k + 1, Len(@))] = f
  BY DEF b
<1> HIDE DEF f
<1>6. /\ Sent(f, n) = Sent(e, n)
      /\ \A p, q : Before(f, p, q) <=> Before(e, p, q)
  BY <1>4 DEF Sent, Underway, Before
<1> DEFINE low == g.rdma - Len(e.rdma)
<1>7. /\ g \in [bulk : Nat, rdma : Nat] /\ low \in Nat
      /\ \A i \in 1..Len(e.rdma) : e.rdma[i] = <<"rdma", low + i>>
      /\ g.rdma - Len(f.rdma) = low + k
  BY <1>1, <1>2, <1>4 DEF Good, Waiting
<1> HIDE DEF low
<1>8. Taken(e, g) = {<<"bulk", i>> : i \in 1..(g.bulk - Len(e.bulk))}
                      \cup {<<"rdma", i>> : i \in 1..low}
  BY DEF Taken, low
<1>9. Taken(f, g) = {<<"bulk", i>> : i \in 1..(g.bulk - Len(e.bulk))}
                      \cup {<<"rdma", i>> : i \in 1..(low + k)}
  BY <1>4, <1>7 DEF Taken
<1>10. /\ DOMAIN ps = 1..k /\ \A i \in 1..k : ps[i] = <<"rdma", low + i>>
       /\ \A p \in ToSet(ps) : \E i \in (low + 1)..(low + k) : p = <<"rdma", i>>
  <2>1. DOMAIN ps = 1..k
    BY <1>2
  <2>2. ASSUME NEW i \in 1..k
        PROVE  ps[i] = <<"rdma", low + i>> /\ low + i \in (low + 1)..(low + k)
    <3>1. i \in 1..Len(e.rdma) /\ low + i \in (low + 1)..(low + k)
      BY <1>1, <1>7
    <3> QED
      BY <1>2, <1>7, <3>1
  <2> QED
    BY <2>1, <2>2 DEF ToSet
<1>11. /\ Taken(e, g) \subseteq Taken(f, g) /\ ToSet(ps) \subseteq Taken(f, g)
       /\ ToSet(ps) \cap Taken(e, g) = {}
  <2>1. Taken(e, g) \subseteq Taken(f, g)
    BY <1>1, <1>7, <1>8, <1>9
  <2>2. ToSet(ps) \subseteq Taken(f, g)
    BY <1>1, <1>7, <1>9, <1>10
  <2>3. ToSet(ps) \cap Taken(e, g) = {}
    BY <1>1, <1>7, <1>8, <1>10
  <2> QED
    BY <2>1, <2>2, <2>3
<1>12. ASSUME NEW p \in ToSet(ps), NEW q \in Taken(e, g) PROVE ~Before(f, p, q)
  <2>1. PICK i \in (low + 1)..(low + k) : p = <<"rdma", i>>
    BY <1>10
  <2>2. CASE \E j \in 1..low : q = <<"rdma", j>>
    BY <1>1, <1>7, <2>1, <2>2 DEF Before
  <2>3. CASE \E j \in 1..(g.bulk - Len(e.bulk)) : q = <<"bulk", j>>
    BY <2>1, <2>3 DEF Before
  <2> QED
    BY <1>8, <2>2, <2>3
<1>13. Waiting(f, g)
  <2>1. \A i \in 1..Len(f.rdma) : f.rdma[i] = <<"rdma", g.rdma - Len(f.rdma) + i>>
    <3> SUFFICES ASSUME NEW i \in 1..(Len(e.rdma) - k)
                 PROVE  b[i] = <<"rdma", low + k + i>>
      BY <1>2, <1>4, <1>7
    <3>1. k + i \in 1..Len(e.rdma) /\ b[i] = e.rdma[k + i]
      BY <1>1, <1>2
    <3>2. e.rdma[k + i] = <<"rdma", low + (k + i)>>
      BY <1>7, <3>1
    <3>3. low + (k + i) = low + k + i
      BY <1>1, <1>7, <3>1
    <3> QED
      BY <3>1, <3>2, <3>3
  <2>2. Len(f.rdma) <= g.rdma
    BY <1>1, <1>2, <1>4 DEF Good, Waiting
  <2> QED
    BY <1>4, <1>7, <2>1, <2>2 DEF Good, Waiting
<1>14. Good(f, g, n, x)
  <2>1. Slots(f, x)
    BY <1>4 DEF Good, Slots
  <2>2. Apart(f, g, n)
    BY <1>4, <1>6, <1>11 DEF Good, Apart
  <2>3. Ordered(f)
    BY <1>4, <1>6 DEF Good, Ordered, InTurn, Fresh
  <2> QED
    BY <1>3, <1>13, <2>1, <2>2, <2>3 DEF Good
<1>15. Parked(f)
  BY <1>4 DEF Parked, IsHeld
<1>16. Follows(f, g, n, ps)
  <2>1. ToSet(ps) \cap (Sent(f, n) \cup ToSet(f.queue)) = {}
    BY <1>4, <1>6, <1>11 DEF Good, Apart
  <2>2. DOMAIN ps = 1..k /\ \A i \in 1..k : ps[i] = <<"rdma", low + i>>
    BY <1>10
  <2>3. \A i, j \in DOMAIN ps : ps[i] = ps[j] => i = j
    BY <1>1, <1>7, <2>2
  <2>4. ASSUME NEW i \in DOMAIN ps, NEW j \in DOMAIN ps, Before(f, ps[i], ps[j]) PROVE i < j
    <3>1. low + i < low + j
      BY <2>2, <2>4 DEF Before
    <3> QED
      BY <1>1, <1>7, <2>2, <3>1
  <2>5. \A p \in ToSet(ps), q \in DOMAIN f.retries \cup f.lost \cup ToSet(f.queue) :
           ~Before(f, p, q)
    BY <1>4, <1>12 DEF Good, Apart, Sent, Underway
  <2> QED
    BY <1>2, <1>11, <2>1, <2>3, <2>4, <2>5 DEF Follows
<1>17. Len(ps) <= f.size - f.inflight
  BY <1>2, <1>4
<1>18. LET h == Windowed(f, ps) IN Good(h, g, n, x) /\ Parked(h) /\ SameRest(f, h)
  BY <1>14, <1>15, <1>16, <1>17, WindowedKeeps
<1> QED
  BY <1>4, <1>5, <1>18 DEF SameRest, ps

Kept(e, f) ==
    /\ f.size = e.size /\ f.class = e.class /\ f.holds = e.holds /\ f.expiry = e.expiry

\* The smaller of two numbers.
LEMMA MinOfTwo ==
    ASSUME NEW a \in Int, NEW b \in Int
    PROVE  Min({a, b}) \in {a, b} /\ Min({a, b}) <= a /\ Min({a, b}) <= b
<1>1. \E y \in {a, b} : \A z \in {a, b} : y <= z
  <2>1. CASE a <= b
    BY <2>1
  <2>2. CASE b <= a
    BY <2>2
  <2> QED
    BY <2>1, <2>2
<1> QED
  BY <1>1 DEF Min

\* A set of numbers that is not empty has a least element.
LEMMA LeastOf ==
    ASSUME NEW T \in SUBSET Nat, T # {}
    PROVE  \E n \in T : \A k \in T : n <= k
<1> DEFINE R == {ss \in Nat \X Nat : ss[1] < ss[2]}
<1>1. IsWellFoundedOn(R, Nat)
  BY NatLessThanWellFounded, Zenon DEF OpToRel
<1>2. \A y, z \in Nat : y < z => <<y, z>> \in R
  OBVIOUS
<1> HIDE DEF R
<1>3. PICK n \in T : \A k \in T : ~(<<k, n>> \in R)
  BY <1>1, WFMin
<1>4. \A k \in T : ~(k < n)
  BY <1>2, <1>3
<1> QED
  BY <1>4

\* PumpBulkTxWindow and PumpRdmaOperationPackets keep within the window.
LEMMA PumpBulkKeeps ==
    ASSUME NEW e, NEW g, NEW n, NEW x, Good(e, g, n, x), Parked(e)
    PROVE  LET f == PumpBulkTxWindow(e)
           IN  Good(f, g, n, x) /\ Parked(f) /\ Kept(e, f)
<1> DEFINE k == BulkBatch(e)
           room == Room(e, e.bulk)
           held == {i \in 1..room : IsHeld(e, e.bulk[i])}
<1>1. e.bulk \in Seq(Packet) /\ e.size \in Nat /\ e.inflight \in Nat /\ e.inflight <= e.size
  <2>1. e \in Endpoint
    BY DEF Good
  <2> QED
    BY <2>1, FieldTypes DEF Good, Slots
<1>2. Len(e.bulk) \in Nat /\ e.size - e.inflight \in Nat
  BY <1>1
<1>3. room \in Nat /\ room <= Len(e.bulk) /\ room <= e.size - e.inflight
  <2> DEFINE a == Len(e.bulk)
             b == e.size - e.inflight
  <2>1. room = Min({a, b})
    BY DEF Room
  <2>2. a \in Nat /\ b \in Nat
    BY <1>2
  <2> HIDE DEF room, a, b
  <2>3. Min({a, b}) \in {a, b} /\ Min({a, b}) <= a /\ Min({a, b}) <= b
    BY <2>2, MinOfTwo
  <2> QED
    BY <2>1, <2>2, <2>3 DEF a, b
<1>4. k = IF held = {} THEN room ELSE Min(held)
  BY DEF BulkBatch
<1> HIDE DEF k, room
<1>5. k \in Nat /\ k <= room
  <2>1. ASSUME held # {} PROVE Min(held) \in held
    <3>1. held \in SUBSET Nat
      BY <1>3
    <3> HIDE DEF held
    <3>2. \E y \in held : \A z \in held : y <= z
      BY <2>1, <3>1, LeastOf
    <3> QED
      BY <3>2 DEF Min
  <2> QED
    BY <1>3, <1>4, <2>1
<1>6. k \in 0..Len(e.bulk) /\ k <= e.size - e.inflight
  BY <1>2, <1>3, <1>5
<1>7. PumpBulkTxWindow(e) = Windowed([e EXCEPT !.bulk = SubSeq(@, k + 1, Len(@))],
                                     SubSeq(e.bulk, 1, k))
  BY DEF PumpBulkTxWindow, k
<1> QED
  BY <1>6, <1>7, BulkTakes DEF Kept

\* PumpRdmaOperationPackets keeps an endpoint good: it takes RDMA packets as far as
\* there is room and dispatches them.
LEMMA PumpRdmaKeeps ==
    ASSUME NEW e, NEW g, NEW n, NEW x, Good(e, g, n, x), Parked(e)
    PROVE  LET f == PumpRdmaOperationPackets(e)
           IN  Good(f, g, n, x) /\ Parked(f) /\ Kept(e, f)
<1> DEFINE k == Room(e, e.rdma)
<1>1. e.rdma \in Seq(Packet) /\ e.size \in Nat /\ e.inflight \in Nat /\ e.inflight <= e.size
  <2>1. e \in Endpoint
    BY DEF Good
  <2> QED
    BY <2>1, FieldTypes DEF Good, Slots
<1>2. Len(e.rdma) \in Nat /\ e.size - e.inflight \in Nat
  BY <1>1
<1>3. k \in Nat /\ k <= Len(e.rdma) /\ k <= e.size - e.inflight
  <2> DEFINE a == Len(e.rdma)
             b == e.size - e.inflight
  <2>1. k = Min({a, b})
    BY DEF Room
  <2>2. a \in Nat /\ b \in Nat
    BY <1>2
  <2> HIDE DEF k, a, b
  <2>3. Min({a, b}) \in {a, b} /\ Min({a, b}) <= a /\ Min({a, b}) <= b
    BY <2>2, MinOfTwo
  <2> QED
    BY <2>1, <2>2, <2>3 DEF a, b
<1>4. PumpRdmaOperationPackets(e) = Windowed([e EXCEPT !.rdma = SubSeq(@, k + 1, Len(@))],
                                             SubSeq(e.rdma, 1, k))
  BY DEF PumpRdmaOperationPackets
<1> HIDE DEF k
<1>5. k \in 0..Len(e.rdma)
  BY <1>2, <1>3
<1> QED
  BY <1>3, <1>4, <1>5, RdmaTakes DEF Kept

\* Sequential composition applies the step.
LEMMA ThenApplies ==
    ASSUME NEW e
    PROVE  /\ Then(e, PumpBulkTxWindow) = PumpBulkTxWindow(e)
           /\ Then(e, PumpRdmaOperationPackets) = PumpRdmaOperationPackets(e)
           /\ Then(e, TrySendQueuedPackets) = TrySendQueuedPackets(e)
<1>1. {PumpBulkTxWindow(y) : y \in {e}} = {PumpBulkTxWindow(e)}
  OBVIOUS
<1>2. {PumpRdmaOperationPackets(y) : y \in {e}} = {PumpRdmaOperationPackets(e)}
  OBVIOUS
<1>3. {TrySendQueuedPackets(y) : y \in {e}} = {TrySendQueuedPackets(e)}
  OBVIOUS
<1>4. Then(e, PumpBulkTxWindow) = PumpBulkTxWindow(e)
  BY <1>1 DEF Then
<1>5. Then(e, PumpRdmaOperationPackets) = PumpRdmaOperationPackets(e)
  BY <1>2 DEF Then
<1>6. Then(e, TrySendQueuedPackets) = TrySendQueuedPackets(e)
  BY <1>3 DEF Then
<1> QED
  BY <1>4, <1>5, <1>6

\* The slot of a packet in the window is released and used again.
LEMMA ReleaseKeeps ==
    ASSUME NEW e \in Endpoint, NEW g, NEW n, NEW x, NEW p,
           Waiting(e, g), Apart(e, g, n), Ordered(e), Parked(e), x \subseteq n,
           p \in e.window, e.window \ {p} = (ToSet(e.queue) \cup DOMAIN e.retries) \ x,
           IsFiniteSet(e.window), e.inflight = Cardinality(e.window),
           e.inflight <= e.size
    PROVE  LET f == ReleaseBulkTxSlot([e EXCEPT !.window = @ \ {p}])
           IN  Good(f, g, n, x) /\ Parked(f) /\ Kept(e, f)
<1> DEFINE h == [[e EXCEPT !.window = @ \ {p}] EXCEPT !.inflight = Max({@ - 1, 0})]
           less == e.inflight - 1
<1>1. e.inflight \in Nat /\ e.size \in Nat /\ e.window \subseteq Packet
  BY FieldTypes
<1>2. IsFiniteSet(e.window \ {p}) /\ Cardinality(e.window \ {p}) = less
  BY FS_RemoveElement
<1>3. less \in Nat /\ less <= e.size
  <2>1. Cardinality(e.window \ {p}) \in Nat
    BY <1>2, FS_CardinalityType
  <2> QED
    BY <1>1, <1>2, <2>1
<1>4. Max({less, 0}) = less
  <2> HIDE DEF less
  <2>1. \A y \in {less, 0} : less >= y
    BY <1>3
  <2>2. \A y \in {less, 0} : (\A z \in {less, 0} : y >= z) => y = less
    BY <1>3
  <2> QED
    BY <2>1, <2>2 DEF Max
<1>5. h = [e EXCEPT !.window = e.window \ {p}, !.inflight = less]
  BY <1>4 DEF Endpoint
<1> HIDE DEF less
<1>6. e.window \ {p} \in SUBSET Packet
  BY <1>1
<1>7. ReleaseBulkTxSlot([e EXCEPT !.window = @ \ {p}])
        = PumpRdmaOperationPackets(PumpBulkTxWindow(h))
  BY ThenApplies DEF ReleaseBulkTxSlot
<1> HIDE DEF h
<1>8. h \in Endpoint
  BY <1>3, <1>5, <1>6 DEF Endpoint
<1>9. /\ h.bulk = e.bulk /\ h.rdma = e.rdma /\ h.size = e.size /\ h.class = e.class
      /\ h.paced = e.paced /\ h.queue = e.queue /\ h.window = e.window \ {p}
      /\ h.inflight = less /\ h.retries = e.retries
      /\ h.wire = e.wire /\ h.pacer = e.pacer /\ h.lost = e.lost
      /\ h.holds = e.holds /\ h.expiry = e.expiry
  BY <1>5 DEF Endpoint
<1>10. Waiting(h, g)
  BY <1>9 DEF Waiting
<1>11. Slots(h, x)
  BY <1>2, <1>3, <1>9 DEF Slots
<1>12. Apart(h, g, n)
  BY <1>9 DEF Apart, Sent, Underway, Taken
<1>13. Ordered(h) /\ Parked(h)
  BY <1>9 DEF Ordered, InTurn, Fresh, Before, Parked, IsHeld
<1>14. Good(h, g, n, x)
  BY <1>8, <1>10, <1>11, <1>12, <1>13 DEF Good
<1>15. LET f == PumpBulkTxWindow(h) IN Good(f, g, n, x) /\ Parked(f) /\ Kept(h, f)
  BY <1>13, <1>14, PumpBulkKeeps
<1>16. LET f == PumpRdmaOperationPackets(PumpBulkTxWindow(h))
       IN  Good(f, g, n, x) /\ Parked(f) /\ Kept(PumpBulkTxWindow(h), f)
  BY <1>15, PumpRdmaKeeps
<1> QED
  BY <1>7, <1>9, <1>15, <1>16 DEF Kept

\* The copy of a packet is dropped.
LEMMA ForgottenFields ==
    ASSUME NEW e \in Endpoint, NEW p
    PROVE  LET f == Forgotten(e, p)
           IN  /\ f \in Endpoint /\ SameRest(e, f)
               /\ f.queue = e.queue /\ f.window = e.window
               /\ f.inflight = e.inflight /\ f.wire = e.wire /\ f.pacer = e.pacer /\ f.lost = e.lost
               /\ DOMAIN f.retries = DOMAIN e.retries \ {p}
               /\ \A q \in DOMAIN f.retries : f.retries[q] = e.retries[q]
<1> DEFINE r == [q \in DOMAIN e.retries \ {p} |-> e.retries[q]]
           f == Forgotten(e, p)
<1>1. f = [e EXCEPT !.retries = r]
  BY DEF Forgotten
<1>2. /\ DOMAIN r = DOMAIN e.retries \ {p}
      /\ \A q \in DOMAIN r : r[q] = e.retries[q]
  OBVIOUS
<1>3. r \in [DOMAIN r -> Nat] /\ DOMAIN r \in SUBSET Packet
  BY <1>2, FieldTypes
<1>4. r \in UNION {[S -> Nat] : S \in SUBSET Packet}
  BY <1>3
<1> HIDE DEF r, f
<1>5. f \in Endpoint
  BY <1>1, <1>4 DEF Endpoint
<1>6. /\ SameRest(e, f) /\ f.retries = r
      /\ f.queue = e.queue /\ f.window = e.window
      /\ f.inflight = e.inflight /\ f.wire = e.wire /\ f.pacer = e.pacer /\ f.lost = e.lost
  BY <1>1 DEF Endpoint, SameRest
<1> QED
  BY <1>2, <1>5, <1>6 DEF f

\* ProcessAckPacket of a packet that was at the switch.
LEMMA AckKeeps ==
    ASSUME NEW e, NEW g, NEW n, NEW p, Good(e, g, n, {}), Parked(e), p \in n
    PROVE  LET f == Acknowledged(e, p)
           IN  Good(f, g, n, {}) /\ Parked(f) /\ Kept(e, f)
<1> DEFINE h == Released(e, p)
           f == Forgotten(h, p)
<1>1. e \in Endpoint /\ p \notin ToSet(e.queue)
  BY DEF Good, Apart, Sent, Underway
<1>2. Good(h, g, n, {p}) /\ Parked(h) /\ Kept(e, h)
  <2>1. CASE p \in e.window
    <3>1. e.window \ {p} = (ToSet(e.queue) \cup DOMAIN e.retries) \ {p}
      BY DEF Good, Slots
    <3>0. /\ Waiting(e, g) /\ Apart(e, g, n) /\ Ordered(e) /\ {p} \subseteq n
          /\ IsFiniteSet(e.window) /\ e.inflight = Cardinality(e.window)
          /\ e.inflight <= e.size
      BY DEF Good, Slots
    <3>2. LET k == ReleaseBulkTxSlot([e EXCEPT !.window = @ \ {p}])
          IN  Good(k, g, n, {p}) /\ Parked(k) /\ Kept(e, k)
      BY <1>1, <2>1, <3>0, <3>1, ReleaseKeeps
    <3> QED
      BY <2>1, <3>2 DEF Released
  <2>2. CASE p \notin e.window
    <3>1. h = e
      BY <2>2 DEF Released
    <3>2. Slots(e, {p})
      BY <2>2 DEF Good, Slots
    <3> QED
      BY <3>1, <3>2 DEF Good, Kept
  <2> QED
    BY <2>1, <2>2
<1>3. Acknowledged(e, p) = f
  BY DEF Acknowledged
<1> HIDE DEF h
<1>4. h \in Endpoint /\ p \notin ToSet(h.queue)
  BY <1>2 DEF Good, Apart, Sent, Underway
<1>5. /\ f \in Endpoint /\ SameRest(h, f)
      /\ f.queue = h.queue /\ f.window = h.window
      /\ f.inflight = h.inflight /\ f.wire = h.wire /\ f.pacer = h.pacer /\ f.lost = h.lost
      /\ DOMAIN f.retries = DOMAIN h.retries \ {p}
      /\ \A q \in DOMAIN f.retries : f.retries[q] = h.retries[q]
  BY <1>4, ForgottenFields
<1> HIDE DEF f
<1>6. Waiting(f, g)
  BY <1>2, <1>5 DEF Good, Waiting, SameRest
<1>7. Slots(f, {})
  <2>1. f.window = (ToSet(f.queue) \cup DOMAIN f.retries) \ {}
    BY <1>2, <1>4, <1>5 DEF Good, Slots
  <2> QED
    BY <1>2, <1>5, <2>1 DEF Good, Slots, SameRest
<1>8. Apart(f, g, n)
  <2>1. Taken(f, g) = Taken(h, g) /\ Sent(f, n) \subseteq Sent(h, n)
    BY <1>5 DEF Taken, Sent, Underway, SameRest
  <2> QED
    BY <1>2, <1>5, <2>1 DEF Good, Apart
<1>9. Ordered(f)
  <2>1. \A y, z : Before(f, y, z) <=> Before(h, y, z)
    BY <1>5 DEF Before, SameRest
  <2>2. \A y : Fresh(f, y) => Fresh(h, y)
    BY <1>5 DEF Fresh
  <2> QED
    BY <1>2, <1>5, <2>1, <2>2 DEF Good, Ordered, InTurn, SameRest
<1>10. Parked(f) /\ Kept(e, f)
  BY <1>2, <1>5 DEF Parked, IsHeld, SameRest, Kept
<1> QED
  BY <1>3, <1>5, <1>6, <1>7, <1>8, <1>9, <1>10 DEF Good

\* NotifyPermanentLoss of a packet that was sent.
LEMMA GivenUpKeeps ==
    ASSUME NEW e, NEW g, NEW n, NEW p, Good(e, g, n, {}), Parked(e),
           p \in DOMAIN e.retries
    PROVE  LET f == GivenUp(e, p)
           IN  Good(f, g, n, {}) /\ Parked(f) /\ Kept(e, f)
<1> DEFINE d == Forgotten(e, p)
           h == [d EXCEPT !.lost = @ \cup {p}]
<1>1. e \in Endpoint /\ p \notin ToSet(e.queue) /\ p \in Packet
  <2>1. e \in Endpoint /\ p \notin ToSet(e.queue)
    BY DEF Good, Apart, Sent, Underway
  <2> QED
    BY <2>1, FieldTypes
<1>2. /\ d \in Endpoint /\ SameRest(e, d)
      /\ d.queue = e.queue /\ d.window = e.window
      /\ d.inflight = e.inflight /\ d.wire = e.wire /\ d.pacer = e.pacer /\ d.lost = e.lost
      /\ DOMAIN d.retries = DOMAIN e.retries \ {p}
      /\ \A q \in DOMAIN d.retries : d.retries[q] = e.retries[q]
  BY <1>1, ForgottenFields
<1> HIDE DEF d
<1>3. h \in Endpoint
  BY <1>1, <1>2 DEF Endpoint
<1>4. /\ SameRest(e, h)
      /\ h.queue = e.queue /\ h.window = e.window /\ h.inflight = e.inflight
      /\ h.wire = e.wire /\ h.pacer = e.pacer /\ h.lost = e.lost \cup {p}
      /\ DOMAIN h.retries = DOMAIN e.retries \ {p}
      /\ \A q \in DOMAIN h.retries : h.retries[q] = e.retries[q]
  <2>1. /\ h.size = d.size /\ h.class = d.class /\ h.bulk = d.bulk /\ h.rdma = d.rdma
        /\ h.holds = d.holds /\ h.expiry = d.expiry /\ h.paced = d.paced
        /\ h.queue = d.queue /\ h.window = d.window /\ h.inflight = d.inflight
        /\ h.wire = d.wire /\ h.pacer = d.pacer /\ h.lost = d.lost \cup {p} /\ h.retries = d.retries
    BY <1>2 DEF Endpoint
  <2> HIDE DEF h
  <2> QED
    BY <1>2, <2>1 DEF SameRest
<1>5. GivenUp(e, p) = TrySendQueuedPackets(Released(h, p))
  BY ThenApplies DEF GivenUp, d
<1> HIDE DEF h
<1>6. Taken(h, g) = Taken(e, g) /\ Sent(h, n) = Sent(e, n)
  BY <1>4 DEF Taken, Sent, Underway, SameRest
<1>7. \A y, z : Before(h, y, z) <=> Before(e, y, z)
  BY <1>4 DEF Before, SameRest
<1>8. Waiting(h, g)
  BY <1>4 DEF Good, Waiting, SameRest
<1>9. Apart(h, g, n)
  BY <1>4, <1>6 DEF Good, Apart
<1>10. Ordered(h)
  <2>1. \A y : Fresh(h, y) => Fresh(e, y)
    BY <1>4 DEF Fresh
  <2>2. DOMAIN h.retries \cup h.lost = DOMAIN e.retries \cup e.lost
    BY <1>4
  <2> QED
    BY <1>4, <1>7, <2>1, <2>2 DEF Good, Ordered, InTurn, SameRest
<1>11. Parked(h)
  BY <1>4 DEF Parked, IsHeld, SameRest
<1>12. /\ p \in h.window
       /\ h.window \ {p} = (ToSet(h.queue) \cup DOMAIN h.retries) \ {}
       /\ IsFiniteSet(h.window) /\ h.inflight = Cardinality(h.window)
       /\ h.inflight <= h.size
  BY <1>1, <1>4 DEF Good, Slots, SameRest
<1>13. LET k == ReleaseBulkTxSlot([h EXCEPT !.window = @ \ {p}])
       IN  Good(k, g, n, {}) /\ Parked(k) /\ Kept(h, k)
  <2>1. {} \subseteq n
    OBVIOUS
  <2> QED
    BY <1>3, <1>8, <1>9, <1>10, <1>11, <1>12, <2>1, ReleaseKeeps
<1> DEFINE k == Released(h, p)
<1>14. Good(k, g, n, {}) /\ Kept(h, k)
  BY <1>12, <1>13 DEF Released
<1> HIDE DEF k
<1>15. LET f == TrySendQueuedPackets(k)
       IN  Good(f, g, n, {}) /\ Parked(f) /\ SameRest(k, f)
  BY <1>14, DrainKeeps
<1> QED
  BY <1>4, <1>5, <1>14, <1>15 DEF Kept, SameRest, k

\* A NACK or a retry timeout.
LEMMA RetriedKeeps ==
    ASSUME NEW e, NEW g, NEW n, NEW p, Good(e, g, n, {}), Parked(e)
    PROVE  LET f == Retried(e, p)
           IN  Good(f, g, n, {}) /\ Parked(f) /\ Kept(e, f)
<1>1. CASE p \notin DOMAIN e.retries
  BY <1>1 DEF Retried, Kept
<1>2. CASE p \in DOMAIN e.retries /\ e.retries[p] + 1 > RetryLimit
  BY <1>2, GivenUpKeeps DEF Retried
<1>3. CASE p \in DOMAIN e.retries /\ ~(e.retries[p] + 1 > RetryLimit)
  <2> DEFINE r == [e.retries EXCEPT ![p] = @ + 1]
             h == [e EXCEPT !.retries = r]
             xs == <<<<p, e.retries[p] + 1>>>>
             f == Handed(h, xs)
  <2>1. e \in Endpoint
    BY DEF Good
  <2>2. /\ e.wire \in Seq(Packet) /\ p \in Packet /\ e.retries[p] \in Nat
        /\ DOMAIN e.retries \subseteq Packet
        /\ e.retries = [q \in DOMAIN e.retries |-> e.retries[q]]
        /\ \A q \in DOMAIN e.retries : e.retries[q] \in Nat
    BY <1>3, <2>1, FieldTypes
  <2>3. /\ r \in [DOMAIN e.retries -> Nat] /\ DOMAIN r = DOMAIN e.retries
        /\ r[p] = e.retries[p] + 1
        /\ \A q \in DOMAIN e.retries : q # p => r[q] = e.retries[q]
    BY <1>3, <2>2
  <2>4. Retried(e, p) = f
    BY <1>3, <2>1 DEF Retried, Endpoint
  <2> HIDE DEF r
  <2>5. /\ h \in Endpoint /\ SameRest(e, h) /\ h.retries = r
        /\ h.queue = e.queue /\ h.window = e.window /\ h.inflight = e.inflight
        /\ h.wire = e.wire /\ h.pacer = e.pacer /\ h.lost = e.lost
    <3>1. r \in UNION {[S -> Nat] : S \in SUBSET Packet}
      BY <2>2, <2>3
    <3> QED
      BY <2>1, <3>1 DEF Endpoint, SameRest
  <2>6. /\ xs \in Seq(Packet \X Nat) /\ [i \in DOMAIN xs |-> xs[i][1]] = <<p>>
    BY <2>2
  <2> HIDE DEF h, xs
  <2>7. /\ f \in Endpoint /\ SameRest(h, f) /\ f.retries = h.retries
        /\ f.queue = h.queue /\ f.window = h.window
        /\ f.inflight = h.inflight /\ f.lost = h.lost
        /\ Underway(f) = Underway(h) \cup ToSet(<<p>>)
        /\ ~h.paced => f.pacer = h.pacer /\ f.wire = h.wire \o <<p>>
    <3> DEFINE qs == [i \in DOMAIN xs |-> xs[i][1]]
    <3>1. /\ f \in Endpoint /\ SameRest(h, f) /\ f.retries = h.retries
          /\ f.queue = h.queue /\ f.window = h.window
          /\ f.inflight = h.inflight /\ f.lost = h.lost
          /\ Underway(f) = Underway(h) \cup ToSet(qs)
          /\ ~h.paced => f.pacer = h.pacer /\ f.wire = h.wire \o qs
      BY <2>5, <2>6, HandedFields
    <3>2. qs = <<p>>
      BY <2>6
    <3> HIDE DEF qs, f
    <3> QED
      BY <3>1, <3>2
  <2> HIDE DEF f
  <2>8. /\ SameRest(e, f) /\ f.retries = r /\ f.queue = e.queue /\ f.window = e.window
        /\ f.inflight = e.inflight /\ f.lost = e.lost /\ f.paced = e.paced
        /\ Underway(f) = Underway(e) \cup {p}
        /\ ~e.paced => f.pacer = e.pacer /\ f.wire = Append(e.wire, p)
    <3>1. ToSet(<<p>>) = {p} /\ e.wire \o <<p>> = Append(e.wire, p)
      BY <2>2 DEF ToSet
    <3> QED
      BY <2>5, <2>7, <3>1 DEF SameRest, Underway
  <2>9. Taken(f, g) = Taken(e, g) /\ Sent(f, n) = Sent(e, n)
    BY <1>3, <2>3, <2>8 DEF Taken, Sent, SameRest
  <2>10. \A y, z : Before(f, y, z) <=> Before(e, y, z)
    BY <2>8 DEF Before, SameRest
  <2>11. Waiting(f, g) /\ Slots(f, {}) /\ Apart(f, g, n)
    BY <2>3, <2>8, <2>9 DEF Good, Waiting, Slots, Apart, SameRest
  <2>12. ~Fresh(f, p) /\ \A q : Fresh(f, q) => Fresh(e, q)
    BY <2>2, <2>3, <2>8 DEF Fresh
  <2>13. ASSUME ~e.paced, NEW i \in DOMAIN f.wire, NEW j \in DOMAIN f.wire,
                Fresh(f, f.wire[i]), Fresh(f, f.wire[j]), Before(f, f.wire[i], f.wire[j])
         PROVE  i < j
    <3>0. /\ Len(e.wire) \in Nat /\ DOMAIN e.wire = 1..Len(e.wire)
          /\ DOMAIN f.wire = 1..(Len(e.wire) + 1)
          /\ \A k \in 1..Len(e.wire) : f.wire[k] = e.wire[k]
          /\ f.wire[Len(e.wire) + 1] = p
      BY <2>2, <2>8, <2>13
    <3>1. i # Len(e.wire) + 1 /\ j # Len(e.wire) + 1
      BY <2>12, <2>13, <3>0
    <3>2. /\ i \in DOMAIN e.wire /\ f.wire[i] = e.wire[i]
          /\ j \in DOMAIN e.wire /\ f.wire[j] = e.wire[j]
      BY <2>13, <3>0, <3>1
    <3>3. InTurn(e)
      BY <2>13 DEF Good, Ordered
    <3> QED
      BY <2>10, <2>12, <2>13, <3>2, <3>3 DEF InTurn
  <2>14. Ordered(f)
    <3>1. f.paced \/ InTurn(f)
      BY <2>8, <2>13 DEF Good, Ordered, InTurn
    <3> QED
      BY <2>3, <2>8, <2>10, <3>1 DEF Good, Ordered
  <2>15. Parked(f) /\ Kept(e, f)
    BY <2>8 DEF Parked, IsHeld, SameRest, Kept
  <2> QED
    BY <2>4, <2>7, <2>11, <2>14, <2>15 DEF Good
<1> QED
  BY <1>1, <1>2, <1>3

\* e and f differ in the holds and their timers only.
SameTraffic(e, f) ==
    /\ f.bulk = e.bulk /\ f.rdma = e.rdma /\ f.size = e.size /\ f.class = e.class
    /\ f.paced = e.paced /\ f.queue = e.queue /\ f.window = e.window /\ f.inflight = e.inflight
    /\ f.retries = e.retries /\ f.wire = e.wire /\ f.pacer = e.pacer /\ f.lost = e.lost

\* Holds and their timers are no part of what is sent.
LEMMA HoldsApart ==
    ASSUME NEW e, NEW g, NEW n, NEW x, Good(e, g, n, x),
           NEW f \in Endpoint, SameTraffic(e, f)
    PROVE  Good(f, g, n, x)
<1> USE DEF SameTraffic
<1>1. Waiting(f, g) /\ Slots(f, x)
  BY DEF Good, Waiting, Slots
<1>2. Apart(f, g, n)
  BY DEF Good, Apart, Sent, Underway, Taken
<1>3. Ordered(f)
  BY DEF Good, Ordered, InTurn, Fresh, Before
<1> QED
  BY <1>1, <1>2, <1>3 DEF Good

\* ProcessPfcPausePacket.
LEMMA PausedKeeps ==
    ASSUME NEW e, NEW g, NEW n, Good(e, g, n, {}), Parked(e), NEW c \in Class, NEW quanta
    PROVE  LET f == Paused(e, c, quanta)
           IN  Good(f, g, n, {}) /\ Parked(f) /\ f.size = e.size /\ f.class = e.class
<1> DEFINE held == [e EXCEPT !.holds = @ \cup {c}]
           settled == IF c \in e.holds THEN held ELSE Then(held, TrySendQueuedPackets)
<1>1. e \in Endpoint
  BY DEF Good
<1>2. e.holds \cup {c} \in SUBSET Class
  BY <1>1, FieldTypes
<1>3. held \in Endpoint /\ SameTraffic(e, held) /\ held.holds = e.holds \cup {c}
  BY <1>1, <1>2 DEF Endpoint, SameTraffic
<1>4. Paused(e, c, quanta) = IF quanta > 0 THEN [settled EXCEPT !.expiry = @ \cup {c}] ELSE settled
  BY DEF Paused
<1> HIDE DEF held
<1>5. Good(held, g, n, {})
  BY <1>3, HoldsApart
<1>6. Parked(held)
  BY <1>3 DEF Parked, IsHeld, SameTraffic
<1>7. /\ Good(settled, g, n, {}) /\ Parked(settled)
      /\ settled.size = e.size /\ settled.class = e.class
  <2>1. LET f == TrySendQueuedPackets(held)
        IN  Good(f, g, n, {}) /\ Parked(f) /\ SameRest(held, f)
    BY <1>5, DrainKeeps
  <2> QED
    BY <1>3, <1>5, <1>6, <2>1, ThenApplies DEF SameRest, SameTraffic
<1> HIDE DEF settled
<1> DEFINE f == [settled EXCEPT !.expiry = @ \cup {c}]
<1>8. settled \in Endpoint
  BY <1>7 DEF Good
<1>9. settled.expiry \cup {c} \in SUBSET Class
  BY <1>8, FieldTypes
<1>10. f \in Endpoint /\ SameTraffic(settled, f) /\ f.holds = settled.holds
  BY <1>8, <1>9 DEF Endpoint, SameTraffic
<1> HIDE DEF f
<1>11. Good(f, g, n, {})
  BY <1>7, <1>10, HoldsApart
<1>12. Parked(f) /\ f.size = e.size /\ f.class = e.class
  BY <1>7, <1>10 DEF Parked, IsHeld, SameTraffic
<1> QED
  BY <1>4, <1>7, <1>11, <1>12 DEF f

\* A hold is lifted and the send queue drained.
LEMMA UnheldKeeps ==
    ASSUME NEW e, NEW g, NEW n, Good(e, g, n, {}), NEW c
    PROVE  LET f == Then(Unheld(e, c), TrySendQueuedPackets)
           IN  Good(f, g, n, {}) /\ Parked(f) /\ f.size = e.size /\ f.class = e.class
<1> DEFINE h == Unheld(e, c)
<1>1. e \in Endpoint
  BY DEF Good
<1>2. e.holds \ {c} \in SUBSET Class /\ e.expiry \ {c} \in SUBSET Class
  BY <1>1, FieldTypes
<1>3. h \in Endpoint /\ SameTraffic(e, h)
  BY <1>1, <1>2 DEF Endpoint, SameTraffic, Unheld
<1> HIDE DEF h
<1>4. Good(h, g, n, {})
  BY <1>3, HoldsApart
<1>5. LET f == TrySendQueuedPackets(h)
      IN  Good(f, g, n, {}) /\ Parked(f) /\ SameRest(h, f)
  BY <1>4, DrainKeeps
<1> QED
  BY <1>3, <1>5, ThenApplies DEF SameRest, SameTraffic, h

\* PfcPauseExpiredForDest.
LEMMA LiftedKeeps ==
    ASSUME NEW e, NEW g, NEW n, Good(e, g, n, {}), NEW c
    PROVE  LET f == Lifted(e, c)
           IN  Good(f, g, n, {}) /\ Parked(f) /\ f.size = e.size /\ f.class = e.class
<1> DEFINE h == Then(Unheld(e, c), TrySendQueuedPackets)
<1>1. Good(h, g, n, {}) /\ Parked(h) /\ h.size = e.size /\ h.class = e.class
  BY UnheldKeeps
<1>2. Lifted(e, c) = Then(h, PumpBulkTxWindow)
  BY DEF Lifted
<1> HIDE DEF h
<1>3. LET f == PumpBulkTxWindow(h) IN Good(f, g, n, {}) /\ Parked(f) /\ Kept(h, f)
  BY <1>1, PumpBulkKeeps
<1> QED
  BY <1>1, <1>2, <1>3, ThenApplies DEF Kept

\* ProcessPfcResumePacket.
LEMMA ResumedKeeps ==
    ASSUME NEW e, NEW g, NEW n, Good(e, g, n, {}), Parked(e), NEW c
    PROVE  LET f == Resumed(e, c)
           IN  Good(f, g, n, {}) /\ Parked(f) /\ f.size = e.size /\ f.class = e.class
  BY UnheldKeeps, LiftedKeeps DEF Resumed

\* Good is about fewer packets beyond the endpoint, too.
LEMMA GoodLess ==
    ASSUME NEW e, NEW g, NEW n, NEW k, k \subseteq n, Good(e, g, n, {})
    PROVE  Good(e, g, k, {})
<1>1. Sent(e, k) \subseteq Sent(e, n)
  BY DEF Sent, Underway
<1> QED
  BY <1>1 DEF Good, Apart

\* Packets leave the wire at the switch.
LEMMA WireMoves ==
    ASSUME NEW e, NEW g, NEW n, NEW k, Good(e, g, n, {}), Parked(e), e.wire # <<>>,
           k \subseteq n \cup {Head(e.wire)}
    PROVE  LET f == [e EXCEPT !.wire = Tail(@)]
           IN  Good(f, g, k, {}) /\ Parked(f) /\ Kept(e, f)
<1> DEFINE w == Tail(e.wire)
           f == [e EXCEPT !.wire = w]
<1>1. e \in Endpoint
  BY DEF Good
<1>2. e.wire \in Seq(Packet)
  BY <1>1, FieldTypes
<1>3. /\ w \in Seq(Packet) /\ Len(e.wire) \in Nat \ {0} /\ Len(w) = Len(e.wire) - 1
      /\ DOMAIN w = 1..(Len(e.wire) - 1) /\ DOMAIN e.wire = 1..Len(e.wire)
      /\ \A i \in 1..(Len(e.wire) - 1) : w[i] = e.wire[i + 1]
      /\ Head(e.wire) = e.wire[1]
  BY <1>2
<1>4. \A i \in DOMAIN w : i \in Int /\ i + 1 \in DOMAIN e.wire /\ w[i] = e.wire[i + 1]
  BY <1>3
<1> HIDE DEF w
<1>5. f \in Endpoint
  BY <1>1, <1>3 DEF Endpoint
<1>6. /\ SameRest(e, f) /\ f.wire = w /\ f.pacer = e.pacer /\ f.retries = e.retries
      /\ f.queue = e.queue /\ f.window = e.window
      /\ f.inflight = e.inflight /\ f.lost = e.lost
  BY <1>1 DEF Endpoint, SameRest
<1>7. [e EXCEPT !.wire = Tail(@)] = f
  BY DEF w
<1> HIDE DEF f
<1>8. ToSet(w) \subseteq ToSet(e.wire) /\ Head(e.wire) \in ToSet(e.wire)
  <2>1. 1 \in DOMAIN e.wire
    BY <1>3
  <2> QED
    BY <1>3, <1>4, <2>1 DEF ToSet
<1>9. Taken(f, g) = Taken(e, g) /\ Sent(f, k) \subseteq Sent(e, n)
  BY <1>6, <1>8 DEF Taken, Sent, Underway, SameRest
<1>10. \A y, z : Before(f, y, z) <=> Before(e, y, z)
  BY <1>6 DEF Before, SameRest
<1>11. Waiting(f, g) /\ Slots(f, {})
  BY <1>6 DEF Good, Waiting, Slots, SameRest
<1>12. Apart(f, g, k)
  BY <1>6, <1>9 DEF Good, Apart
<1>13. ASSUME ~e.paced, NEW i \in DOMAIN f.wire, NEW j \in DOMAIN f.wire,
              Fresh(f, f.wire[i]), Fresh(f, f.wire[j]), Before(f, f.wire[i], f.wire[j])
       PROVE  i < j
  <2>1. /\ i \in Int /\ i + 1 \in DOMAIN e.wire /\ f.wire[i] = e.wire[i + 1]
        /\ j \in Int /\ j + 1 \in DOMAIN e.wire /\ f.wire[j] = e.wire[j + 1]
    BY <1>4, <1>6
  <2>2. i + 1 < j + 1
    BY <1>6, <1>10, <1>13, <2>1 DEF Good, Ordered, InTurn, Fresh
  <2> QED
    BY <2>1, <2>2
<1>14. Ordered(f)
  <2>1. f.paced = e.paced
    BY <1>6 DEF SameRest
  <2>2. f.paced \/ InTurn(f)
    BY <1>6, <1>13, <2>1 DEF Good, Ordered, InTurn
  <2> QED
    BY <1>6, <1>10, <2>2 DEF Good, Ordered
<1>15. Parked(f) /\ Kept(e, f)
  BY <1>6 DEF Parked, IsHeld, SameRest, Kept
<1> QED
  BY <1>5, <1>7, <1>11, <1>12, <1>14, <1>15 DEF Good

\* A deferred send reaches the device.
LEMMA DepartedKeeps ==
    ASSUME NEW e, NEW g, NEW n, NEW y, Good(e, g, n, {}), Parked(e), y \in e.pacer
    PROVE  LET f == Departed(e, y)
           IN  Good(f, g, n, {}) /\ Parked(f) /\ Kept(e, f)
<1> DEFINE w == Append(e.wire, y[1])
           f == Departed(e, y)
<1>1. e \in Endpoint /\ e.paced
  BY DEF Good, Ordered, InTurn
<1>2. e.wire \in Seq(Packet) /\ e.pacer \subseteq Packet \X Nat
  BY <1>1, FieldTypes
<1>3. y[1] \in Packet
  BY <1>2
<1>4. <<y[1]>> \in Seq(Packet) /\ ToSet(<<y[1]>>) = {y[1]} /\ w = e.wire \o <<y[1]>>
  BY <1>2, <1>3 DEF ToSet
<1>5. w \in Seq(Packet) /\ ToSet(w) = ToSet(e.wire) \cup {y[1]}
  <2> DEFINE one == <<y[1]>>
  <2>1. one \in Seq(Packet) /\ ToSet(one) = {y[1]} /\ w = e.wire \o one
    BY <1>4
  <2> HIDE DEF one, w
  <2>2. e.wire \o one \in Seq(Packet) /\ ToSet(e.wire \o one) = ToSet(e.wire) \cup ToSet(one)
    BY <1>2, <2>1, ConcatHas
  <2> QED
    BY <2>1, <2>2
<1>6. f = [e EXCEPT !.pacer = e.pacer \ {y}, !.wire = w]
  BY DEF Departed
<1>7. e.pacer \ {y} \in SUBSET (Packet \X Nat)
  BY <1>2
<1> HIDE DEF w, f
<1>8. /\ f \in Endpoint /\ SameRest(e, f) /\ f.wire = w /\ f.pacer = e.pacer \ {y}
      /\ f.retries = e.retries /\ f.queue = e.queue /\ f.window = e.window
      /\ f.inflight = e.inflight /\ f.lost = e.lost
  BY <1>1, <1>5, <1>6, <1>7 DEF Endpoint, SameRest
<1>9. Underway(f) = Underway(e)
  BY <1>5, <1>8 DEF Underway
<1>10. Taken(f, g) = Taken(e, g) /\ Sent(f, n) = Sent(e, n)
  BY <1>8, <1>9 DEF Taken, Sent, SameRest
<1>11. Waiting(f, g) /\ Slots(f, {}) /\ Apart(f, g, n)
  BY <1>8, <1>10 DEF Good, Waiting, Slots, Apart, SameRest
<1>12. Ordered(f)
  <2>1. f.paced /\ \A p, q : Before(f, p, q) <=> Before(e, p, q)
    BY <1>1, <1>8 DEF Before, SameRest
  <2> QED
    BY <1>8, <2>1 DEF Good, Ordered
<1>13. Parked(f) /\ Kept(e, f)
  BY <1>8 DEF Parked, IsHeld, SameRest, Kept
<1> QED
  BY <1>8, <1>11, <1>12, <1>13 DEF Good, f

\* The next bulk fragments are submitted.
LEMMA BulkGiven ==
    ASSUME NEW e, NEW g, NEW n, NEW x, Good(e, g, n, x), Parked(e),
           NEW ps \in Seq(Packet), \A i \in 1..Len(ps) : ps[i] = <<"bulk", g.bulk + i>>,
           NEW h, h = [g EXCEPT !.bulk = @ + Len(ps)], Given(h) \subseteq DOMAIN e.class
    PROVE  LET f == [e EXCEPT !.bulk = @ \o ps]
           IN  Good(f, h, n, x) /\ Parked(f) /\ Kept(e, f)
<1> DEFINE b == e.bulk \o ps
           f == [e EXCEPT !.bulk = b]
<1>1. e \in Endpoint /\ g \in [bulk : Nat, rdma : Nat]
  BY DEF Good, Waiting
<1>2. e.bulk \in Seq(Packet) /\ Len(e.bulk) \in Nat /\ Len(ps) \in Nat
  <2>1. e.bulk \in Seq(Packet)
    BY <1>1, FieldTypes
  <2> QED
    BY <2>1
<1>3. /\ b \in Seq(Packet) /\ Len(b) = Len(e.bulk) + Len(ps)
      /\ \A i \in 1..(Len(e.bulk) + Len(ps)) :
           b[i] = IF i <= Len(e.bulk) THEN e.bulk[i] ELSE ps[i - Len(e.bulk)]
  BY <1>2, ConcatHas
<1> HIDE DEF b
<1>4. f \in Endpoint
  BY <1>1, <1>3 DEF Endpoint
<1>5. /\ f.bulk = b /\ f.rdma = e.rdma /\ f.size = e.size /\ f.class = e.class
      /\ f.queue = e.queue /\ f.window = e.window
      /\ f.inflight = e.inflight /\ f.retries = e.retries
      /\ f.wire = e.wire /\ f.pacer = e.pacer /\ f.lost = e.lost
      /\ f.holds = e.holds /\ f.expiry = e.expiry
  BY <1>1 DEF Endpoint
<1>0. f.paced = e.paced
  BY <1>1 DEF Endpoint
<1>6. [e EXCEPT !.bulk = @ \o ps] = f
  BY DEF b
<1> HIDE DEF f
<1>7. /\ h \in [bulk : Nat, rdma : Nat] /\ h.bulk = g.bulk + Len(ps) /\ h.rdma = g.rdma
  BY <1>1, <1>2
<1>8. h.bulk - Len(f.bulk) = g.bulk - Len(e.bulk) /\ Len(f.bulk) <= h.bulk
  BY <1>1, <1>2, <1>3, <1>5, <1>7 DEF Good, Waiting
<1>9. Taken(f, h) = Taken(e, g)
  BY <1>5, <1>7, <1>8 DEF Taken
<1>10. Waiting(f, h)
  <2>1. ASSUME NEW i \in 1..Len(f.bulk)
        PROVE  f.bulk[i] = <<"bulk", h.bulk - Len(f.bulk) + i>>
    <3>1. CASE i <= Len(e.bulk)
      <4>1. i \in 1..Len(e.bulk) /\ f.bulk[i] = e.bulk[i]
        BY <1>2, <1>3, <1>5, <3>1
      <4> QED
        BY <1>8, <4>1 DEF Good, Waiting
    <3>2. CASE ~(i <= Len(e.bulk))
      <4>1. i - Len(e.bulk) \in 1..Len(ps) /\ f.bulk[i] = ps[i - Len(e.bulk)]
        <5> DEFINE l == Len(e.bulk)
                   m == Len(ps)
        <5>1. l \in Nat /\ m \in Nat /\ i \in 1..(l + m) /\ ~(i <= l)
          BY <1>2, <1>3, <1>5, <3>2
        <5>2. f.bulk[i] = ps[i - l]
          BY <1>3, <1>5, <5>1
        <5> HIDE DEF l, m
        <5>3. i - l \in 1..m
          BY <5>1
        <5> QED
          BY <5>2, <5>3 DEF l, m
      <4>2. f.bulk[i] = <<"bulk", g.bulk + (i - Len(e.bulk))>>
        BY <4>1
      <4>3. g.bulk + (i - Len(e.bulk)) = g.bulk - Len(e.bulk) + i
        <5> DEFINE l == Len(e.bulk)
                   c == g.bulk
        <5>1. l \in Nat /\ c \in Nat /\ i \in Int
          BY <1>1, <1>2, <1>3, <1>5
        <5> HIDE DEF l, c
        <5>2. c + (i - l) = c - l + i
          BY <5>1
        <5> QED
          BY <5>2 DEF l, c
      <4> QED
        BY <1>8, <4>2, <4>3
    <3> QED
      BY <3>1, <3>2
  <2>2. /\ Len(f.rdma) <= h.rdma
        /\ \A i \in 1..Len(f.rdma) : f.rdma[i] = <<"rdma", h.rdma - Len(f.rdma) + i>>
    BY <1>5, <1>7 DEF Good, Waiting
  <2> QED
    BY <1>5, <1>7, <1>8, <2>1, <2>2 DEF Waiting
<1>11. Slots(f, x)
  BY <1>5 DEF Good, Slots
<1>12. Apart(f, h, n)
  BY <1>5, <1>9 DEF Good, Apart, Sent, Underway
<1>13. Ordered(f)
  BY <1>0, <1>5 DEF Good, Ordered, InTurn, Fresh, Before
<1>14. Parked(f) /\ Kept(e, f)
  BY <1>5 DEF Parked, IsHeld, Kept
<1> QED
  BY <1>4, <1>6, <1>10, <1>11, <1>12, <1>13, <1>14 DEF Good

\* The next RDMA packets are submitted.
LEMMA RdmaGiven ==
    ASSUME NEW e, NEW g, NEW n, NEW x, Good(e, g, n, x), Parked(e),
           NEW ps \in Seq(Packet), \A i \in 1..Len(ps) : ps[i] = <<"rdma", g.rdma + i>>,
           NEW h, h = [g EXCEPT !.rdma = @ + Len(ps)], Given(h) \subseteq DOMAIN e.class
    PROVE  LET f == [e EXCEPT !.rdma = @ \o ps]
           IN  Good(f, h, n, x) /\ Parked(f) /\ Kept(e, f)
<1> DEFINE b == e.rdma \o ps
           f == [e EXCEPT !.rdma = b]
<1>1. e \in Endpoint /\ g \in [bulk : Nat, rdma : Nat]
  BY DEF Good, Waiting
<1>2. e.rdma \in Seq(Packet) /\ Len(e.rdma) \in Nat /\ Len(ps) \in Nat
  <2>1. e.rdma \in Seq(Packet)
    BY <1>1, FieldTypes
  <2> QED
    BY <2>1
<1>3. /\ b \in Seq(Packet) /\ Len(b) = Len(e.rdma) + Len(ps)
      /\ \A i \in 1..(Len(e.rdma) + Len(ps)) :
           b[i] = IF i <= Len(e.rdma) THEN e.rdma[i] ELSE ps[i - Len(e.rdma)]
  BY <1>2, ConcatHas
<1> HIDE DEF b
<1>4. f \in Endpoint
  BY <1>1, <1>3 DEF Endpoint
<1>5. /\ f.rdma = b /\ f.bulk = e.bulk /\ f.size = e.size /\ f.class = e.class
      /\ f.queue = e.queue /\ f.window = e.window
      /\ f.inflight = e.inflight /\ f.retries = e.retries
      /\ f.wire = e.wire /\ f.pacer = e.pacer /\ f.lost = e.lost
      /\ f.holds = e.holds /\ f.expiry = e.expiry
  BY <1>1 DEF Endpoint
<1>0. f.paced = e.paced
  BY <1>1 DEF Endpoint
<1>6. [e EXCEPT !.rdma = @ \o ps] = f
  BY DEF b
<1> HIDE DEF f
<1>7. /\ h \in [bulk : Nat, rdma : Nat] /\ h.rdma = g.rdma + Len(ps) /\ h.bulk = g.bulk
  BY <1>1, <1>2
<1>8. h.rdma - Len(f.rdma) = g.rdma - Len(e.rdma) /\ Len(f.rdma) <= h.rdma
  BY <1>1, <1>2, <1>3, <1>5, <1>7 DEF Good, Waiting
<1>9. Taken(f, h) = Taken(e, g)
  BY <1>5, <1>7, <1>8 DEF Taken
<1>10. Waiting(f, h)
  <2>1. ASSUME NEW i \in 1..Len(f.rdma)
        PROVE  f.rdma[i] = <<"rdma", h.rdma - Len(f.rdma) + i>>
    <3>1. CASE i <= Len(e.rdma)
      <4>1. i \in 1..Len(e.rdma) /\ f.rdma[i] = e.rdma[i]
        BY <1>2, <1>3, <1>5, <3>1
      <4> QED
        BY <1>8, <4>1 DEF Good, Waiting
    <3>2. CASE ~(i <= Len(e.rdma))
      <4>1. i - Len(e.rdma) \in 1..Len(ps) /\ f.rdma[i] = ps[i - Len(e.rdma)]
        <5> DEFINE l == Len(e.rdma)
                   m == Len(ps)
        <5>1. l \in Nat /\ m \in Nat /\ i \in 1..(l + m) /\ ~(i <= l)
          BY <1>2, <1>3, <1>5, <3>2
        <5>2. f.rdma[i] = ps[i - l]
          BY <1>3, <1>5, <5>1
        <5> HIDE DEF l, m
        <5>3. i - l \in 1..m
          BY <5>1
        <5> QED
          BY <5>2, <5>3 DEF l, m
      <4>2. f.rdma[i] = <<"rdma", g.rdma + (i - Len(e.rdma))>>
        BY <4>1
      <4>3. g.rdma + (i - Len(e.rdma)) = g.rdma - Len(e.rdma) + i
        <5> DEFINE l == Len(e.rdma)
                   c == g.rdma
        <5>1. l \in Nat /\ c \in Nat /\ i \in Int
          BY <1>1, <1>2, <1>3, <1>5
        <5> HIDE DEF l, c
        <5>2. c + (i - l) = c - l + i
          BY <5>1
        <5> QED
          BY <5>2 DEF l, c
      <4> QED
        BY <1>8, <4>2, <4>3
    <3> QED
      BY <3>1, <3>2
  <2>2. /\ Len(f.bulk) <= h.bulk
        /\ \A i \in 1..Len(f.bulk) : f.bulk[i] = <<"bulk", h.bulk - Len(f.bulk) + i>>
    BY <1>5, <1>7 DEF Good, Waiting
  <2> QED
    BY <1>5, <1>7, <1>8, <2>1, <2>2 DEF Waiting
<1>11. Slots(f, x)
  BY <1>5 DEF Good, Slots
<1>12. Apart(f, h, n)
  BY <1>5, <1>9 DEF Good, Apart, Sent, Underway
<1>13. Ordered(f)
  BY <1>0, <1>5 DEF Good, Ordered, InTurn, Fresh, Before
<1>14. Parked(f) /\ Kept(e, f)
  BY <1>5 DEF Parked, IsHeld, Kept
<1> QED
  BY <1>4, <1>6, <1>10, <1>11, <1>12, <1>13, <1>14 DEF Good

-----------------------------------------------------------------------------
(* The endpoints and the port together.                                    *)

Frame == [type : {"PAUSE", "RESUME"}, of : Class] \cup [type : {"NACK"}, of : Packet]
Header == [src : Source, class : Class]
Entry == [src : Source, packet : Packet, hop : Hop] \cup {ExemptEntry(h) : h \in Hop}
Port ==
    [voq : Seq(Entry), latched : SUBSET Hop, used : [Hop -> Nat],
     header : [Hop -> Header \cup {NoHeader}], resends : [Hop -> Nat]]

\* The variables keep their types.
FabricTypeOK ==
    /\ conf \in Confs
    /\ given \in [Source -> [bulk : Nat, rdma : Nat]]
    /\ ep \in [Source -> Endpoint]
    /\ port \in Port
    /\ ctrl \in [Source -> Seq(Frame)]
    /\ acks \in SUBSET (Source \X Packet)
    /\ losses \in Nat /\ exempt \in Nat

\* The packets of s that wait at the port or are acknowledged.
Beyond(s) ==
    {y[2] : y \in {z \in acks : z[1] = s}}
        \cup {port.voq[i].packet :
                i \in {j \in DOMAIN port.voq : IsData(port.voq[j]) /\ port.voq[j].src = s}}

Workload(s) ==
    {<<"bulk", i>> : i \in DOMAIN conf.bulk[s]} \cup {<<"rdma", i>> : i \in DOMAIN conf.rdma[s]}

EndpointsGood ==
    \A s \in Source :
        /\ Good(ep[s], given[s], Beyond(s), {}) /\ Parked(ep[s])
        /\ ep[s].size = conf.window /\ DOMAIN ep[s].class = Workload(s)

\* A latched hop, and one with RESUMEs to send again, has the header of its
\* pause; it is never both.
HeadersKept ==
    \A h \in Hop :
        /\ h \in port.latched \/ port.resends[h] > 0 => port.header[h] \in Header
        /\ h \in port.latched => port.resends[h] = 0

\* Only hops in use are latched, and none is charged beyond the headroom.
ChargesBounded ==
    /\ port.latched \subseteq Active
    /\ \A h \in Hop : port.used[h] <= Headroom

\* A latched hop accounts for the packet that caused its pause and for those
\* charged to its headroom.
Tokens == {t \in Hop \X (0..Headroom) : t[1] \in port.latched /\ t[2] <= port.used[t[1]]}

\* Whatever data the queue holds beyond the threshold is accounted for.
VoqAccounted ==
    conf.mode \in {1, 2} /\ Headroom > 0 /\ ~conf.perVc =>
        DataLen(port.voq) <= PauseThreshold + Cardinality(Tokens)

\* The inductive invariant.
IInv == FabricTypeOK /\ EndpointsGood /\ HeadersKept /\ ChargesBounded /\ VoqAccounted

\* The types of a configuration.
LEMMA ConfTypes ==
    ASSUME conf \in Confs
    PROVE  /\ conf.window \in Nat \ {0} /\ conf.mode \in 0..3 /\ conf.dropThreshold \in Nat
           /\ conf.perVc \in BOOLEAN /\ conf.paced \in BOOLEAN
           /\ conf.ingress \in [Source -> InPort] /\ conf.exempt \in Seq(Hop)
           /\ \A s \in Source : /\ conf.bulk[s] \in Seq(Class) /\ conf.rdma[s] \in Seq(Class)
                                /\ Len(conf.bulk[s]) <= MaxLoad /\ Len(conf.rdma[s]) <= MaxLoad
           /\ MaxLoad \in Nat
  BY FabricAssumption

\* One endpoint moves; the others see no packet more.
LEMMA OneEndpoint ==
    ASSUME FabricTypeOK, EndpointsGood, NEW s \in Source, NEW f, NEW h, conf' = conf,
           ep' = [ep EXCEPT ![s] = f], given' = [given EXCEPT ![s] = h],
           Good(f, h, Beyond(s)', {}), Parked(f),
           f.size = ep[s].size, f.class = ep[s].class,
           \A t \in Source : t # s => Beyond(t)' \subseteq Beyond(t)
    PROVE  /\ EndpointsGood' /\ Active' = Active
           /\ ep' \in [Source -> Endpoint]
           /\ given' \in [Source -> [bulk : Nat, rdma : Nat]]
<1>1. f \in Endpoint /\ h \in [bulk : Nat, rdma : Nat]
  BY DEF Good, Waiting
<1>2. /\ ep' \in [Source -> Endpoint] /\ ep'[s] = f /\ given'[s] = h
      /\ given' \in [Source -> [bulk : Nat, rdma : Nat]]
      /\ \A t \in Source : t # s => ep'[t] = ep[t] /\ given'[t] = given[t]
  BY <1>1 DEF FabricTypeOK
<1>3. \A t \in Source : Workload(t)' = Workload(t)
  BY DEF Workload
<1>4. ASSUME NEW t \in Source
      PROVE  /\ Good(ep'[t], given'[t], Beyond(t)', {}) /\ Parked(ep'[t])
             /\ ep'[t].size = conf'.window /\ DOMAIN ep'[t].class = Workload(t)'
             /\ ep'[t].class = ep[t].class
  <2>1. CASE t = s
    BY <1>2, <1>3, <2>1 DEF EndpointsGood
  <2>2. CASE t # s
    <3>1. Good(ep[t], given[t], Beyond(t), {}) /\ Beyond(t)' \subseteq Beyond(t)
      BY <2>2 DEF EndpointsGood
    <3>2. Good(ep[t], given[t], Beyond(t)', {})
      BY <3>1, GoodLess
    <3> QED
      BY <1>2, <1>3, <2>2, <3>2 DEF EndpointsGood
  <2> QED
    BY <2>1, <2>2
<1>5. EndpointsGood'
  BY <1>4 DEF EndpointsGood
<1>6. Active' = Active
  BY <1>4 DEF Active, HopOf, ClassOf
<1> QED
  BY <1>2, <1>5, <1>6

\* No endpoint moves and none sees a packet more.
LEMMA NoEndpoint ==
    ASSUME FabricTypeOK, EndpointsGood, conf' = conf, ep' = ep, given' = given,
           \A t \in Source : Beyond(t)' \subseteq Beyond(t)
    PROVE  EndpointsGood' /\ Active' = Active
<1>1. ASSUME NEW t \in Source PROVE Good(ep[t], given[t], Beyond(t)', {})
  BY GoodLess DEF EndpointsGood
<1>2. \A t \in Source : Workload(t)' = Workload(t)
  BY DEF Workload
<1> QED
  BY <1>1, <1>2 DEF EndpointsGood, Active, HopOf, ClassOf

\* While the queue stays and no acknowledgement is added, no packet is added beyond
\* an endpoint.
LEMMA BeyondLess ==
    ASSUME port'.voq = port.voq, acks' \subseteq acks, NEW t
    PROVE  Beyond(t)' \subseteq Beyond(t)
  BY DEF Beyond

\* The port as it is.
LEMMA PortStays ==
    ASSUME HeadersKept, ChargesBounded, VoqAccounted, conf' = conf, port' = port,
           Active' = Active
    PROVE  HeadersKept' /\ ChargesBounded' /\ VoqAccounted'
  BY DEF HeadersKept, ChargesBounded, VoqAccounted, Tokens

\* A step of one endpoint that leaves the port alone.
LEMMA EndpointStep ==
    ASSUME IInv, NEW s \in Source, NEW f, NEW h, conf' = conf, port' = port,
           ep' = [ep EXCEPT ![s] = f], given' = [given EXCEPT ![s] = h],
           Good(f, h, Beyond(s), {}), Parked(f),
           f.size = ep[s].size, f.class = ep[s].class,
           acks' \subseteq acks, ctrl' \in [Source -> Seq(Frame)], losses' \in Nat,
           exempt' = exempt
    PROVE  IInv'
<1>1. FabricTypeOK /\ EndpointsGood /\ HeadersKept /\ ChargesBounded /\ VoqAccounted
  BY DEF IInv
<1>2. \A t : Beyond(t)' \subseteq Beyond(t)
  BY BeyondLess
<1>3. Good(f, h, Beyond(s)', {})
  BY <1>2, GoodLess
<1>4. /\ EndpointsGood' /\ Active' = Active
      /\ ep' \in [Source -> Endpoint]
      /\ given' \in [Source -> [bulk : Nat, rdma : Nat]]
  BY <1>1, <1>2, <1>3, OneEndpoint
<1>5. FabricTypeOK'
  BY <1>1, <1>4 DEF FabricTypeOK
<1>6. HeadersKept' /\ ChargesBounded' /\ VoqAccounted'
  BY <1>1, <1>4, PortStays
<1> QED
  BY <1>4, <1>5, <1>6 DEF IInv

\* The state of one endpoint, as the lemmas about endpoints need it.
LEMMA EndpointOf ==
    ASSUME IInv, NEW s \in Source
    PROVE  /\ Good(ep[s], given[s], Beyond(s), {}) /\ Parked(ep[s])
           /\ DOMAIN ep[s].class = Workload(s)
           /\ ep \in [Source -> Endpoint] /\ ep[s] \in Endpoint
           /\ given \in [Source -> [bulk : Nat, rdma : Nat]]
           /\ given[s] \in [bulk : Nat, rdma : Nat]
           /\ ctrl \in [Source -> Seq(Frame)] /\ ctrl[s] \in Seq(Frame)
           /\ conf \in Confs /\ losses \in Nat
  BY DEF IInv, EndpointsGood, FabricTypeOK

\* An acknowledgement arrives, the first or a repeated one.
LEMMA AckStep ==
    ASSUME IInv, NEW s \in Source, NEW p \in Packet, ProcessAckPacket(s, p)
    PROVE  IInv'
<1> DEFINE f == Acknowledged(ep[s], p)
<1>1. /\ <<s, p>> \in acks /\ acks' \subseteq acks
      /\ ep' = [ep EXCEPT ![s] = f]
      /\ conf' = conf /\ given' = given /\ port' = port /\ ctrl' = ctrl /\ losses' = losses
      /\ exempt' = exempt
  BY EndpointOf DEF ProcessAckPacket
<1>2. p \in Beyond(s)
  <2>1. <<s, p>> \in {z \in acks : z[1] = s} /\ <<s, p>>[2] = p
    BY <1>1
  <2> QED
    BY <2>1 DEF Beyond
<1>3. Good(f, given[s], Beyond(s), {}) /\ Parked(f) /\ Kept(ep[s], f)
  BY <1>2, EndpointOf, AckKeeps
<1> HIDE DEF f
<1>4. given' = [given EXCEPT ![s] = given[s]]
  BY <1>1, EndpointOf
<1> QED
  BY <1>1, <1>3, <1>4, EndpointOf, EndpointStep DEF Kept

\* The retry timer of a packet fires.
LEMMA TimeoutStep ==
    ASSUME IInv, NEW s \in Source, NEW p \in Packet, OnLlrRetryTimeout(s, p)
    PROVE  IInv'
<1> DEFINE f == Retried(ep[s], p)
<1>1. /\ ep' = [ep EXCEPT ![s] = f] /\ acks' \subseteq acks
      /\ conf' = conf /\ given' = given /\ port' = port /\ ctrl' = ctrl /\ losses' = losses
      /\ exempt' = exempt
  BY EndpointOf DEF OnLlrRetryTimeout
<1>2. Good(f, given[s], Beyond(s), {}) /\ Parked(f) /\ Kept(ep[s], f)
  BY EndpointOf, RetriedKeeps
<1> HIDE DEF f
<1>3. given' = [given EXCEPT ![s] = given[s]]
  BY <1>1, EndpointOf
<1> QED
  BY <1>1, <1>2, <1>3, EndpointOf, EndpointStep DEF Kept

\* A deferred send reaches the device.
LEMMA DepartedStep ==
    ASSUME IInv, NEW s \in Source, NEW x \in ep[s].pacer, SendDeferredEgressInternal(s, x)
    PROVE  IInv'
<1> DEFINE f == Departed(ep[s], x)
<1>1. /\ ep' = [ep EXCEPT ![s] = f] /\ acks' \subseteq acks
      /\ conf' = conf /\ given' = given /\ port' = port /\ ctrl' = ctrl /\ losses' = losses
      /\ exempt' = exempt
  BY EndpointOf DEF SendDeferredEgressInternal
<1>2. Good(f, given[s], Beyond(s), {}) /\ Parked(f) /\ Kept(ep[s], f)
  BY EndpointOf, DepartedKeeps
<1> HIDE DEF f
<1>3. given' = [given EXCEPT ![s] = given[s]]
  BY <1>1, EndpointOf
<1> QED
  BY <1>1, <1>2, <1>3, EndpointOf, EndpointStep DEF Kept

\* A hold ends by its own timer.
LEMMA ExpiredStep ==
    ASSUME IInv, NEW s \in Source, NEW c, PfcPauseExpired(s, c)
    PROVE  IInv'
<1> DEFINE f == Lifted(ep[s], c)
<1>1. /\ ep' = [ep EXCEPT ![s] = f] /\ acks' \subseteq acks
      /\ conf' = conf /\ given' = given /\ port' = port /\ ctrl' = ctrl /\ losses' = losses
      /\ exempt' = exempt
  BY EndpointOf DEF PfcPauseExpired
<1>2. /\ Good(f, given[s], Beyond(s), {}) /\ Parked(f)
      /\ f.size = ep[s].size /\ f.class = ep[s].class
  BY EndpointOf, LiftedKeeps
<1> HIDE DEF f
<1>3. given' = [given EXCEPT ![s] = given[s]]
  BY <1>1, EndpointOf
<1> QED
  BY <1>1, <1>2, <1>3, EndpointOf, EndpointStep

\* A PAUSE, a RESUME or a NACK is handled.
LEMMA ControlStep ==
    ASSUME IInv, NEW s \in Source, ProcessControl(s)
    PROVE  IInv'
<1> DEFINE frame == Head(ctrl[s])
           q == IF conf.mode = 3 THEN conf.quanta ELSE 0
           f == CASE frame.type = "PAUSE"  -> Paused(ep[s], frame.of, q)
                  [] frame.type = "RESUME" -> Resumed(ep[s], frame.of)
                  [] frame.type = "NACK"   -> Retried(ep[s], frame.of)
<1>1. /\ ctrl[s] # <<>> /\ ctrl' = [ctrl EXCEPT ![s] = Tail(@)]
      /\ ep' = [ep EXCEPT ![s] = f] /\ acks' \subseteq acks
      /\ conf' = conf /\ given' = given /\ port' = port /\ losses' = losses
      /\ exempt' = exempt
  BY EndpointOf DEF ProcessControl
<1>2. ctrl[s] \in Seq(Frame) /\ ctrl \in [Source -> Seq(Frame)]
  BY EndpointOf
<1>3. frame \in Frame /\ Tail(ctrl[s]) \in Seq(Frame)
  BY <1>1, <1>2
<1>4. ctrl' \in [Source -> Seq(Frame)]
  BY <1>1, <1>2, <1>3
<1> HIDE DEF frame, q
<1>5. /\ frame.type \in {"PAUSE", "RESUME", "NACK"}
      /\ frame.type = "PAUSE" => frame.of \in Class
  BY <1>3 DEF Frame
<1>6. /\ Good(f, given[s], Beyond(s), {}) /\ Parked(f)
      /\ f.size = ep[s].size /\ f.class = ep[s].class
  <2>1. CASE frame.type = "PAUSE"
    <3>1. f = Paused(ep[s], frame.of, q)
      BY <2>1
    <3> HIDE DEF f
    <3> QED
      BY <1>5, <2>1, <3>1, EndpointOf, PausedKeeps
  <2>2. CASE frame.type = "RESUME"
    <3>1. f = Resumed(ep[s], frame.of)
      BY <2>2
    <3> HIDE DEF f
    <3> QED
      BY <3>1, EndpointOf, ResumedKeeps
  <2>3. CASE frame.type = "NACK"
    <3>1. f = Retried(ep[s], frame.of)
      BY <2>3
    <3> HIDE DEF f
    <3>2. Good(f, given[s], Beyond(s), {}) /\ Parked(f) /\ Kept(ep[s], f)
      BY <3>1, EndpointOf, RetriedKeeps
    <3> QED
      BY <3>2 DEF Kept
  <2> QED
    BY <1>5, <2>1, <2>2, <2>3
<1> HIDE DEF f
<1>7. given' = [given EXCEPT ![s] = given[s]]
  BY <1>1, EndpointOf
<1> QED
  BY <1>1, <1>4, <1>6, <1>7, EndpointOf, EndpointStep

\* A control frame is lost.
LEMMA LostStep ==
    ASSUME IInv, NEW s \in Source, LoseControl(s)
    PROVE  IInv'
<1> DEFINE f == ep[s]
<1>1. /\ ctrl[s] # <<>> /\ ctrl' = [ctrl EXCEPT ![s] = Tail(@)]
      /\ ep' = [ep EXCEPT ![s] = f] /\ acks' \subseteq acks
      /\ conf' = conf /\ given' = [given EXCEPT ![s] = given[s]]
      /\ port' = port /\ losses' = losses + 1 /\ exempt' = exempt
  BY EndpointOf DEF LoseControl
<1>2. ctrl[s] \in Seq(Frame) /\ ctrl \in [Source -> Seq(Frame)]
  BY EndpointOf
<1>3. Tail(ctrl[s]) \in Seq(Frame)
  BY <1>1, <1>2
<1>4. ctrl' \in [Source -> Seq(Frame)]
  BY <1>1, <1>2, <1>3
<1>5. losses' \in Nat
  BY <1>1, EndpointOf
<1>6. Good(f, given[s], Beyond(s), {}) /\ Parked(f)
  BY EndpointOf
<1> QED
  BY <1>1, <1>4, <1>5, <1>6, EndpointStep

\* The application submits the fragments of a message.
LEMMA SendBulkStep ==
    ASSUME IInv, NEW s \in Source, NEW n \in 1..MaxLoad, SendBulk(s, n)
    PROVE  IInv'
<1> DEFINE g == given[s]
           first == g.bulk + 1
           ps == [i \in 1..n |-> <<"bulk", first + i - 1>>]
           h == [g EXCEPT !.bulk = @ + n]
           e == [ep[s] EXCEPT !.bulk = @ \o ps]
           f == PumpBulkTxWindow(e)
<1>1. /\ first + n - 1 <= Len(conf.bulk[s])
      /\ given' = [given EXCEPT ![s].bulk = @ + n]
      /\ ep' = [ep EXCEPT ![s] = Then(e, PumpBulkTxWindow)]
      /\ conf' = conf /\ port' = port /\ ctrl' = ctrl /\ acks' = acks /\ losses' = losses
      /\ exempt' = exempt
  BY DEF SendBulk
<1>2. /\ n \in Nat /\ MaxLoad \in Nat /\ g \in [bulk : Nat, rdma : Nat]
      /\ conf.bulk[s] \in Seq(Class) /\ Len(conf.bulk[s]) <= MaxLoad
      /\ Len(conf.bulk[s]) \in Nat /\ DOMAIN conf.bulk[s] = 1..Len(conf.bulk[s])
  <2>1. conf \in Confs /\ g \in [bulk : Nat, rdma : Nat]
    BY EndpointOf
  <2>2. MaxLoad \in Nat /\ conf.bulk[s] \in Seq(Class) /\ Len(conf.bulk[s]) <= MaxLoad
    BY <2>1, ConfTypes
  <2> QED
    BY <2>1, <2>2
<1>3. ep' = [ep EXCEPT ![s] = f]
  <2>1. Then(e, PumpBulkTxWindow) = f
    BY ThenApplies
  <2> QED
    BY <1>1, <2>1
<1>4. given' = [given EXCEPT ![s] = h]
  BY <1>1, EndpointOf
<1>5. ASSUME NEW i \in 1..n
      PROVE  /\ first + i - 1 = g.bulk + i /\ g.bulk + i \in 1..Len(conf.bulk[s])
             /\ g.bulk + i \in 1..MaxLoad
  <2> DEFINE b == g.bulk
             l == Len(conf.bulk[s])
  <2>1. b \in Nat /\ l \in Nat /\ l <= MaxLoad /\ b + 1 + n - 1 <= l
    BY <1>1, <1>2
  <2> HIDE DEF b, l
  <2>2. b + 1 + i - 1 = b + i /\ b + i \in 1..l /\ b + i \in 1..MaxLoad
    BY <1>2, <2>1
  <2> QED
    BY <2>2 DEF b, l
<1>6. /\ ps \in Seq(Packet) /\ Len(ps) = n
      /\ \A i \in 1..Len(ps) : ps[i] = <<"bulk", g.bulk + i>>
  <2>1. ps = [i \in 1..n |-> <<"bulk", g.bulk + i>>]
    BY <1>5
  <2>2. \A i \in 1..n : <<"bulk", g.bulk + i>> \in Packet
    BY <1>5 DEF Packet
  <2>3. ps \in [1..n -> Packet]
    BY <2>1, <2>2
  <2>4. ps \in Seq(Packet) /\ Len(ps) = n
    BY <1>2, <2>3
  <2> QED
    BY <2>1, <2>4
<1>7. Given(h) \subseteq DOMAIN ep[s].class
  <2>1. h.bulk = g.bulk + n /\ h.rdma = g.rdma
    BY <1>2
  <2>2. Given(g) \subseteq DOMAIN ep[s].class /\ DOMAIN ep[s].class = Workload(s)
    BY EndpointOf DEF Good, Waiting
  <2>3. \A i \in 1..(g.bulk + n) : i \in DOMAIN conf.bulk[s]
    BY <1>1, <1>2
  <2>4. {<<"bulk", i>> : i \in 1..(g.bulk + n)} \subseteq DOMAIN ep[s].class
    BY <2>2, <2>3 DEF Workload
  <2> QED
    BY <2>1, <2>2, <2>4 DEF Given
<1> HIDE DEF h, ps
<1>8. h = [g EXCEPT !.bulk = @ + Len(ps)]
  BY <1>6 DEF h
<1>9. Good(e, h, Beyond(s), {}) /\ Parked(e) /\ Kept(ep[s], e)
  BY <1>6, <1>7, <1>8, EndpointOf, BulkGiven
<1> HIDE DEF e, g
<1>10. Good(f, h, Beyond(s), {}) /\ Parked(f) /\ Kept(e, f)
  BY <1>9, PumpBulkKeeps
<1> HIDE DEF f
<1>11. f.size = ep[s].size /\ f.class = ep[s].class
  BY <1>9, <1>10 DEF Kept
<1> QED
  BY <1>1, <1>3, <1>4, <1>10, <1>11, EndpointOf, EndpointStep

\* The application submits an RDMA packet.
LEMMA QueueRdmaStep ==
    ASSUME IInv, NEW s \in Source, QueueRdmaOperationPacket(s)
    PROVE  IInv'
<1> DEFINE g == given[s]
           p == <<"rdma", g.rdma + 1>>
           ps == <<p>>
           h == [g EXCEPT !.rdma = @ + 1]
           e == [ep[s] EXCEPT !.rdma = @ \o ps]
           f == PumpRdmaOperationPackets(e)
<1>1. /\ g.rdma < Len(conf.rdma[s])
      /\ given' = [given EXCEPT ![s].rdma = @ + 1]
      /\ ep' = [ep EXCEPT ![s] = Then([ep[s] EXCEPT !.rdma = Append(@, p)],
                                      PumpRdmaOperationPackets)]
      /\ conf' = conf /\ port' = port /\ ctrl' = ctrl /\ acks' = acks /\ losses' = losses
      /\ exempt' = exempt
  BY DEF QueueRdmaOperationPacket
<1>2. /\ MaxLoad \in Nat /\ g \in [bulk : Nat, rdma : Nat]
      /\ conf.rdma[s] \in Seq(Class) /\ Len(conf.rdma[s]) <= MaxLoad
      /\ Len(conf.rdma[s]) \in Nat /\ DOMAIN conf.rdma[s] = 1..Len(conf.rdma[s])
  <2>1. conf \in Confs /\ g \in [bulk : Nat, rdma : Nat]
    BY EndpointOf
  <2>2. MaxLoad \in Nat /\ conf.rdma[s] \in Seq(Class) /\ Len(conf.rdma[s]) <= MaxLoad
    BY <2>1, ConfTypes
  <2> QED
    BY <2>1, <2>2
<1>3. p \in Packet
  BY <1>1, <1>2 DEF Packet
<1>4. ep' = [ep EXCEPT ![s] = f]
  <2>1. Then(e, PumpRdmaOperationPackets) = f
    BY ThenApplies
  <2>2. ep[s] \in Endpoint /\ ep[s].rdma \in Seq(Packet)
    BY EndpointOf, FieldTypes
  <2> HIDE DEF p
  <2>3. Append(ep[s].rdma, p) = ep[s].rdma \o ps
    BY <1>3, <2>2
  <2>4. [ep[s] EXCEPT !.rdma = Append(@, p)] = e
    BY <2>2, <2>3
  <2> DEFINE k == [ep[s] EXCEPT !.rdma = Append(@, p)]
  <2>5. Then(k, PumpRdmaOperationPackets) = f
    BY <2>1, <2>4
  <2> QED
    BY <1>1, <2>5
<1>5. given' = [given EXCEPT ![s] = h]
  BY <1>1, EndpointOf
<1>6. /\ ps \in Seq(Packet) /\ Len(ps) = 1
      /\ \A i \in 1..Len(ps) : ps[i] = <<"rdma", g.rdma + i>>
  <2>1. ps \in Seq(Packet) /\ Len(ps) = 1 /\ ps[1] = p
    BY <1>3
  <2> QED
    BY <2>1
<1>7. Given(h) \subseteq DOMAIN ep[s].class
  <2>1. h.bulk = g.bulk /\ h.rdma = g.rdma + 1
    BY <1>2
  <2>2. Given(g) \subseteq DOMAIN ep[s].class /\ DOMAIN ep[s].class = Workload(s)
    BY EndpointOf DEF Good, Waiting
  <2>3. \A i \in 1..(g.rdma + 1) : i \in DOMAIN conf.rdma[s]
    BY <1>1, <1>2
  <2>4. {<<"rdma", i>> : i \in 1..(g.rdma + 1)} \subseteq DOMAIN ep[s].class
    BY <2>2, <2>3 DEF Workload
  <2> QED
    BY <2>1, <2>2, <2>4 DEF Given
<1> HIDE DEF h, ps
<1>8. h = [g EXCEPT !.rdma = @ + Len(ps)]
  BY <1>6 DEF h
<1>9. Good(e, h, Beyond(s), {}) /\ Parked(e) /\ Kept(ep[s], e)
  BY <1>6, <1>7, <1>8, EndpointOf, RdmaGiven
<1> HIDE DEF e, g
<1>10. Good(f, h, Beyond(s), {}) /\ Parked(f) /\ Kept(e, f)
  BY <1>9, PumpRdmaKeeps
<1> HIDE DEF f
<1>11. f.size = ep[s].size /\ f.class = ep[s].class
  BY <1>9, <1>10 DEF Kept
<1> QED
  BY <1>1, <1>4, <1>5, <1>10, <1>11, EndpointOf, EndpointStep

-----------------------------------------------------------------------------
(* The port.                                                               *)

\* Types of a port's fields.
LEMMA PortFields ==
    ASSUME NEW q \in Port
    PROVE  /\ q.voq \in Seq(Entry) /\ q.latched \subseteq Hop /\ q.used \in [Hop -> Nat]
           /\ q.header \in [Hop -> Header \cup {NoHeader}] /\ q.resends \in [Hop -> Nat]
           /\ Len(q.voq) \in Nat
<1>1. /\ q.voq \in Seq(Entry) /\ q.latched \subseteq Hop /\ q.used \in [Hop -> Nat]
      /\ q.header \in [Hop -> Header \cup {NoHeader}] /\ q.resends \in [Hop -> Nat]
  BY DEF Port
<1> QED
  BY <1>1

\* What Latched changes.
LEMMA LatchedFields ==
    ASSUME NEW q \in Port, NEW hop \in Hop, NEW hd \in Header
    PROVE  LET r == Latched(q, hop, hd)
           IN  /\ r \in Port /\ r.voq = q.voq /\ r.latched = q.latched \cup {hop}
               /\ r.used = [q.used EXCEPT ![hop] = 0]
               /\ r.header = [q.header EXCEPT ![hop] = hd]
               /\ r.resends = [q.resends EXCEPT ![hop] = 0]
<1> DEFINE u == [q.used EXCEPT ![hop] = 0]
           d == [q.header EXCEPT ![hop] = hd]
           n == [q.resends EXCEPT ![hop] = 0]
           l == q.latched \cup {hop}
           r == Latched(q, hop, hd)
<1>1. r = [q EXCEPT !.latched = l, !.used = u, !.header = d, !.resends = n]
  BY DEF Latched, Port
<1>2. /\ u \in [Hop -> Nat] /\ d \in [Hop -> Header \cup {NoHeader}] /\ n \in [Hop -> Nat]
      /\ l \in SUBSET Hop
  BY PortFields
<1> HIDE DEF u, d, n, l, r
<1>3. r \in Port /\ r.voq = q.voq /\ r.latched = l /\ r.used = u /\ r.header = d /\ r.resends = n
  BY <1>1, <1>2 DEF Port
<1> QED
  BY <1>3 DEF u, d, n, l, r

\* What Unlatched changes.
LEMMA UnlatchedFields ==
    ASSUME NEW q \in Port, NEW hop \in Hop
    PROVE  LET r == Unlatched(q, hop)
           IN  /\ r \in Port /\ r.voq = q.voq /\ r.latched = q.latched \ {hop}
               /\ r.used = [q.used EXCEPT ![hop] = 0] /\ r.header = q.header
               /\ r.resends = [q.resends EXCEPT ![hop] = ResendLimit]
<1> DEFINE u == [q.used EXCEPT ![hop] = 0]
           n == [q.resends EXCEPT ![hop] = ResendLimit]
           l == q.latched \ {hop}
           r == Unlatched(q, hop)
<1>1. r = [q EXCEPT !.latched = l, !.used = u, !.resends = n]
  BY DEF Unlatched, Port
<1>2. u \in [Hop -> Nat] /\ n \in [Hop -> Nat] /\ l \in SUBSET Hop
  BY PortFields, SwitchAssumption
<1> HIDE DEF u, n, l, r
<1>3. /\ r \in Port /\ r.voq = q.voq /\ r.latched = l /\ r.used = u
      /\ r.header = q.header /\ r.resends = n
  BY <1>1, <1>2 DEF Port
<1> QED
  BY <1>3 DEF u, n, l, r

\* What Resent changes.
LEMMA ResentFields ==
    ASSUME NEW q \in Port, NEW hop \in Hop, q.resends[hop] > 0
    PROVE  LET r == Resent(q, hop)
           IN  /\ r \in Port /\ r.voq = q.voq /\ r.latched = q.latched /\ r.used = q.used
               /\ r.resends = [q.resends EXCEPT ![hop] = @ - 1]
               /\ r.header = [q.header EXCEPT ![hop] =
                                IF q.resends[hop] = 1 THEN NoHeader ELSE @]
<1> DEFINE n == [q.resends EXCEPT ![hop] = @ - 1]
           d == [q.header EXCEPT ![hop] = IF q.resends[hop] = 1 THEN NoHeader ELSE @]
           r == Resent(q, hop)
<1>1. r = [q EXCEPT !.resends = n, !.header = d]
  BY DEF Resent, Port
<1>2. q.resends[hop] - 1 \in Nat
  BY PortFields
<1>3. n \in [Hop -> Nat] /\ d \in [Hop -> Header \cup {NoHeader}]
  BY <1>2, PortFields
<1> HIDE DEF n, d, r
<1>4. /\ r \in Port /\ r.voq = q.voq /\ r.latched = q.latched /\ r.used = q.used
      /\ r.header = d /\ r.resends = n
  BY <1>1, <1>3 DEF Port
<1> QED
  BY <1>4 DEF n, d, r

\* The larger of two numbers.
LEMMA MaxOfTwo ==
    ASSUME NEW a \in Int, NEW b \in Int
    PROVE  Max({a, b}) \in {a, b} /\ Max({a, b}) >= a /\ Max({a, b}) >= b
<1>1. \E y \in {a, b} : \A z \in {a, b} : y >= z
  <2>1. CASE a <= b
    BY <2>1
  <2>2. CASE b <= a
    BY <2>2
  <2> QED
    BY <2>1, <2>2
<1> QED
  BY <1>1 DEF Max

\* A share of t that is at most v parts of v.
LEMMA ShareBounded ==
    ASSUME NEW t \in Nat, NEW v \in Nat, v > 0, NEW y \in Nat, y <= v
    PROVE  (t * y) \div v \in Nat /\ (t * y) \div v <= t
<1> DEFINE d == (t * y) \div v
<1>1. t * y \in Nat /\ t * v \in Nat
  OBVIOUS
<1>2. t * y <= t * v
  BY <1>1
<1>3. d \in Nat /\ v * d <= t * y
  BY <1>1
<1> HIDE DEF d
<1>4. ASSUME d > t PROVE FALSE
  <2>1. PICK k \in Nat : d = t + 1 + k
    <3>1. d - t - 1 \in Nat /\ d = t + 1 + (d - t - 1)
      BY <1>3, <1>4
    <3> QED
      BY <3>1
  <2>2. v * d = v * t + v + v * k
    BY <1>3, <2>1
  <2>3. v * k \in Nat /\ v * t = t * v
    BY <2>1
  <2> QED
    BY <1>1, <1>2, <1>3, <2>2, <2>3
<1> QED
  BY <1>3, <1>4 DEF d

\* EffectivePfcPauseThreshold never exceeds the configured threshold.
LEMMA ThresholdBounded ==
    ASSUME NEW q \in Port, NEW mode
    PROVE  /\ EffectivePfcPauseThreshold(q, mode) \in Nat
           /\ EffectivePfcPauseThreshold(q, mode) <= PauseThreshold
<1>1. /\ VoqDepth \in Nat /\ VoqDepth > 0 /\ PauseThreshold \in Nat /\ PauseThreshold > 0
      /\ Len(q.voq) \in Nat
  BY SwitchAssumption, PortFields
<1> DEFINE room == VoqDepth - Len(q.voq)
           free == Max({0, room})
           share == (PauseThreshold * free) \div VoqDepth
           top == Max({1, share})
<1>2. room \in Int /\ room <= VoqDepth
  BY <1>1
<1> HIDE DEF room
<1>3. free \in Nat /\ free <= VoqDepth
  <2>1. free \in {0, room} /\ free >= 0 /\ free >= room
    BY <1>2, MaxOfTwo
  <2> HIDE DEF free
  <2> QED
    BY <1>1, <1>2, <2>1
<1> HIDE DEF free
<1>4. share \in Nat /\ share <= PauseThreshold
  BY <1>1, <1>3, ShareBounded
<1> HIDE DEF share
<1>5. top \in Nat /\ top <= PauseThreshold
  <2>1. top \in {1, share} /\ top >= 1 /\ top >= share
    BY <1>4, MaxOfTwo
  <2> HIDE DEF top
  <2> QED
    BY <1>1, <1>4, <2>1
<1>6. EffectivePfcPauseThreshold(q, mode) = IF mode = 2 THEN top ELSE PauseThreshold
  BY DEF EffectivePfcPauseThreshold, top, share, free, room
<1> HIDE DEF top
<1> QED
  BY <1>1, <1>5, <1>6

\* There are finitely many hops and finitely many tokens.
LEMMA TokensFinite ==
    /\ IsFiniteSet(Hop) /\ IsFiniteSet(Hop \X (0..Headroom))
    /\ Cardinality(Hop) \in Nat
<1>1. Headroom \in Nat
  BY SwitchAssumption
<1>2. IsFiniteSet(Hop)
  BY FabricAssumption, FS_Product DEF Hop
<1>3. IsFiniteSet(0..Headroom)
  BY <1>1, FS_Interval
<1> QED
  BY <1>2, <1>3, FS_Product, FS_CardinalityType

\* The tokens can be counted, before a step.
LEMMA TokensCounted == Cardinality(Tokens) \in Nat /\ IsFiniteSet(Tokens)
<1>1. Tokens \subseteq Hop \X (0..Headroom)
  BY DEF Tokens
<1>2. IsFiniteSet(Tokens)
  BY <1>1, TokensFinite, FS_Subset
<1> QED
  BY <1>2, FS_CardinalityType

\* The tokens can be counted, after a step.
LEMMA TokensCountedNext == Cardinality(Tokens)' \in Nat /\ IsFiniteSet(Tokens')
<1>1. Tokens' \subseteq Hop \X (0..Headroom)
  BY DEF Tokens
<1>2. IsFiniteSet(Tokens')
  BY <1>1, TokensFinite, FS_Subset
<1> QED
  BY <1>2, FS_CardinalityType

\* What an entry of the queue is.
LEMMA EntryKinds ==
    ASSUME NEW x \in Entry, IsData(x)
    PROVE  x.src \in Source /\ x.packet \in Packet
<1>1. CASE x \in [src : Source, packet : Packet, hop : Hop]
  BY <1>1
<1>2. CASE x \in {ExemptEntry(h) : h \in Hop}
  <2>1. x.packet[1] = "exempt"
    BY <1>2 DEF ExemptEntry, DataEntry
  <2> QED
    BY <2>1 DEF IsData
<1> QED
  BY <1>1, <1>2 DEF Entry

\* The entries of the two kinds.
LEMMA EntryMade ==
    ASSUME NEW s \in Source, NEW p \in Packet, NEW hop \in Hop
    PROVE  /\ DataEntry(s, p, hop) \in Entry /\ IsData(DataEntry(s, p, hop))
           /\ DataEntry(s, p, hop).src = s /\ DataEntry(s, p, hop).packet = p
<1>1. p[1] # "exempt"
  BY DEF Packet
<1> QED
  BY <1>1 DEF DataEntry, IsData, Entry

\* The data packets in a queue are counted by their positions.
LEMMA DataCounted ==
    ASSUME NEW T, NEW v \in Seq(T)
    PROVE  /\ IsFiniteSet({i \in DOMAIN v : IsData(v[i])})
           /\ DataLen(v) \in Nat /\ DataLen(v) <= Len(v)
<1> DEFINE D == {i \in DOMAIN v : IsData(v[i])}
<1>1. Len(v) \in Nat /\ DOMAIN v = 1..Len(v)
  OBVIOUS
<1>2. D \in SUBSET (1..Len(v))
  BY <1>1
<1> HIDE DEF D
<1>3. IsFiniteSet(1..Len(v)) /\ Cardinality(1..Len(v)) = Len(v)
  <2> DEFINE n == Len(v)
  <2>1. n \in Nat
    BY <1>1
  <2> HIDE DEF n
  <2>2. IsFiniteSet(1..n) /\ Cardinality(1..n) = n
    BY <2>1, FS_Interval
  <2> QED
    BY <2>2 DEF n
<1>4. IsFiniteSet(D) /\ Cardinality(D) <= Len(v) /\ Cardinality(D) \in Nat
  BY <1>2, <1>3, FS_Subset, FS_CardinalityType
<1> QED
  BY <1>4 DEF DataLen, D

\* An entry at the end counts at most once, an exempt one not at all.
LEMMA DataAppended ==
    ASSUME NEW T, NEW v \in Seq(T), NEW x \in T
    PROVE  /\ DataLen(Append(v, x)) <= DataLen(v) + 1
           /\ ~IsData(x) => DataLen(Append(v, x)) = DataLen(v)
<1> DEFINE D == {i \in DOMAIN v : IsData(v[i])}
           w == Append(v, x)
           E == {i \in DOMAIN w : IsData(w[i])}
           n == Len(v) + 1
<1>1. /\ Len(v) \in Nat /\ DOMAIN v = 1..Len(v) /\ DOMAIN w = 1..n
      /\ \A i \in DOMAIN v : w[i] = v[i]
      /\ w[n] = x /\ n \notin DOMAIN v /\ DOMAIN w = DOMAIN v \cup {n}
  OBVIOUS
<1>2. IsFiniteSet(D) /\ Cardinality(D) = DataLen(v) /\ DataLen(v) \in Nat
  BY DataCounted DEF DataLen
<1>3. Cardinality(E) = DataLen(w)
  BY DEF DataLen
<1> HIDE DEF w, n
<1>4. CASE IsData(x)
  <2>1. E = D \cup {n} /\ n \notin D
    BY <1>1, <1>4
  <2> HIDE DEF D, E
  <2>2. Cardinality(E) = Cardinality(D) + 1
    BY <1>2, <2>1, FS_AddElement
  <2> QED
    BY <1>2, <1>3, <1>4, <2>2 DEF w
<1>5. CASE ~IsData(x)
  <2>1. E = D
    BY <1>1, <1>5
  <2> HIDE DEF D, E
  <2> QED
    BY <1>2, <1>3, <2>1 DEF w
<1> QED
  BY <1>4, <1>5

\* What leaves the queue adds nothing.
LEMMA DataTail ==
    ASSUME NEW T, NEW v \in Seq(T), v # <<>>
    PROVE  DataLen(Tail(v)) <= DataLen(v)
<1> DEFINE D == {i \in DOMAIN v : IsData(v[i])}
           w == Tail(v)
           E == {i \in DOMAIN w : IsData(w[i])}
           next == [i \in E |-> i + 1]
<1>1. /\ w \in Seq(T)
      /\ \A i \in DOMAIN w : i \in Nat /\ i + 1 \in DOMAIN v /\ w[i] = v[i + 1]
  OBVIOUS
<1>2. IsFiniteSet(D) /\ Cardinality(D) = DataLen(v) /\ Cardinality(E) = DataLen(w)
  BY DataCounted DEF DataLen
<1> HIDE DEF w
<1>3. next \in [E -> D]
  BY <1>1
<1>4. \A i, j \in E : next[i] = next[j] => i = j
  BY <1>1
<1> HIDE DEF D, E, next
<1>5. next \in Injection(E, D)
  BY <1>3, <1>4 DEF Injection, IsInjective
<1>6. Cardinality(E) <= Cardinality(D)
  BY <1>2, <1>5, FS_Injection
<1> QED
  BY <1>2, <1>6 DEF w

\* The types and the parts of the invariant a step of the switch needs.
LEMMA PortOf ==
    ASSUME IInv
    PROVE  /\ FabricTypeOK /\ EndpointsGood /\ HeadersKept /\ ChargesBounded /\ VoqAccounted
           /\ port \in Port /\ Len(port.voq) \in Nat /\ port.voq \in Seq(Entry)
           /\ port.latched \subseteq Hop /\ port.used \in [Hop -> Nat]
           /\ port.header \in [Hop -> Header \cup {NoHeader}] /\ port.resends \in [Hop -> Nat]
           /\ ctrl \in [Source -> Seq(Frame)] /\ conf \in Confs
           /\ DataLen(port.voq) \in Nat /\ DataLen(port.voq) <= Len(port.voq)
<1>1. /\ FabricTypeOK /\ EndpointsGood /\ HeadersKept /\ ChargesBounded /\ VoqAccounted
      /\ port \in Port /\ ctrl \in [Source -> Seq(Frame)] /\ conf \in Confs
  BY DEF IInv, FabricTypeOK
<1>2. /\ Len(port.voq) \in Nat /\ port.voq \in Seq(Entry)
      /\ port.latched \subseteq Hop /\ port.used \in [Hop -> Nat]
      /\ port.header \in [Hop -> Header \cup {NoHeader}] /\ port.resends \in [Hop -> Nat]
  BY <1>1, PortFields
<1>3. DataLen(port.voq) \in Nat /\ DataLen(port.voq) <= Len(port.voq)
  BY <1>2, DataCounted
<1> QED
  BY <1>1, <1>2, <1>3

\* A frame is sent to the source of a hop's pause.
LEMMA FrameSent ==
    ASSUME IInv, NEW hop \in Hop, port.header[hop] \in Header, NEW type \in {"PAUSE", "RESUME"},
           ctrl' = [ctrl EXCEPT ![port.header[hop].src] =
                      Append(@, [type |-> type, of |-> port.header[hop].class])]
    PROVE  ctrl' \in [Source -> Seq(Frame)]
<1> DEFINE s == port.header[hop].src
           fr == [type |-> type, of |-> port.header[hop].class]
<1>1. s \in Source /\ fr \in Frame
  BY DEF Header, Frame
<1>2. ctrl' = [ctrl EXCEPT ![s] = Append(ctrl[s], fr)]
  BY PortOf
<1> HIDE DEF s, fr
<1>3. ctrl[s] \in Seq(Frame)
  BY <1>1, PortOf
<1>4. Append(ctrl[s], fr) \in Seq(Frame)
  BY <1>1, <1>3
<1> QED
  BY <1>2, <1>4, PortOf

\* A step of the port that leaves its queue alone.
LEMMA PortStep ==
    ASSUME IInv, conf' = conf, given' = given, ep' = ep, acks' = acks, losses' = losses,
           exempt' = exempt,
           port' \in Port, port'.voq = port.voq, port'.latched \subseteq port.latched,
           \A h \in Hop : port'.used[h] \in {port.used[h], 0},
           ctrl' \in [Source -> Seq(Frame)],
           HeadersKept',
           conf.mode \in {1, 2} /\ Headroom > 0 /\ ~conf.perVc =>
              \/ port'.latched = port.latched /\ port'.used = port.used
              \/ Len(port.voq) <= PauseThreshold
    PROVE  IInv'
<1>1. EndpointsGood' /\ Active' = Active
  <2>1. \A t : Beyond(t)' \subseteq Beyond(t)
    BY BeyondLess
  <2> QED
    BY <2>1, PortOf, NoEndpoint
<1>2. FabricTypeOK'
  BY PortOf DEF FabricTypeOK
<1>3. ChargesBounded'
  <2>1. Headroom \in Nat
    BY SwitchAssumption
  <2>2. port'.latched \subseteq Active'
    BY <1>1, PortOf DEF ChargesBounded
  <2>3. ASSUME NEW h \in Hop PROVE port'.used[h] <= Headroom
    <3>1. port.used[h] <= Headroom /\ port'.used[h] \in {port.used[h], 0}
      BY PortOf DEF ChargesBounded
    <3> QED
      BY <2>1, <3>1
  <2> QED
    BY <2>2, <2>3 DEF ChargesBounded
<1>4. VoqAccounted'
  <2>1. SUFFICES ASSUME conf.mode \in {1, 2} /\ Headroom > 0 /\ ~conf.perVc
                 PROVE  DataLen(port.voq) <= PauseThreshold + Cardinality(Tokens')
    BY DEF VoqAccounted
  <2>2. CASE port'.latched = port.latched /\ port'.used = port.used
    <3>1. Tokens' = Tokens
      BY <2>2 DEF Tokens
    <3> QED
      BY <2>1, <3>1, PortOf DEF VoqAccounted
  <2>3. CASE Len(port.voq) <= PauseThreshold
    <3>1. /\ Cardinality(Tokens') \in Nat /\ PauseThreshold \in Nat /\ Len(port.voq) \in Nat
          /\ DataLen(port.voq) \in Nat /\ DataLen(port.voq) <= Len(port.voq)
      BY TokensCountedNext, SwitchAssumption, PortOf
    <3> QED
      BY <2>3, <3>1
  <2> QED
    BY <2>1, <2>2, <2>3
<1> QED
  BY <1>1, <1>2, <1>3, <1>4 DEF IInv

\* A latch is lifted and the source of the pause resumed.
LEMMA ResumeStep ==
    ASSUME IInv, NEW hop \in Hop, hop \in port.latched, SendResume(hop),
           conf' = conf, given' = given, ep' = ep, acks' = acks, losses' = losses,
           exempt' = exempt,
           conf.mode \in {1, 2} /\ ~conf.perVc => Len(port.voq) <= PauseThreshold
    PROVE  IInv'
<1>1. port.header[hop] \in Header
  BY PortOf DEF HeadersKept
<1>2. ctrl' \in [Source -> Seq(Frame)]
  BY <1>1, FrameSent DEF SendResume, Resume
<1>3. /\ port' \in Port /\ port'.voq = port.voq /\ port'.latched = port.latched \ {hop}
      /\ port'.used = [port.used EXCEPT ![hop] = 0] /\ port'.header = port.header
      /\ port'.resends = [port.resends EXCEPT ![hop] = ResendLimit]
  BY PortOf, UnlatchedFields DEF SendResume
<1>4. HeadersKept'
  BY <1>1, <1>3, PortOf DEF HeadersKept
<1>5. \A h \in Hop : port'.used[h] \in {port.used[h], 0}
  BY <1>3, PortOf
<1> QED
  BY <1>2, <1>3, <1>4, <1>5, PortStep

\* The poll of modes 1 and 2: a hop is resumed only below the threshold, so the
\* tokens it gives up are not needed.
LEMMA CheckPfcResumeStep ==
    ASSUME IInv, NEW hop \in Hop, CheckPfcResume(hop)
    PROVE  IInv'
<1> DEFINE eff == EffectivePfcPauseThreshold(port, conf.mode)
           gap == eff - ResumeOffset
           level == Max({0, gap})
<1>1. eff \in Nat /\ eff <= PauseThreshold /\ ResumeOffset \in Nat /\ PauseThreshold \in Nat
  BY PortOf, ThresholdBounded, SwitchAssumption
<1>2. level = ResumeLevel(port, conf.mode)
  BY DEF ResumeLevel
<1> HIDE DEF eff
<1>3. gap \in Int /\ gap <= PauseThreshold
  BY <1>1
<1> HIDE DEF gap
<1>4. level \in Int /\ level <= PauseThreshold
  <2>1. level \in {0, gap} /\ level >= 0
    BY <1>3, MaxOfTwo
  <2> HIDE DEF level
  <2> QED
    BY <1>1, <1>3, <2>1
<1> HIDE DEF level
<1>5. ~conf.perVc => Len(port.voq) <= PauseThreshold
  <2>1. ~conf.perVc => ~(Len(port.voq) > level)
    BY <1>2 DEF CheckPfcResume, Congested, Depth
  <2> QED
    BY <1>1, <1>4, <2>1, PortOf
<1> QED
  BY <1>5, ResumeStep DEF CheckPfcResume

\* The poll of mode 3, which pauses again or resumes.
LEMMA RecheckPfcPauseStep ==
    ASSUME IInv, NEW hop \in Hop, RecheckPfcPause(hop)
    PROVE  IInv'
<1>1. /\ conf.mode = 3 /\ hop \in port.latched
      /\ conf' = conf /\ given' = given /\ ep' = ep /\ acks' = acks /\ losses' = losses
      /\ exempt' = exempt
  BY DEF RecheckPfcPause
<1>2. CASE Congested(port, conf.mode, conf.perVc, hop)
  <2>1. port.header[hop] \in Header
    BY <1>1, PortOf DEF HeadersKept
  <2>2. ctrl' \in [Source -> Seq(Frame)]
    BY <1>2, <2>1, FrameSent DEF RecheckPfcPause, Pause
  <2> DEFINE u == [port.used EXCEPT ![hop] = 0]
  <2>3. port' = [port EXCEPT !.used = u]
    BY <1>2, PortOf DEF RecheckPfcPause, Port
  <2>4. u \in [Hop -> Nat] /\ \A h \in Hop : u[h] \in {port.used[h], 0}
    BY PortOf
  <2> HIDE DEF u
  <2>5. /\ port' \in Port /\ port'.voq = port.voq /\ port'.latched = port.latched
        /\ port'.used = u /\ port'.header = port.header /\ port'.resends = port.resends
    BY <2>3, <2>4, PortOf DEF Port
  <2>6. HeadersKept'
    BY <2>5, PortOf DEF HeadersKept
  <2> QED
    BY <1>1, <2>2, <2>4, <2>5, <2>6, PortStep
<1>3. CASE ~Congested(port, conf.mode, conf.perVc, hop)
  <2>1. SendResume(hop)
    BY <1>3 DEF RecheckPfcPause
  <2> QED
    BY <1>1, <2>1, ResumeStep
<1> QED
  BY <1>2, <1>3

\* A RESUME is sent again; the header stays as long as it is needed.
LEMMA ResendPfcResumeStep ==
    ASSUME IInv, NEW hop \in Hop, ResendPfcResume(hop)
    PROVE  IInv'
<1>1. /\ port.resends[hop] > 0 /\ port' = Resent(port, hop)
      /\ conf' = conf /\ given' = given /\ ep' = ep /\ acks' = acks /\ losses' = losses
      /\ exempt' = exempt
  BY DEF ResendPfcResume
<1>2. port.header[hop] \in Header
  BY <1>1, PortOf DEF HeadersKept
<1>3. ctrl' \in [Source -> Seq(Frame)]
  BY <1>2, FrameSent DEF ResendPfcResume, Resume
<1>4. /\ port' \in Port /\ port'.voq = port.voq /\ port'.latched = port.latched
      /\ port'.used = port.used /\ port'.resends = [port.resends EXCEPT ![hop] = @ - 1]
      /\ port'.header = [port.header EXCEPT ![hop] =
                           IF port.resends[hop] = 1 THEN NoHeader ELSE @]
  BY <1>1, PortOf, ResentFields
<1>5. hop \notin port.latched
  <2>1. port.resends[hop] # 0
    BY <1>1, PortOf
  <2> QED
    BY <2>1, PortOf DEF HeadersKept
<1>6. HeadersKept'
  <2>1. SUFFICES ASSUME NEW h \in Hop
                 PROVE  /\ h \in port'.latched \/ port'.resends[h] > 0 => port'.header[h] \in Header
                        /\ h \in port'.latched => port'.resends[h] = 0
    BY DEF HeadersKept
  <2>2. CASE h = hop
    <3>1. port'.resends[h] = port.resends[hop] - 1 /\ port.resends[hop] \in Nat
      BY <1>4, <2>2, PortOf
    <3>2. port.resends[hop] # 1 => port'.header[h] = port.header[hop]
      BY <1>4, <2>2, PortOf
    <3>3. port.resends[hop] = 1 => ~(port'.resends[h] > 0)
      BY <3>1
    <3> QED
      BY <1>2, <1>4, <1>5, <2>2, <3>2, <3>3
  <2>3. CASE h # hop
    <3>1. port'.resends[h] = port.resends[h] /\ port'.header[h] = port.header[h]
      BY <1>4, <2>3, PortOf
    <3> QED
      BY <1>4, <3>1, PortOf DEF HeadersKept
  <2> QED
    BY <2>2, <2>3
<1> QED
  BY <1>1, <1>3, <1>4, <1>6, PortStep

\* The packet leaves the queue for its destination.
LEMMA ForwardStep ==
    ASSUME IInv, Forward
    PROVE  IInv'
<1> DEFINE w == Tail(port.voq)
           x == Head(port.voq)
           new == {<<y.src, y.packet>> : y \in {z \in {x} : IsData(z)}}
<1>1. /\ port.voq # <<>> /\ acks' = acks \cup new
      /\ conf' = conf /\ given' = given /\ ep' = ep /\ ctrl' = ctrl /\ losses' = losses
      /\ exempt' = exempt
      /\ port' = [port EXCEPT !.voq = w]
  BY PortOf DEF Forward, Port
<1>2. /\ w \in Seq(Entry) /\ x \in Entry /\ x = port.voq[1] /\ 1 \in DOMAIN port.voq
      /\ \A i \in DOMAIN w : i + 1 \in DOMAIN port.voq /\ w[i] = port.voq[i + 1]
  BY <1>1, PortOf
<1>0. DataLen(w) \in Nat /\ DataLen(w) <= DataLen(port.voq)
  BY <1>1, <1>2, PortOf, DataCounted, DataTail
<1> HIDE DEF w, x
<1>10. \A y \in new : IsData(x) /\ y = <<x.src, x.packet>>
  OBVIOUS
<1> HIDE DEF new
<1>3. /\ port' \in Port /\ port'.voq = w /\ port'.latched = port.latched
      /\ port'.used = port.used /\ port'.header = port.header /\ port'.resends = port.resends
  BY <1>1, <1>2, PortOf DEF Port
<1>4. acks' \in SUBSET (Source \X Packet)
  <2>1. acks \in SUBSET (Source \X Packet)
    BY PortOf DEF FabricTypeOK
  <2>2. IsData(x) => x.src \in Source /\ x.packet \in Packet
    BY <1>2, EntryKinds
  <2> QED
    BY <1>1, <1>10, <2>1, <2>2
<1>5. ASSUME NEW t \in Source PROVE Beyond(t)' \subseteq Beyond(t)
  <2>1. SUFFICES ASSUME NEW p \in Beyond(t)' PROVE p \in Beyond(t)
    OBVIOUS
  <2>2. CASE p \in {y[2] : y \in {z \in acks' : z[1] = t}}
    <3>1. PICK y \in acks' : y[1] = t /\ p = y[2]
      BY <2>2
    <3>2. CASE y \in acks
      BY <3>1, <3>2 DEF Beyond
    <3>3. CASE IsData(x) /\ y = <<x.src, x.packet>>
      <4>1. /\ 1 \in {j \in DOMAIN port.voq : IsData(port.voq[j]) /\ port.voq[j].src = t}
            /\ p = port.voq[1].packet
        BY <1>2, <3>1, <3>3
      <4> QED
        BY <4>1 DEF Beyond
    <3> QED
      BY <1>1, <1>10, <3>2, <3>3
  <2>3. CASE p \in {w[i].packet : i \in {j \in DOMAIN w : IsData(w[j]) /\ w[j].src = t}}
    <3>1. PICK i \in DOMAIN w : IsData(w[i]) /\ w[i].src = t /\ p = w[i].packet
      BY <2>3
    <3>2. /\ i + 1 \in {j \in DOMAIN port.voq : IsData(port.voq[j]) /\ port.voq[j].src = t}
          /\ p = port.voq[i + 1].packet
      BY <1>2, <3>1
    <3> QED
      BY <3>2 DEF Beyond
  <2> QED
    BY <1>3, <2>1, <2>2, <2>3 DEF Beyond
<1>6. EndpointsGood' /\ Active' = Active
  BY <1>1, <1>5, PortOf, NoEndpoint
<1>7. FabricTypeOK'
  BY <1>1, <1>3, <1>4, PortOf DEF FabricTypeOK
<1>8. HeadersKept' /\ ChargesBounded'
  BY <1>3, <1>6, PortOf DEF HeadersKept, ChargesBounded
<1>9. VoqAccounted'
  <2>1. Tokens' = Tokens
    BY <1>3 DEF Tokens
  <2>2. /\ Cardinality(Tokens) \in Nat /\ PauseThreshold \in Nat
        /\ DataLen(port.voq) \in Nat /\ DataLen(w) \in Nat /\ DataLen(w) <= DataLen(port.voq)
    BY <1>0, TokensCounted, SwitchAssumption, PortOf
  <2>3. conf.mode \in {1, 2} /\ Headroom > 0 /\ ~conf.perVc =>
            DataLen(port.voq) <= PauseThreshold + Cardinality(Tokens)
    BY PortOf DEF VoqAccounted
  <2>4. conf.mode \in {1, 2} /\ Headroom > 0 /\ ~conf.perVc =>
            DataLen(w) <= PauseThreshold + Cardinality(Tokens)
    BY <2>2, <2>3
  <2> QED
    BY <1>1, <1>3, <2>1, <2>4 DEF VoqAccounted
<1> QED
  BY <1>6, <1>7, <1>8, <1>9 DEF IInv

\* The packet at the head of an endpoint's wire, its class and its hop.
LEMMA Arriving ==
    ASSUME IInv, NEW s \in Source, ep[s].wire # <<>>
    PROVE  LET p == Head(ep[s].wire)
           IN  /\ p \in Packet /\ ClassOf(s, p) \in Class
               /\ HopOf(s, p) \in Hop /\ HopOf(s, p) \in Active
<1> DEFINE e == ep[s]
           g == given[s]
           p == Head(e.wire)
<1>1. /\ Good(e, g, Beyond(s), {}) /\ e \in Endpoint /\ g \in [bulk : Nat, rdma : Nat]
      /\ conf \in Confs
  BY EndpointOf
<1>2. /\ e.wire \in Seq(Packet) /\ e.bulk \in Seq(Packet) /\ e.rdma \in Seq(Packet)
  BY <1>1, FieldTypes
<1>3. p \in Packet /\ 1 \in DOMAIN e.wire /\ p = e.wire[1]
  BY <1>2
<1>4. Len(e.bulk) \in Nat /\ Len(e.rdma) \in Nat /\ g.bulk \in Nat /\ g.rdma \in Nat
  BY <1>1, <1>2
<1>5. e.class \in UNION {[S -> Class] : S \in SUBSET Packet}
  BY <1>1 DEF Endpoint
<1> HIDE DEF e, g, p
<1>6. p \in Taken(e, g)
  BY <1>1, <1>3 DEF Good, Apart, Sent, Underway, ToSet
<1>7. Taken(e, g) \subseteq Given(g)
  BY <1>4 DEF Taken, Given
<1>8. p \in DOMAIN e.class
  BY <1>1, <1>6, <1>7 DEF Good, Waiting
<1>9. e.class[p] \in Class
  <2>1. PICK S \in SUBSET Packet : e.class \in [S -> Class]
    BY <1>5
  <2> QED
    BY <1>8, <2>1
<1>10. conf.ingress[s] \in InPort
  BY <1>1, ConfTypes
<1>11. HopOf(s, p) \in Hop
  BY <1>9, <1>10 DEF HopOf, ClassOf, Hop, Class, e
<1>12. HopOf(s, p) \in Active
  <2>1. <<s, p>> \in {y \in Source \X Packet : y[2] \in DOMAIN ep[y[1]].class}
    BY <1>3, <1>8 DEF e
  <2> QED
    BY <2>1 DEF Active
<1> QED
  BY <1>3, <1>9, <1>11, <1>12 DEF ClassOf, e, p

\* The endpoints when a packet reaches the switch.
LEMMA ArrivalKeeps ==
    ASSUME IInv, NEW s \in Source, ep[s].wire # <<>>,
           ep' = [ep EXCEPT ![s].wire = Tail(@)],
           conf' = conf, given' = given, acks' = acks,
           NEW x \in Entry, x.src = s, x.packet = Head(ep[s].wire),
           port'.voq \in {port.voq, Append(port.voq, x)}
    PROVE  /\ EndpointsGood' /\ Active' = Active
           /\ ep' \in [Source -> Endpoint]
           /\ given' \in [Source -> [bulk : Nat, rdma : Nat]]
<1> DEFINE e == ep[s]
           w == Tail(e.wire)
           f == [e EXCEPT !.wire = w]
           p == Head(e.wire)
<1>1. ep' = [ep EXCEPT ![s] = f]
  BY EndpointOf DEF Endpoint
<1>2. given' = [given EXCEPT ![s] = given[s]]
  BY EndpointOf
<1>3. ASSUME NEW t \in Source
      PROVE  Beyond(t)' \subseteq Beyond(t) \cup (IF t = s THEN {p} ELSE {})
  <2>1. SUFFICES ASSUME NEW q \in Beyond(t)', q \notin Beyond(t) PROVE t = s /\ q = p
    OBVIOUS
  <2>2. PICK i \in DOMAIN port'.voq :
           IsData(port'.voq[i]) /\ port'.voq[i].src = t /\ q = port'.voq[i].packet
    BY <2>1 DEF Beyond
  <2>3. port'.voq # port.voq
    BY <2>1, <2>2 DEF Beyond
  <2>4. port'.voq = Append(port.voq, x)
    BY <2>3
  <2>5. (i \in DOMAIN port.voq /\ port'.voq[i] = port.voq[i]) \/ port'.voq[i] = x
    BY <2>2, <2>4, PortOf
  <2>6. ~(i \in DOMAIN port.voq /\ port'.voq[i] = port.voq[i])
    BY <2>1, <2>2 DEF Beyond
  <2> QED
    BY <2>2, <2>5, <2>6
<1>4. Good(e, given[s], Beyond(s), {}) /\ Parked(e) /\ e.wire # <<>>
  BY EndpointOf
<1>5. Beyond(s)' \subseteq Beyond(s) \cup {p}
  BY <1>3
<1>6. [e EXCEPT !.wire = Tail(@)] = f
  BY <1>4
<1>7. Good(f, given[s], Beyond(s)', {}) /\ Parked(f) /\ Kept(e, f)
  BY <1>4, <1>5, <1>6, WireMoves
<1>8. \A t \in Source : t # s => Beyond(t)' \subseteq Beyond(t)
  BY <1>3
<1> HIDE DEF f
<1>9. f.size = ep[s].size /\ f.class = ep[s].class
  BY <1>7 DEF Kept
<1> QED
  BY <1>1, <1>2, <1>7, <1>8, <1>9, PortOf, OneEndpoint

\* A token more.
LEMMA TokenAdded ==
    ASSUME NEW t, t \notin Tokens, t \in Tokens', Tokens \subseteq Tokens'
    PROVE  Cardinality(Tokens') >= Cardinality(Tokens) + 1
<1>1. Cardinality(Tokens \cup {t}) = Cardinality(Tokens) + 1
  BY TokensCounted, FS_AddElement
<1>2. Tokens \cup {t} \in SUBSET Tokens'
  OBVIOUS
<1>3. Cardinality(Tokens \cup {t}) <= Cardinality(Tokens')
  BY <1>2, TokensCountedNext, FS_Subset
<1> QED
  BY <1>1, <1>3, TokensCounted, TokensCountedNext

\* A pause accounts for the packet that caused it.
LEMMA PortLatches ==
    ASSUME IInv, Active' = Active, NEW hop \in Hop, hop \in Active, hop \notin port.latched,
           NEW hd \in Header, port'.latched = port.latched \cup {hop},
           port'.used = [port.used EXCEPT ![hop] = 0],
           port'.header = [port.header EXCEPT ![hop] = hd],
           port'.resends = [port.resends EXCEPT ![hop] = 0]
    PROVE  /\ HeadersKept' /\ ChargesBounded'
           /\ Cardinality(Tokens') >= Cardinality(Tokens) + 1
<1>1. /\ port.used \in [Hop -> Nat] /\ port.header \in [Hop -> Header \cup {NoHeader}]
      /\ port.resends \in [Hop -> Nat] /\ HeadersKept /\ ChargesBounded
      /\ port.latched \subseteq Hop
  BY PortOf
<1>2. Headroom \in Nat
  BY SwitchAssumption
<1>3. ASSUME NEW h \in Hop
      PROVE  /\ port'.used[h] = IF h = hop THEN 0 ELSE port.used[h]
             /\ port'.header[h] = IF h = hop THEN hd ELSE port.header[h]
             /\ port'.resends[h] = IF h = hop THEN 0 ELSE port.resends[h]
  BY <1>1
<1>4. HeadersKept'
  BY <1>1, <1>3 DEF HeadersKept
<1>5. ChargesBounded'
  BY <1>1, <1>2, <1>3 DEF ChargesBounded
<1>6. <<hop, 0>> \notin Tokens
  BY DEF Tokens
<1>7. <<hop, 0>> \in Tokens'
  BY <1>2, <1>3 DEF Tokens
<1>8. Tokens \subseteq Tokens'
  BY <1>3 DEF Tokens
<1> QED
  BY <1>4, <1>5, <1>6, <1>7, <1>8, TokenAdded

\* A charge accounts for the packet that was charged.
LEMMA PortCharges ==
    ASSUME IInv, Active' = Active, NEW hop \in Hop, hop \in port.latched,
           port.used[hop] < Headroom, port'.latched = port.latched,
           port'.used = [port.used EXCEPT ![hop] = @ + 1],
           port'.header = port.header, port'.resends = port.resends
    PROVE  /\ HeadersKept' /\ ChargesBounded'
           /\ Cardinality(Tokens') >= Cardinality(Tokens) + 1
<1>1. port.used \in [Hop -> Nat] /\ HeadersKept /\ ChargesBounded /\ port.latched \subseteq Hop
  BY PortOf
<1>2. Headroom \in Nat /\ port.used[hop] \in Nat
  BY <1>1, SwitchAssumption
<1>3. \A h \in Hop : port'.used[h] = IF h = hop THEN port.used[h] + 1 ELSE port.used[h]
  BY <1>1
<1>4. HeadersKept'
  BY <1>1 DEF HeadersKept
<1>5. ChargesBounded'
  <2>1. ASSUME NEW h \in Hop PROVE port'.used[h] <= Headroom
    BY <1>1, <1>2, <1>3 DEF ChargesBounded
  <2> QED
    BY <1>1, <2>1 DEF ChargesBounded
<1> DEFINE t == <<hop, port.used[hop] + 1>>
<1>6. t \notin Tokens
  BY <1>2 DEF Tokens
<1>7. t \in Tokens'
  BY <1>2, <1>3 DEF Tokens
<1>8. ASSUME NEW y \in Tokens PROVE y \in Tokens'
  <2>1. /\ y \in Hop \X (0..Headroom) /\ y[1] \in port.latched /\ y[2] <= port.used[y[1]]
        /\ y[1] \in Hop /\ y[2] \in Nat /\ port.used[y[1]] \in Nat
    BY <1>1, <1>2 DEF Tokens
  <2>2. port'.used[y[1]] >= port.used[y[1]] /\ port'.used[y[1]] \in Nat
    BY <1>2, <1>3, <2>1
  <2>3. y[2] <= port'.used[y[1]]
    BY <2>1, <2>2
  <2> QED
    BY <2>1, <2>3 DEF Tokens
<1> HIDE DEF t
<1> QED
  BY <1>4, <1>5, <1>6, <1>7, <1>8, TokenAdded

\* A packet is queued: the bound on the queue grows with it, or has room.
LEMMA QueuedKeeps ==
    ASSUME IInv, conf' = conf, NEW x \in Entry, port'.voq = Append(port.voq, x),
           Cardinality(Tokens') >= Cardinality(Tokens) + 1
    PROVE  VoqAccounted'
<1>1. /\ Cardinality(Tokens) \in Nat /\ Cardinality(Tokens') \in Nat /\ PauseThreshold \in Nat
      /\ DataLen(port.voq) \in Nat /\ port'.voq \in Seq(Entry)
  BY TokensCounted, TokensCountedNext, SwitchAssumption, PortOf
<1>2. DataLen(port'.voq) \in Nat /\ DataLen(port'.voq) <= DataLen(port.voq) + 1
  BY <1>1, PortOf, DataCounted, DataAppended
<1>3. conf.mode \in {1, 2} /\ Headroom > 0 /\ ~conf.perVc =>
         DataLen(port.voq) <= PauseThreshold + Cardinality(Tokens)
  BY PortOf DEF VoqAccounted
<1>4. conf.mode \in {1, 2} /\ Headroom > 0 /\ ~conf.perVc =>
         DataLen(port'.voq) <= PauseThreshold + Cardinality(Tokens')
  BY <1>1, <1>2, <1>3
<1> QED
  BY <1>4 DEF VoqAccounted

\* What MaybeSendPfcPause and the queue make of an admitted packet.
LEMMA AdmittedFields ==
    ASSUME NEW q \in Port, NEW x \in Entry, NEW r, r = [q EXCEPT !.voq = Append(@, x)]
    PROVE  /\ r \in Port /\ r.voq = Append(q.voq, x) /\ r.latched = q.latched
           /\ r.used = q.used /\ r.header = q.header /\ r.resends = q.resends
<1> DEFINE v == Append(q.voq, x)
<1>1. r = [q EXCEPT !.voq = v]
  OBVIOUS
<1>2. v \in Seq(Entry)
  BY PortFields
<1> HIDE DEF v
<1>3. /\ r \in Port /\ r.voq = v /\ r.latched = q.latched
      /\ r.used = q.used /\ r.header = q.header /\ r.resends = q.resends
  BY <1>1, <1>2 DEF Port
<1> QED
  BY <1>3 DEF v

\* What Charged changes when it charges.
LEMMA ChargedFields ==
    ASSUME NEW q \in Port, NEW hop \in Hop, Headroom > 0, NEW b, hop \in b.latched
    PROVE  LET r == Charged(q, b, hop) IN
           /\ r \in Port /\ r.voq = q.voq /\ r.latched = q.latched
           /\ r.used = [q.used EXCEPT ![hop] = @ + 1]
           /\ r.header = q.header /\ r.resends = q.resends
<1> DEFINE u == [q.used EXCEPT ![hop] = @ + 1]
           r == Charged(q, b, hop)
<1>1. r = [q EXCEPT !.used = u]
  BY DEF Charged, Port
<1>2. u \in [Hop -> Nat]
  BY PortFields
<1> HIDE DEF u, r
<1>3. /\ r \in Port /\ r.voq = q.voq /\ r.latched = q.latched
      /\ r.used = u /\ r.header = q.header /\ r.resends = q.resends
  BY <1>1, <1>2 DEF Port
<1> QED
  BY <1>3 DEF u, r

\* A control or retry frame takes a place in the queue, or finds none.
LEMMA EnqueueExemptStep ==
    ASSUME IInv, EnqueueExempt
    PROVE  IInv'
<1> DEFINE x == ExemptEntry(conf.exempt[exempt + 1])
<1>1. /\ exempt < Len(conf.exempt) /\ exempt' = exempt + 1
      /\ conf' = conf /\ given' = given /\ ep' = ep /\ ctrl' = ctrl /\ acks' = acks
      /\ losses' = losses
      /\ port' = IF Len(port.voq) >= VoqDepth THEN port
                 ELSE [port EXCEPT !.voq = Append(@, x)]
  BY DEF EnqueueExempt
<1>2. exempt \in Nat /\ conf.exempt \in Seq(Hop)
  BY PortOf, ConfTypes DEF FabricTypeOK
<1>3. conf.exempt[exempt + 1] \in Hop
  BY <1>1, <1>2
<1>4. x \in Entry /\ ~IsData(x)
  BY <1>3 DEF Entry, ExemptEntry, DataEntry, IsData
<1> HIDE DEF x
<1>5. /\ port' \in Port /\ port'.latched = port.latched /\ port'.used = port.used
      /\ port'.header = port.header /\ port'.resends = port.resends
      /\ port'.voq \in {port.voq, Append(port.voq, x)}
  <2>1. CASE port' = port
    BY <2>1, PortOf
  <2>2. CASE port' = [port EXCEPT !.voq = Append(@, x)]
    BY <1>4, <2>2, PortOf, AdmittedFields
  <2> QED
    BY <1>1, <2>1, <2>2
<1>6. ASSUME NEW t \in Source PROVE Beyond(t)' \subseteq Beyond(t)
  <2>1. SUFFICES ASSUME NEW p \in Beyond(t)', p \notin Beyond(t) PROVE FALSE
    OBVIOUS
  <2>2. PICK i \in DOMAIN port'.voq :
           IsData(port'.voq[i]) /\ port'.voq[i].src = t /\ p = port'.voq[i].packet
    BY <1>1, <2>1 DEF Beyond
  <2>3. (i \in DOMAIN port.voq /\ port'.voq[i] = port.voq[i]) \/ port'.voq[i] = x
    <3>1. CASE port'.voq = port.voq
      BY <2>2, <3>1
    <3>2. CASE port'.voq = Append(port.voq, x)
      BY <1>4, <2>2, <3>2, PortOf
    <3> QED
      BY <1>5, <3>1, <3>2
  <2> QED
    BY <1>4, <2>1, <2>2, <2>3 DEF Beyond
<1>7. EndpointsGood' /\ Active' = Active
  BY <1>1, <1>6, PortOf, NoEndpoint
<1>8. FabricTypeOK'
  <2>1. exempt' \in Nat
    BY <1>1, <1>2
  <2> QED
    BY <1>1, <1>5, <2>1, PortOf DEF FabricTypeOK
<1>9. HeadersKept' /\ ChargesBounded'
  BY <1>5, <1>7, PortOf DEF HeadersKept, ChargesBounded
<1>10. VoqAccounted'
  <2>1. Tokens' = Tokens
    BY <1>5 DEF Tokens
  <2>2. DataLen(Append(port.voq, x)) = DataLen(port.voq)
    BY <1>4, PortOf, DataAppended
  <2>3. DataLen(port'.voq) = DataLen(port.voq)
    BY <1>5, <2>2
  <2> QED
    BY <1>1, <2>1, <2>3, PortOf DEF VoqAccounted
<1> QED
  BY <1>7, <1>8, <1>9, <1>10 DEF IInv

\* The next packet of an endpoint reaches the switch: it is turned away, it is
\* dropped behind the pause it caused, or it is queued.
LEMMA EnqueueStep ==
    ASSUME IInv, NEW s \in Source, Enqueue(s)
    PROVE  IInv'
<1> DEFINE p      == Head(ep[s].wire)
           hop    == HopOf(s, p)
           due    == PauseDue(port, conf.mode, conf.perVc, hop)
           hd     == [src |-> s, class |-> ClassOf(s, p)]
           paused == IF due THEN Latched(port, hop, hd) ELSE port
           pause  == IF due THEN <<Pause(ClassOf(s, p))>> ELSE <<>>
           lossy  == conf.dropThreshold > 0 /\ Len(port.voq) >= conf.dropThreshold
           x      == DataEntry(s, p, hop)
<1>1. /\ ep[s].wire # <<>> /\ ep' = [ep EXCEPT ![s].wire = Tail(@)]
      /\ conf' = conf /\ given' = given /\ acks' = acks /\ losses' = losses
      /\ exempt' = exempt
      /\ \/ /\ Refused(port, hop)
            /\ ctrl' = [ctrl EXCEPT ![s] = Append(@, Nack(p))] /\ port' = port
         \/ /\ ~Refused(port, hop) /\ lossy
            /\ ctrl' = [ctrl EXCEPT ![s] = @ \o Append(pause, Nack(p))] /\ port' = paused
         \/ /\ ~Refused(port, hop) /\ ~lossy
            /\ ctrl' = [ctrl EXCEPT ![s] = @ \o pause]
            /\ port' = [Charged(paused, port, hop) EXCEPT !.voq = Append(@, x)]
  BY ZenonT(60) DEF Enqueue
<1>2. p \in Packet /\ ClassOf(s, p) \in Class /\ hop \in Hop /\ hop \in Active
  BY <1>1, Arriving
<1>3. hd \in Header /\ x \in Entry /\ x.src = s /\ x.packet = p
  BY <1>2, EntryMade DEF Header
<1>4. pause \in Seq(Frame) /\ Nack(p) \in Frame
  <2>1. Pause(ClassOf(s, p)) \in Frame /\ Nack(p) \in Frame
    BY <1>2 DEF Pause, Nack, Frame
  <2> QED
    BY <2>1
<1>5. due <=> /\ conf.mode # 0 /\ hop \notin port.latched
              /\ Depth(port, conf.perVc, hop) >= EffectivePfcPauseThreshold(port, conf.mode)
  BY DEF PauseDue
<1> DEFINE eff == EffectivePfcPauseThreshold(port, conf.mode)
<1>6. /\ eff \in Nat /\ eff <= PauseThreshold /\ Headroom \in Nat /\ PauseThreshold \in Nat
      /\ Len(port.voq) \in Nat /\ port.used \in [Hop -> Nat] /\ port \in Port
  BY PortOf, ThresholdBounded, SwitchAssumption
<1> HIDE DEF p, hop, due, hd, paused, pause, lossy, x, eff
<1>7. ctrl' \in [Source -> Seq(Frame)]
  <2>1. ctrl[s] \in Seq(Frame) /\ ctrl \in [Source -> Seq(Frame)]
    BY EndpointOf
  <2>2. /\ Append(ctrl[s], Nack(p)) \in Seq(Frame) /\ ctrl[s] \o pause \in Seq(Frame)
        /\ ctrl[s] \o Append(pause, Nack(p)) \in Seq(Frame)
    BY <1>4, <2>1
  <2>3. PICK c \in Seq(Frame) : ctrl' = [ctrl EXCEPT ![s] = c]
    BY <1>1, <2>1, <2>2
  <2> QED
    BY <2>1, <2>3
\* It is enough to look at the port.
<1>8. SUFFICES ASSUME port' \in Port /\ port'.voq \in {port.voq, Append(port.voq, x)}
                      => Active' = Active
               PROVE  /\ port' \in Port /\ port'.voq \in {port.voq, Append(port.voq, x)}
                      /\ HeadersKept' /\ ChargesBounded' /\ VoqAccounted'
  <2>1. ASSUME port' \in Port, port'.voq \in {port.voq, Append(port.voq, x)}
        PROVE  EndpointsGood' /\ Active' = Active /\ FabricTypeOK'
    <3>1. /\ EndpointsGood' /\ Active' = Active
          /\ ep' \in [Source -> Endpoint]
          /\ given' \in [Source -> [bulk : Nat, rdma : Nat]]
      BY <1>1, <1>3, <2>1, ArrivalKeeps DEF p
    <3> QED
      BY <1>1, <1>7, <2>1, <3>1, PortOf DEF FabricTypeOK
  <2> QED
    BY <1>8, <2>1 DEF IInv
<1>9. CASE Refused(port, hop)
  <2>1. port' = port
    BY <1>1, <1>9
  <2> QED
    BY <1>1, <1>6, <1>8, <2>1, PortOf, PortStays
<1>10. CASE ~Refused(port, hop) /\ lossy
  <2>1. port' = paused
    BY <1>1, <1>10
  <2>2. CASE due
    <3>1. hop \notin port.latched
      BY <1>5, <2>2
    <3> DEFINE r == Latched(port, hop, hd)
    <3>2. port' = r
      BY <2>1, <2>2 DEF paused
    <3>3. /\ r \in Port /\ r.voq = port.voq /\ r.latched = port.latched \cup {hop}
          /\ r.used = [port.used EXCEPT ![hop] = 0]
          /\ r.header = [port.header EXCEPT ![hop] = hd]
          /\ r.resends = [port.resends EXCEPT ![hop] = 0]
      BY <1>2, <1>3, <1>6, LatchedFields
    <3> HIDE DEF r
    <3>4. /\ HeadersKept' /\ ChargesBounded'
          /\ Cardinality(Tokens') >= Cardinality(Tokens) + 1
      BY <1>2, <1>3, <1>8, <3>1, <3>2, <3>3, PortLatches
    <3>5. VoqAccounted'
      <4>1. Cardinality(Tokens) \in Nat /\ Cardinality(Tokens') \in Nat
        BY TokensCounted, TokensCountedNext
      <4>2. conf.mode \in {1, 2} /\ Headroom > 0 /\ ~conf.perVc =>
               DataLen(port.voq) <= PauseThreshold + Cardinality(Tokens)
        BY PortOf DEF VoqAccounted
      <4>3. conf.mode \in {1, 2} /\ Headroom > 0 /\ ~conf.perVc =>
               DataLen(port.voq) <= PauseThreshold + Cardinality(Tokens')
        BY <1>6, <3>4, <4>1, <4>2, PortOf
      <4> QED
        BY <1>1, <3>2, <3>3, <4>3 DEF VoqAccounted
    <3> QED
      BY <3>2, <3>3, <3>4, <3>5
  <2>3. CASE ~due
    <3>1. port' = port
      BY <2>1, <2>3 DEF paused
    <3> QED
      BY <1>1, <1>6, <1>8, <3>1, PortOf, PortStays
  <2> QED
    BY <2>2, <2>3
<1>11. CASE ~Refused(port, hop) /\ ~lossy
  <2> DEFINE r == Charged(paused, port, hop)
  <2>1. port' = [r EXCEPT !.voq = Append(@, x)]
    BY <1>1, <1>11
  <2>2. r = IF Headroom > 0 /\ hop \in port.latched
              THEN [paused EXCEPT !.used[hop] = @ + 1] ELSE paused
    BY DEF Charged
  <2> HIDE DEF r
  <2>3. CASE due
    <3>1. hop \notin port.latched
      BY <1>5, <2>3
    <3>2. r = Latched(port, hop, hd)
      BY <2>2, <2>3, <3>1 DEF paused
    <3>3. /\ r \in Port /\ r.voq = port.voq /\ r.latched = port.latched \cup {hop}
          /\ r.used = [port.used EXCEPT ![hop] = 0]
          /\ r.header = [port.header EXCEPT ![hop] = hd]
          /\ r.resends = [port.resends EXCEPT ![hop] = 0]
      BY <1>2, <1>3, <1>6, <3>2, LatchedFields
    <3>4. r \in Port /\ r.voq = port.voq
      BY <3>3
    <3>5. /\ port' \in Port /\ port'.voq = Append(port.voq, x) /\ port'.latched = r.latched
          /\ port'.used = r.used /\ port'.header = r.header /\ port'.resends = r.resends
      BY <1>3, <2>1, <3>4, AdmittedFields
    <3>6. /\ HeadersKept' /\ ChargesBounded'
          /\ Cardinality(Tokens') >= Cardinality(Tokens) + 1
      <4>1. /\ Active' = Active /\ port'.latched = port.latched \cup {hop}
            /\ port'.used = [port.used EXCEPT ![hop] = 0]
            /\ port'.header = [port.header EXCEPT ![hop] = hd]
            /\ port'.resends = [port.resends EXCEPT ![hop] = 0]
        BY <1>8, <3>3, <3>5
      <4>2. hd \in Header /\ hop \in Hop /\ hop \in Active
        BY <1>2, <1>3
      <4> QED
        BY <3>1, <4>1, <4>2, PortLatches
    <3> QED
      BY <1>1, <1>3, <3>5, <3>6, QueuedKeeps
  <2>4. CASE ~due /\ Headroom > 0 /\ hop \in port.latched
    <3>1. r = Charged(port, port, hop)
      BY <2>4 DEF r, paused
    <3>2. port.used[hop] < Headroom
      BY <1>2, <1>6, <1>11, <2>4 DEF Refused
    <3>3. /\ r \in Port /\ r.voq = port.voq /\ r.latched = port.latched
          /\ r.used = [port.used EXCEPT ![hop] = @ + 1]
          /\ r.header = port.header /\ r.resends = port.resends
      BY <1>2, <1>6, <2>4, <3>1, ChargedFields
    <3>4. r \in Port /\ r.voq = port.voq
      BY <3>3
    <3>5. /\ port' \in Port /\ port'.voq = Append(port.voq, x) /\ port'.latched = r.latched
          /\ port'.used = r.used /\ port'.header = r.header /\ port'.resends = r.resends
      BY <1>3, <2>1, <3>4, AdmittedFields
    <3>6. /\ HeadersKept' /\ ChargesBounded'
          /\ Cardinality(Tokens') >= Cardinality(Tokens) + 1
      BY <1>2, <1>8, <2>4, <3>2, <3>3, <3>5, PortCharges
    <3> QED
      BY <1>1, <1>3, <3>5, <3>6, QueuedKeeps
  <2>5. CASE ~due /\ ~(Headroom > 0 /\ hop \in port.latched)
    <3>1. r = port
      BY <2>2, <2>5 DEF paused
    <3>2. /\ port' \in Port /\ port'.voq = Append(port.voq, x)
          /\ port'.latched = port.latched /\ port'.used = port.used
          /\ port'.header = port.header /\ port'.resends = port.resends
      BY <1>3, <1>6, <2>1, <3>1, AdmittedFields
    <3>3. HeadersKept' /\ ChargesBounded'
      BY <1>8, <3>2, PortOf DEF HeadersKept, ChargesBounded
    <3>4. VoqAccounted'
      <4>1. SUFFICES ASSUME conf.mode \in {1, 2} /\ Headroom > 0 /\ ~conf.perVc
                     PROVE  DataLen(port'.voq) <= PauseThreshold + Cardinality(Tokens')
        BY <1>1 DEF VoqAccounted
      <4>2. ~(Len(port.voq) >= eff)
        BY <1>5, <2>5, <4>1 DEF Depth, eff
      <4>3. /\ DataLen(port'.voq) \in Nat /\ DataLen(port'.voq) <= DataLen(port.voq) + 1
            /\ DataLen(port.voq) \in Nat /\ DataLen(port.voq) <= Len(port.voq)
        BY <1>3, <3>2, PortOf, PortFields, DataCounted, DataAppended
      <4>4. Cardinality(Tokens') \in Nat
        BY TokensCountedNext
      <4> QED
        BY <1>6, <4>2, <4>3, <4>4
    <3> QED
      BY <3>2, <3>3, <3>4
  <2> QED
    BY <2>3, <2>4, <2>5
<1> QED
  BY <1>9, <1>10, <1>11

-----------------------------------------------------------------------------
(* The theorems.                                                           *)

\* An endpoint that has sent nothing.
LEMMA NewIsGood ==
    ASSUME NEW size \in Nat, NEW W \in SUBSET Packet, NEW class \in [W -> Class],
           NEW paced \in BOOLEAN, NEW g, g = [bulk |-> 0, rdma |-> 0]
    PROVE  LET e == NewEndpoint(size, class, paced)
           IN  /\ Good(e, g, {}, {}) /\ Parked(e)
               /\ e.size = size /\ e.class = class /\ e \in Endpoint
<1> DEFINE e == NewEndpoint(size, class, paced)
<1>1. /\ e.size = size /\ e.class = class /\ e.bulk = <<>> /\ e.rdma = <<>>
      /\ e.queue = <<>> /\ e.window = {} /\ e.inflight = 0 /\ e.holds = {}
      /\ e.expiry = {} /\ e.pacer = {} /\ e.wire = <<>> /\ e.lost = {}
      /\ DOMAIN e.retries = {}
  BY DEF NewEndpoint
<1>2. e \in Endpoint
  <2>1. [p \in {} |-> 0] \in UNION {[S -> Nat] : S \in SUBSET Packet}
    <3>1. [p \in {} |-> 0] \in [{} -> Nat] /\ {} \in SUBSET Packet
      OBVIOUS
    <3> QED
      BY <3>1
  <2>2. class \in UNION {[S -> Class] : S \in SUBSET Packet}
    OBVIOUS
  <2>3. <<>> \in Seq(Packet)
    OBVIOUS
  <2> QED
    BY <2>1, <2>2, <2>3 DEF NewEndpoint, Endpoint
<1> HIDE DEF e
<1>3. ToSet(e.queue) = {} /\ ToSet(e.wire) = {} /\ DOMAIN e.queue = {} /\ DOMAIN e.wire = {}
  BY <1>1, EmptyHasNothing
<1>4. Len(e.bulk) = 0 /\ Len(e.rdma) = 0
  BY <1>1
<1>5. Waiting(e, g)
  <2>1. g \in [bulk : Nat, rdma : Nat] /\ g.bulk = 0 /\ g.rdma = 0
    OBVIOUS
  <2>2. Given(g) = {}
    BY <2>1 DEF Given
  <2> QED
    BY <1>4, <2>1, <2>2 DEF Waiting
<1>6. Slots(e, {})
  BY <1>1, <1>3, FS_EmptySet DEF Slots
<1>7. Apart(e, g, {}) /\ Ordered(e) /\ Parked(e)
  BY <1>1, <1>3 DEF Apart, Sent, Underway, Ordered, InTurn, Parked
<1> QED
  BY <1>1, <1>2, <1>5, <1>6, <1>7 DEF Good, e

\* The invariant holds at the start.
LEMMA InitEstablishes ==
    ASSUME Init
    PROVE  IInv
<1> DEFINE class(s) == [p \in {<<"bulk", i>> : i \in DOMAIN conf.bulk[s]}
                                \cup {<<"rdma", i>> : i \in DOMAIN conf.rdma[s]} |->
                          IF p[1] = "bulk" THEN conf.bulk[s][p[2]] ELSE conf.rdma[s][p[2]]]
<1>1. /\ conf \in Confs /\ given = [s \in Source |-> [bulk |-> 0, rdma |-> 0]]
      /\ ep = [s \in Source |-> NewEndpoint(conf.window, class(s), conf.paced)]
      /\ port = NewPort(Hop) /\ ctrl = [s \in Source |-> <<>>] /\ acks = {} /\ losses = 0
      /\ exempt = 0
  BY DEF Init
<1>2. /\ port \in Port /\ port.voq = <<>> /\ port.latched = {}
      /\ \A h \in Hop : port.used[h] = 0 /\ port.resends[h] = 0
  <2>1. /\ [h \in Hop |-> 0] \in [Hop -> Nat]
        /\ [h \in Hop |-> NoHeader] \in [Hop -> Header \cup {NoHeader}]
        /\ <<>> \in Seq(Entry)
    OBVIOUS
  <2>2. port = [voq |-> <<>>, latched |-> {}, used |-> [h \in Hop |-> 0],
                header |-> [h \in Hop |-> NoHeader], resends |-> [h \in Hop |-> 0]]
    BY <1>1 DEF NewPort
  <2> HIDE DEF class
  <2> QED
    BY <2>1, <2>2 DEF Port
<1>3. ASSUME NEW s \in Source
      PROVE  /\ Good(ep[s], given[s], Beyond(s), {}) /\ Parked(ep[s]) /\ ep[s] \in Endpoint
             /\ ep[s].size = conf.window /\ DOMAIN ep[s].class = Workload(s)
  <2>1. /\ conf.bulk[s] \in Seq(Class) /\ conf.rdma[s] \in Seq(Class)
        /\ Len(conf.bulk[s]) <= MaxLoad /\ Len(conf.rdma[s]) <= MaxLoad
        /\ MaxLoad \in Nat /\ conf.window \in Nat /\ conf.paced \in BOOLEAN
    BY <1>1, ConfTypes
  <2>2. /\ DOMAIN conf.bulk[s] \subseteq 1..MaxLoad /\ DOMAIN conf.rdma[s] \subseteq 1..MaxLoad
        /\ \A i \in DOMAIN conf.bulk[s] : conf.bulk[s][i] \in Class
        /\ \A i \in DOMAIN conf.rdma[s] : conf.rdma[s][i] \in Class
    BY <2>1
  <2>3. Workload(s) \in SUBSET Packet
    BY <2>2 DEF Workload, Packet
  <2>4. class(s) \in [Workload(s) -> Class]
    <3>1. ASSUME NEW p \in Workload(s)
          PROVE  (IF p[1] = "bulk" THEN conf.bulk[s][p[2]] ELSE conf.rdma[s][p[2]]) \in Class
      <4>1. CASE \E i \in DOMAIN conf.bulk[s] : p = <<"bulk", i>>
        BY <2>2, <4>1
      <4>2. CASE \E i \in DOMAIN conf.rdma[s] : p = <<"rdma", i>>
        BY <2>2, <4>2
      <4> QED
        BY <4>1, <4>2 DEF Workload
    <3> QED
      BY <3>1 DEF Workload
  <2>5. Beyond(s) = {}
    BY <1>1, <1>2 DEF Beyond
  <2>6. ep[s] = NewEndpoint(conf.window, class(s), conf.paced) /\ given[s] = [bulk |-> 0, rdma |-> 0]
    BY <1>1
  <2> HIDE DEF class
  <2> DEFINE W == Workload(s)
             k == class(s)
             g == given[s]
             m == conf.window
             b == conf.paced
  <2> HIDE DEF W, k, g, m, b
  <2>7. /\ m \in Nat /\ W \in SUBSET Packet /\ k \in [W -> Class]
        /\ g = [bulk |-> 0, rdma |-> 0] /\ b \in BOOLEAN /\ ep[s] = NewEndpoint(m, k, b)
    BY <2>1, <2>3, <2>4, <2>6 DEF W, k, g, m, b
  <2>8. /\ Good(ep[s], g, {}, {}) /\ Parked(ep[s]) /\ ep[s].size = m
        /\ ep[s].class = k /\ ep[s] \in Endpoint
    BY <2>7, NewIsGood
  <2>9. /\ Good(ep[s], given[s], {}, {}) /\ Parked(ep[s]) /\ ep[s].size = conf.window
        /\ ep[s].class = class(s) /\ ep[s] \in Endpoint
    BY <2>8 DEF k, g, m
  <2> QED
    BY <2>4, <2>5, <2>9
<1> HIDE DEF class
<1>4. FabricTypeOK
  <2>1. ep \in [Source -> Endpoint]
    BY <1>1, <1>3
  <2>2. <<>> \in Seq(Frame)
    OBVIOUS
  <2> QED
    BY <1>1, <1>2, <2>1, <2>2 DEF FabricTypeOK
<1>5. EndpointsGood
  BY <1>3 DEF EndpointsGood
<1>6. HeadersKept
  BY <1>2 DEF HeadersKept
<1>7. ChargesBounded
  BY <1>2, SwitchAssumption DEF ChargesBounded
<1>8. VoqAccounted
  <2>1. Cardinality(Tokens) \in Nat /\ PauseThreshold \in Nat
    BY TokensCounted, SwitchAssumption
  <2>2. DataLen(port.voq) = 0
    BY <1>2, FS_EmptySet DEF DataLen
  <2> QED
    BY <2>1, <2>2 DEF VoqAccounted
<1> QED
  BY <1>4, <1>5, <1>6, <1>7, <1>8 DEF IInv

\* Every step keeps the invariant.
LEMMA NextKeeps ==
    ASSUME IInv, [Next]_vars
    PROVE  IInv'
<1>1. ASSUME NEW s \in Source, SourceStep(s) PROVE IInv'
  <2>1. ASSUME NEW n \in 1..MaxLoad, SendBulk(s, n) PROVE IInv'
    BY <2>1, SendBulkStep
  <2>2. CASE QueueRdmaOperationPacket(s)
    BY <2>2, QueueRdmaStep
  <2>3. CASE ProcessControl(s)
    BY <2>3, ControlStep
  <2>4. CASE LoseControl(s)
    BY <2>4, LostStep
  <2>5. CASE Enqueue(s)
    BY <2>5, EnqueueStep
  <2>6. ASSUME NEW p \in Packet, ProcessAckPacket(s, p) PROVE IInv'
    BY <2>6, AckStep
  <2>7. ASSUME NEW p \in Packet, OnLlrRetryTimeout(s, p) PROVE IInv'
    BY <2>7, TimeoutStep
  <2>8. ASSUME NEW c \in ep[s].expiry, PfcPauseExpired(s, c) PROVE IInv'
    BY <2>8, ExpiredStep
  <2>9. ASSUME NEW x \in ep[s].pacer, SendDeferredEgressInternal(s, x) PROVE IInv'
    BY <2>9, DepartedStep
  <2> QED
    BY <1>1, <2>1, <2>2, <2>3, <2>4, <2>5, <2>6, <2>7, <2>8, <2>9 DEF SourceStep
<1>2. ASSUME NEW hop \in Hop, HopStep(hop) PROVE IInv'
  <2>1. CASE CheckPfcResume(hop)
    BY <2>1, CheckPfcResumeStep
  <2>2. CASE RecheckPfcPause(hop)
    BY <2>2, RecheckPfcPauseStep
  <2>3. CASE ResendPfcResume(hop)
    BY <2>3, ResendPfcResumeStep
  <2> QED
    BY <1>2, <2>1, <2>2, <2>3 DEF HopStep
<1>3. CASE Forward
  BY <1>3, ForwardStep
<1>5. CASE EnqueueExempt
  BY <1>5, EnqueueExemptStep
<1>4. CASE UNCHANGED vars
  <2>1. /\ conf' = conf /\ given' = given /\ ep' = ep /\ port' = port /\ ctrl' = ctrl
        /\ acks' = acks /\ losses' = losses /\ exempt' = exempt
    BY <1>4 DEF vars
  <2>2. HeadersKept'
    BY <2>1, PortOf DEF HeadersKept
  <2>3. port' \in Port /\ ctrl' \in [Source -> Seq(Frame)] /\ port.used \in [Hop -> Nat]
    BY <2>1, PortOf
  <2> QED
    BY <2>1, <2>2, <2>3, PortStep
<1> QED
  BY <1>1, <1>2, <1>3, <1>4, <1>5 DEF Next

\* In every behaviour each endpoint keeps its window, its parked packets and
\* what it sent in the relation Good describes, and each port the account of
\* its pauses, headroom and queue.
THEOREM FabricInvariant == Spec => []IInv
<1>1. Init => IInv
  BY InitEstablishes
<1>2. IInv /\ [Next]_vars => IInv'
  BY NextKeeps
<1> QED
  BY <1>1, <1>2, PTL DEF Spec

\* The endpoints, the port and the frames between them keep their types: no
\* handler counts a slot, a charge or a re-send below zero, and a frame goes
\* to an endpoint only, never to the header of no pause.
THEOREM FabricTypes == Spec => []FabricTypeOK
<1>1. IInv => FabricTypeOK
  BY DEF IInv
<1> QED
  BY <1>1, FabricInvariant, PTL

\* The count of taken slots (m_bulkTxInflight) equals the packets that are
\* parked or await their acknowledgement, and stays within the window.
THEOREM SlotsStayExact == Spec => []SlotsExact
<1>1. ASSUME IInv, NEW s \in Source
      PROVE  /\ ep[s].inflight = Cardinality(ep[s].window)
             /\ ep[s].inflight <= conf.window
             /\ ep[s].window = ToSet(ep[s].queue) \cup DOMAIN ep[s].retries
  <2>1. Slots(ep[s], {}) /\ ep[s].size = conf.window
    BY <1>1 DEF IInv, EndpointsGood, Good
  <2> QED
    BY <2>1 DEF Slots
<1>2. IInv => SlotsExact
  BY <1>1 DEF SlotsExact
<1> QED
  BY <1>2, FabricInvariant, PTL

\* Pauses, drains, refills of the window and losses never let a packet be
\* handed to the egress before an earlier one of its flow, and where no delay
\* puts sends off none overtakes another on the way to the wire either.
THEOREM OrderKept == Spec => []FlowsKeepOrder
<1>1. ASSUME IInv PROVE FlowsKeepOrder
  <2>1. SUFFICES ASSUME NEW s \in Source
                 PROVE  LET x == ep[s]
                            fresh == {p \in DOMAIN x.retries : x.retries[p] = 0}
                            InOrder(ps, of) == \A i, j \in DOMAIN ps :
                                {ps[i], ps[j]} \subseteq of /\ Precedes(s, ps[i], ps[j]) => i < j
                        IN  /\ InOrder(x.queue, ToSet(x.queue))
                            /\ \A p \in ToSet(x.queue), q \in DOMAIN x.retries \cup x.lost :
                                  ~Precedes(s, p, q)
                            /\ x.paced \/ InOrder(x.wire, fresh)
    BY DEF FlowsKeepOrder
  <2> DEFINE x == ep[s]
             fresh == {p \in DOMAIN x.retries : x.retries[p] = 0}
  <2>2. Ordered(x)
    BY <1>1 DEF IInv, EndpointsGood, Good
  <2>3. \A p, q : Precedes(s, p, q) <=> Before(x, p, q)
    BY DEF Precedes, Before, ClassOf
  <2>4. \A p : p \in fresh <=> Fresh(x, p)
    BY DEF Fresh
  <2> HIDE DEF x, fresh
  <2>5. ASSUME ~x.paced, NEW i \in DOMAIN x.wire, NEW j \in DOMAIN x.wire,
               {x.wire[i], x.wire[j]} \subseteq fresh, Precedes(s, x.wire[i], x.wire[j])
        PROVE  i < j
    BY <2>2, <2>3, <2>4, <2>5 DEF Ordered, InTurn
  <2>6. ASSUME NEW i \in DOMAIN x.queue, NEW j \in DOMAIN x.queue,
               Precedes(s, x.queue[i], x.queue[j])
        PROVE  i < j
    BY <2>2, <2>3, <2>6 DEF Ordered, InTurn
  <2>7. \A p \in ToSet(x.queue), q \in DOMAIN x.retries \cup x.lost : ~Precedes(s, p, q)
    BY <2>2, <2>3 DEF Ordered, InTurn
  <2> QED
    BY <2>5, <2>6, <2>7 DEF x, fresh
<1>2. IInv => FlowsKeepOrder
  BY <1>1
<1> QED
  BY <1>2, FabricInvariant, PTL

\* Each hop in use accounts for the packet that caused its pause and for its
\* headroom at most: with the threshold that bounds the data in the queue, also
\* when PAUSEs are lost, endpoints go on sending and exempt frames come between.
THEOREM HeadroomSuffices == Spec => []HeadroomBoundsData
<1>1. ASSUME IInv PROVE HeadroomBoundsData
  <2>1. IsFiniteSet(Active)
    <3>1. ASSUME NEW h \in Active PROVE h \in Hop
      <4>1. PICK y \in Source \X Packet : y[2] \in DOMAIN ep[y[1]].class /\ h = HopOf(y[1], y[2])
        BY DEF Active
      <4> DEFINE s == y[1]
                 k == ep[s].class
      <4>2. s \in Source /\ y[2] \in DOMAIN k /\ h = <<conf.ingress[s], k[y[2]][2]>>
        BY <4>1 DEF HopOf, ClassOf
      <4>3. PICK S \in SUBSET Packet : k \in [S -> Class]
        <5>1. ep[s] \in Endpoint
          BY <1>1, <4>2, EndpointOf
        <5> QED
          BY <5>1 DEF Endpoint
      <4> HIDE DEF s, k
      <4>4. k[y[2]] \in Class
        BY <4>2, <4>3
      <4>5. conf.ingress[s] \in InPort
        BY <1>1, <4>2, PortOf, ConfTypes
      <4> QED
        BY <4>2, <4>4, <4>5 DEF Class, Hop
    <3> QED
      BY <3>1, TokensFinite, FS_Subset
  <2>2. Headroom \in Nat /\ PauseThreshold \in Nat
    BY SwitchAssumption
  <2>3. IsFiniteSet(0..Headroom) /\ Cardinality(0..Headroom) = Headroom + 1
    BY <2>2, FS_Interval
  <2> DEFINE A == Active
             H == 0..Headroom
             n == Cardinality(A)
  <2>4. /\ IsFiniteSet(A \X H) /\ Cardinality(A \X H) = n * Cardinality(H)
        /\ n \in Nat
    BY <2>1, <2>3, FS_Product, FS_CardinalityType
  <2>5. Tokens \subseteq A \X H
    BY <1>1, PortOf DEF Tokens, ChargesBounded
  <2>6. Cardinality(Tokens) <= Cardinality(A \X H)
    BY <2>4, <2>5, FS_Subset
  <2>7. Cardinality(A \X H) = n * (1 + Headroom)
    BY <2>2, <2>3, <2>4
  <2> HIDE DEF A, H, n
  <2>8. n * (1 + Headroom) \in Nat
    BY <2>2, <2>4
  <2>9. /\ Cardinality(Tokens) \in Nat /\ DataLen(port.voq) \in Nat
        /\ conf.mode \in {1, 2} /\ Headroom > 0 /\ ~conf.perVc =>
              DataLen(port.voq) <= PauseThreshold + Cardinality(Tokens)
    BY <1>1, TokensCounted, PortOf DEF VoqAccounted
  <2>10. conf.mode \in {1, 2} /\ Headroom > 0 /\ ~conf.perVc =>
            DataLen(port.voq) <= PauseThreshold + n * (1 + Headroom)
    BY <2>2, <2>6, <2>7, <2>8, <2>9
  <2> QED
    BY <2>10 DEF HeadroomBoundsData, n, A
<1>2. IInv => HeadroomBoundsData
  BY <1>1
<1> QED
  BY <1>2, FabricInvariant, PTL
=============================================================================
