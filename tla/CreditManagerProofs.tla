------------------------ MODULE CreditManagerProofs --------------------------
(***************************************************************************)
(* What holds of the credit book for every set of channels and every       *)
(* window: its counters stay in range, available and pending add up to the *)
(* window, no credit is withheld for a packet that is not in flight, and   *)
(* the flight exceeds the window only by what cuts of it dropped.          *)
(***************************************************************************)
EXTENDS CreditManager, TLAPS

-----------------------------------------------------------------------------
(* What the operations make of one entry.                                  *)

\* Taking a credit keeps the entry in range and balanced.
LEMMA ConsumedBalanced ==
    ASSUME NEW c \in Entry, Balanced(c), HasCredits(c)
    PROVE  /\ Consumed(c) \in Entry
           /\ Balanced(Consumed(c))
           /\ Consumed(c).pending = c.pending + 1
           /\ Consumed(c).total = c.total
  BY ConstantsAssumption DEF Entry, Balanced, HasCredits, Consumed

\* Returning n credits keeps the entry in range and balanced, even when
\* fewer than n are pending: the cap on available and the floor on pending
\* cut off the same amount.
LEMMA ReturnedBalanced ==
    ASSUME NEW c \in Entry, Balanced(c), NEW n \in 1..MaxInFlight
    PROVE  /\ Returned(c, n) \in Entry
           /\ Balanced(Returned(c, n))
           /\ Returned(c, n).pending = IF c.pending >= n THEN c.pending - n ELSE 0
           /\ Returned(c, n).total = c.total
<1>1. c.available + n \in 0..(Modulus - 1)
  BY ConstantsAssumption, ModulusAssumption DEF Entry
<1>2. (c.available + n) % Modulus = c.available + n
  BY <1>1, ModulusAssumption
<1> QED
  BY <1>2, ConstantsAssumption DEF Entry, Balanced, Returned, CappedAt

\* Resizing keeps the entry in range and balanced: where the unsigned
\* difference wraps, the overdraft branch is the one taken.
LEMMA ResizedBalanced ==
    ASSUME NEW c \in Entry, Balanced(c), NEW n \in 0..MaxCredits
    PROVE  /\ Resized(c, n) \in Entry
           /\ Balanced(Resized(c, n))
           /\ Resized(c, n).pending = IF c.pending > n THEN n ELSE c.pending
<1>1. CASE c.pending > n
  BY <1>1, ConstantsAssumption DEF Entry, Balanced, Resized
<1>2. CASE ~(c.pending > n)
  <2>1. c.available + n - c.total \in 0..(Modulus - 1)
    BY <1>2, ConstantsAssumption, ModulusAssumption DEF Entry, Balanced
  <2>2. (c.available + n - c.total) % Modulus = c.available + n - c.total
    BY <2>1, ModulusAssumption
  <2> QED
    BY <1>2, <2>2, ConstantsAssumption DEF Entry, Balanced, Resized, CappedAt
<1> QED
  BY <1>1, <1>2

-----------------------------------------------------------------------------

\* The book knows every packet in flight but those a cut dropped, and these are
\* in flight; on a channel without an entry nothing is.
EveryPacketBooked ==
    /\ \A v \in known : inFlight[v] <= vcCredits[v].pending + dropped[v]
    /\ \A v \in VC : dropped[v] <= inFlight[v]
    /\ \A v \in VC \ known : inFlight[v] = 0

\* The inductive invariant: no conjunct is preserved without the others.
IInv == TypeOK /\ CreditConservation /\ NoPhantomPending /\ EveryPacketBooked

LEMMA InitEstablishesIInv == Init => IInv
  BY ConstantsAssumption
  DEF Init, IInv, TypeOK, CreditConservation, NoPhantomPending, EveryPacketBooked, known, Entry

LEMMA NextPreservesIInv == IInv /\ [Next]_vars => IInv'
<1> SUFFICES ASSUME IInv, [Next]_vars PROVE IInv'
  OBVIOUS
<1> USE DEF IInv, TypeOK, CreditConservation, NoPhantomPending, EveryPacketBooked, known
<1>1. ASSUME NEW v \in VC, NEW n \in 0..MaxCredits, InitializeVc(v, n)
      PROVE  IInv'
  <2>1. FreshVc(n) \in Entry /\ Balanced(FreshVc(n)) /\ FreshVc(n).pending = 0
    BY ConstantsAssumption DEF FreshVc, Entry, Balanced
  <2>2. /\ DOMAIN vcCredits' = DOMAIN vcCredits \cup {v}
        /\ vcCredits'[v] = FreshVc(n)
        /\ \A w \in DOMAIN vcCredits : vcCredits'[w] = vcCredits[w]
        /\ inFlight' = inFlight
        /\ dropped' = dropped
    BY <1>1 DEF InitializeVc
  <2>3. TypeOK'
    BY <1>1, <2>1, <2>2 DEF InitializeVc
  <2>4. inFlight[v] = 0
    BY <1>1 DEF InitializeVc
  <2> QED
    BY <2>1, <2>2, <2>3, <2>4
<1>2. ASSUME NEW v \in VC, ConsumeCredit(v)
      PROVE  IInv'
  <2>1. vcCredits[v] \in Entry /\ Balanced(vcCredits[v]) /\ HasCredits(vcCredits[v])
    BY <1>2 DEF ConsumeCredit
  <2>2. /\ Consumed(vcCredits[v]) \in Entry
        /\ Balanced(Consumed(vcCredits[v]))
        /\ Consumed(vcCredits[v]).pending = vcCredits[v].pending + 1
    BY <2>1, ConsumedBalanced
  <2>3. vcCredits[v].pending \in 0..MaxCredits
    BY <2>1 DEF Entry
  <2> QED
    BY <1>2, <2>2, <2>3, ConstantsAssumption DEF ConsumeCredit
<1>3. ASSUME NEW v \in VC, NEW n \in 1..MaxInFlight, ReturnCredits(v, n)
      PROVE  IInv'
  <2>1. vcCredits[v] \in Entry /\ Balanced(vcCredits[v])
    BY <1>3 DEF ReturnCredits
  <2>2. /\ Returned(vcCredits[v], n) \in Entry
        /\ Balanced(Returned(vcCredits[v], n))
        /\ Returned(vcCredits[v], n).pending
              = IF vcCredits[v].pending >= n THEN vcCredits[v].pending - n ELSE 0
    BY <2>1, ReturnedBalanced
  <2>3. vcCredits[v].pending \in 0..MaxCredits
    BY <2>1 DEF Entry
  <2> QED
    BY <1>3, <2>2, <2>3, ConstantsAssumption DEF ReturnCredits, CappedAt
<1>4. ASSUME NEW v \in VC, NEW n \in 0..MaxCredits, SetTotalCredits(v, n)
      PROVE  IInv'
  <2>1. vcCredits[v] \in Entry /\ Balanced(vcCredits[v])
    BY <1>4 DEF SetTotalCredits
  <2>2. /\ Resized(vcCredits[v], n) \in Entry
        /\ Balanced(Resized(vcCredits[v], n))
        /\ Resized(vcCredits[v], n).pending
              = IF vcCredits[v].pending > n THEN n ELSE vcCredits[v].pending
    BY <2>1, ResizedBalanced
  <2>3. vcCredits[v].pending \in 0..MaxCredits /\ Resized(vcCredits[v], n).pending \in 0..MaxCredits
    BY <2>1, <2>2 DEF Entry
  <2> QED
    BY <1>4, <2>2, <2>3, ConstantsAssumption DEF SetTotalCredits, CappedAt
<1>5. CASE UNCHANGED vars
  BY <1>5 DEF vars, Balanced
<1> QED
  BY <1>1, <1>2, <1>3, <1>4, <1>5 DEF Next

\* Through every sequence of calls the counters are in range.
THEOREM CreditTypes == Spec => []TypeOK
<1>1. IInv => TypeOK
  BY DEF IInv
<1> QED
  BY <1>1, InitEstablishesIInv, NextPreservesIInv, PTL DEF Spec

\* The assertion of ConsumeCredit and ReturnCredits never fails, for any
\* window and any batch that fit the counters.
THEOREM CreditsBalance == Spec => []CreditConservation
<1>1. IInv => CreditConservation
  BY DEF IInv
<1> QED
  BY <1>1, InitEstablishesIInv, NextPreservesIInv, PTL DEF Spec

\* No credit is withheld for a packet that is not in flight.
THEOREM PendingIsInFlight == Spec => []NoPhantomPending
<1>1. IInv => NoPhantomPending
  BY DEF IInv
<1> QED
  BY <1>1, InitEstablishesIInv, NextPreservesIInv, PTL DEF Spec

\* The packets in flight exceed the window by at most what cuts of it below the
\* pending count dropped from the books.
THEOREM WindowBoundsFlight == Spec => []InFlightWithinWindow
<1>1. IInv => InFlightWithinWindow
  <2> SUFFICES ASSUME IInv, NEW v \in known
               PROVE  inFlight[v] <= vcCredits[v].total + dropped[v]
    BY DEF InFlightWithinWindow
  <2>1. /\ vcCredits[v] \in Entry
        /\ Balanced(vcCredits[v])
        /\ inFlight[v] <= vcCredits[v].pending + dropped[v]
        /\ inFlight[v] \in Nat /\ dropped[v] \in Nat
    BY ConstantsAssumption DEF IInv, TypeOK, CreditConservation, EveryPacketBooked
  <2> QED
    BY <2>1, ConstantsAssumption DEF Entry, Balanced
<1> QED
  BY <1>1, InitEstablishesIInv, NextPreservesIInv, PTL DEF Spec
=============================================================================
