---------------------------- MODULE CreditManager ----------------------------
(***************************************************************************)
(* The sender-side credit book (credit-manager.cc): every order of the     *)
(* calls InitializeVc, ConsumeCredit, ReturnCredits and SetTotalCredits on *)
(* every channel.                                                          *)
(*                                                                         *)
(* The book is a passive object.  `inFlight' is what its caller knows and  *)
(* the book does not: the packets really sent on a credit and not credited *)
(* back.  A caller returns credits for packets in flight, one or several   *)
(* at a time.  (That no packet is credited twice is the endpoint's duty:   *)
(* see FabricLink.)                                                        *)
(***************************************************************************)
EXTENDS CreditBook

CONSTANTS
    VC,          \* virtual channels the caller may name
    MaxCredits,  \* largest window a channel is given
    MaxInFlight  \* bound on the packets the caller has in flight

ASSUME ConstantsAssumption ==
    /\ MaxCredits \in Nat
    /\ MaxInFlight \in Nat
    /\ MaxCredits + MaxInFlight < Modulus
    /\ 2 * MaxCredits < Modulus

VARIABLES
    vcCredits, \* m_vcCredits: the entry of every channel that has one
    inFlight,  \* packets sent on a credit and not yet credited back
    dropped    \* packets cuts of the window have dropped from the books, as far
               \* as that many are still in flight

vars == <<vcCredits, inFlight, dropped>>

known == DOMAIN vcCredits

Entry == [available : 0..MaxCredits, total : 0..MaxCredits, pending : 0..MaxCredits]

TypeOK ==
    /\ known \subseteq VC
    /\ vcCredits \in [known -> Entry]
    /\ inFlight \in [VC -> 0..MaxInFlight]
    /\ dropped \in [VC -> 0..MaxInFlight]

Init ==
    /\ vcCredits = [v \in {} |-> FreshVc(0)]
    /\ inFlight = [v \in VC |-> 0]
    /\ dropped = [v \in VC |-> 0]

-----------------------------------------------------------------------------

\* Endpoints set a channel up before any traffic on it.
InitializeVc(v, n) ==
    /\ v \notin known
    /\ vcCredits' = [w \in known \cup {v} |->
                        IF w = v THEN FreshVc(n) ELSE vcCredits[w]]
    /\ UNCHANGED <<inFlight, dropped>>

\* A refused call (unknown channel, no credit) changes nothing.
ConsumeCredit(v) ==
    /\ v \in known
    /\ HasCredits(vcCredits[v])
    /\ inFlight[v] < MaxInFlight
    /\ vcCredits' = [vcCredits EXCEPT ![v] = Consumed(@)]
    /\ inFlight' = [inFlight EXCEPT ![v] = @ + 1]
    /\ UNCHANGED dropped

ReturnCredits(v, n) ==
    /\ v \in known
    /\ n <= inFlight[v]
    /\ vcCredits' = [vcCredits EXCEPT ![v] = Returned(@, n)]
    /\ inFlight' = [inFlight EXCEPT ![v] = @ - n]
    /\ dropped' = [dropped EXCEPT ![v] = CappedAt(@, inFlight[v] - n)]

SetTotalCredits(v, n) ==
    /\ v \in known
    /\ vcCredits' = [vcCredits EXCEPT ![v] = Resized(@, n)]
    /\ dropped' = [dropped EXCEPT ![v] =
                     IF vcCredits[v].pending > n
                       THEN CappedAt(@ + vcCredits[v].pending - n, inFlight[v]) ELSE @]
    /\ UNCHANGED inFlight

Next ==
    \E v \in VC :
        \/ \E n \in 0..MaxCredits : InitializeVc(v, n)
        \/ ConsumeCredit(v)
        \/ \E n \in 1..MaxInFlight : ReturnCredits(v, n)
        \/ \E n \in 0..MaxCredits : SetTotalCredits(v, n)

Spec == Init /\ [][Next]_vars

-----------------------------------------------------------------------------

\* The assertion ConsumeCredit and ReturnCredits abort on: what is available
\* and what is pending add up to the window, through every sequence of sends,
\* batched returns and resizes, wrap-around of the 32-bit counters included.
CreditConservation == \A v \in known : Balanced(vcCredits[v])

\* The book never counts a packet as out that is not: pending credits are
\* packets in flight.  So a credit the book withholds always comes back.
NoPhantomPending == \A v \in known : vcCredits[v].pending <= inFlight[v]

\* The window bounds the packets in flight, through resizes up and down and the
\* cap and the floor of ReturnCredits.  SetTotalCredits drops packets from the
\* books when it cuts the window below what is pending, and their returns grant
\* credits for new ones: the flight exceeds the window by as many packets as
\* were dropped and by no more.
InFlightWithinWindow ==
    \A v \in known : inFlight[v] <= vcCredits[v].total + dropped[v]
=============================================================================
