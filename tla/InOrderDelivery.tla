--------------------------- MODULE InOrderDelivery ---------------------------
(***************************************************************************)
(* What a receiving endpoint promises the application of one flow: every   *)
(* sequence number is told about once, in order, either with its packet or *)
(* as permanently lost; the packet only if it arrived, the loss only if    *)
(* the sender declared it.                                                 *)
(***************************************************************************)
EXTENDS Integers

CONSTANT SeqBound

VARIABLES
    arrived,   \* numbers of which a copy has reached the endpoint
    declared,  \* numbers whose loss notice has reached the endpoint
    told       \* told[s]: what the application was told of s, for s = 0, 1, ...

Outcome == {"data", "lost"}

Init == arrived = {} /\ declared = {} /\ told = [s \in {} |-> "data"]

\* What has been told stays told; what is added are the next numbers.
Tell ==
    \E n \in 0..SeqBound :
        /\ told' \in [0..(n - 1) -> Outcome]
        /\ DOMAIN told \subseteq DOMAIN told'
        /\ \A s \in DOMAIN told : told'[s] = told[s]
        /\ \A s \in DOMAIN told' \ DOMAIN told :
               IF told'[s] = "data" THEN s \in arrived' ELSE s \in declared'

Next ==
    /\ arrived \subseteq arrived' /\ declared \subseteq declared'
    /\ Tell

Spec == Init /\ [][Next]_<<arrived, declared, told>>
=============================================================================
