----------------------------- MODULE CreditBook ------------------------------
(***************************************************************************)
(* One virtual channel's entry of the sender-side credit book              *)
(* (credit-manager.cc, VcCreditInfo) and what each call makes of it.  The  *)
(* operators are functions of the entry, so that CreditManager, which      *)
(* explores every order of calls, and FabricLink, where an endpoint makes  *)
(* them, use the same definitions.                                         *)
(***************************************************************************)
EXTENDS Integers

CONSTANT
    Modulus      \* 2^32: the counters are uint32_t

ASSUME ModulusAssumption == Modulus \in Nat \ {0}

CappedAt(n, cap) == IF n > cap THEN cap ELSE n

\* InitializeVc: a fresh window of n credits.
FreshVc(n) == [available |-> n, total |-> n, pending |-> 0]

HasCredits(c) == c.available > 0

\* ConsumeCredit that does not take the credit it found.
ConsumedFree(c) ==
    [available |-> c.available, total |-> c.total, pending |-> c.pending + 1]

\* ConsumeCredit, once it has found a credit.
Consumed(c) ==
    [available |-> c.available - 1, total |-> c.total, pending |-> c.pending + 1]

\* ReturnCredits that leaves the credits pending when more are returned than
\* are pending.
UnflooredReturned(c, n) ==
    [available |-> CappedAt((c.available + n) % Modulus, c.total),
     total     |-> c.total,
     pending   |-> IF c.pending >= n THEN c.pending - n ELSE c.pending]

\* ReturnCredits.
Returned(c, n) ==
    [available |-> CappedAt((c.available + n) % Modulus, c.total),
     total     |-> c.total,
     pending   |-> IF c.pending >= n THEN c.pending - n ELSE 0]

\* A resize that leaves out the overdraft branch: the wrapped difference is
\* capped at the new window and stays available.
UnclampedResized(c, n) ==
    [available |-> CappedAt((c.available + n - c.total) % Modulus, n),
     total     |-> n,
     pending   |-> c.pending]

\* SetTotalCredits on a channel that exists.  The difference is added modulo
\* 2^32, so a window that shrinks below what is spent wraps to a huge value,
\* the cap turns that into n, and the overdraft branch takes it away again.
Resized(c, n) ==
    LET overdraft == c.pending > n
    IN  [available |-> IF overdraft THEN 0
                       ELSE CappedAt((c.available + n - c.total) % Modulus, n),
         total     |-> n,
         pending   |-> IF overdraft THEN n ELSE c.pending]

\* A callback that waits for the whole window.
WakesWhenFull(before, after) == before.available = 0 /\ after.available = after.total

\* ReturnCredits fires m_creditAvailableCallback exactly when the channel
\* leaves the state in which it had no credit.
WakesSender(before, after) == before.available = 0 /\ after.available > 0

\* The assertion of ConsumeCredit and ReturnCredits.
Balanced(c) == c.available + c.pending = c.total
=============================================================================
