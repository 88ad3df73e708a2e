---------------------------- MODULE MCLlrManager -----------------------------
(***************************************************************************)
(* LlrManager for TLC: the configurations a run starts from.               *)
(***************************************************************************)
EXTENDS LlrManager

CONSTANTS f, g  \* the flows

Manager(mode, policy, timeout, ofF, ofG) ==
    [llrMode |-> mode, overflowPolicy |-> policy, timeoutRetransmit |-> timeout,
     load |-> [h \in Flow |-> IF h = f THEN ofF ELSE ofG]]

\* One go-back-N flow, whose requests cover several packets.
GoBackN == {Manager("GO_BACK_N", "DROP_OLDEST", TRUE, 3, 0)}

\* Two flows that share the store and the retry buffer, in both modes, with
\* and without the timeout backstop.
Shared ==
    {Manager("SACK", "DROP_NEWEST", FALSE, 2, 2),
     Manager("GO_BACK_N", "DROP_OLDEST", FALSE, 2, 1),
     Manager("SACK", "DROP_OLDEST", TRUE, 2, 1)}

Mixed == GoBackN \cup Shared
=============================================================================
