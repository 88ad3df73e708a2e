---------------------------- MODULE MCFabricLink -----------------------------
(***************************************************************************)
(* FabricLink for TLC: the configurations a run starts from.               *)
(***************************************************************************)
EXTENDS FabricLink

Flow(local, mode, bypass, load, silentDrops, maxDrops) ==
    [local |-> local, llrMode |-> mode, bypass |-> bypass, soGbnStrict |-> bypass,
     load |-> load, silentDrops |-> silentDrops, maxDrops |-> maxDrops]

\* Flows inside a node that use the reorder buffer, in both retry modes, with
\* three packets of which one is corrupted.
Reordered ==
    {Flow(TRUE, mode, FALSE, 3, {}, 1) : mode \in {"SACK", "GO_BACK_N"}}

\* Endpoints that bypass the reorder buffer with m_soGbnStrict set: the flows
\* between nodes are strict, those inside a node are not.
Bypassed ==
    {Flow(local, "GO_BACK_N", TRUE, 2, FrameType, 2) : local \in BOOLEAN}

AllFlows == Reordered \cup Bypassed

\* The reordered flows on a fabric that loses frames of every type but the
\* loss notice, which nothing repeats.
NoticesArrive ==
    {Flow(TRUE, mode, FALSE, 2, FrameType \ {"PERMANENT_LOSS"}, 2) :
        mode \in {"SACK", "GO_BACK_N"}}
=============================================================================
