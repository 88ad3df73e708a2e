---------------------------- MODULE MCPfcFabric ------------------------------
(***************************************************************************)
(* PfcFabric for TLC: the configurations a run starts from.                *)
(***************************************************************************)
EXTENDS PfcFabric

CONSTANTS a, b,   \* endpoints
          d, e    \* destinations

Two(x, y) == [s \in Source |-> IF s = a THEN x ELSE y]

None == Two(<<>>, <<>>)
Times(n, c) == [i \in 1..n |-> c]

\* One endpoint sends n bulk and m RDMA packets of one class; the fabric is
\* reliable and there is no retry timeout.
Plain(n, m) ==
    [window |-> 5, paced |-> FALSE, mode |-> 1, perVc |-> FALSE, dropThreshold |-> 0, quanta |-> 0, timeout |-> FALSE,
     losable |-> {"PAUSE", "RESUME"}, maxLosses |-> 0, exempt |-> <<>>, ingress |-> Two(1, 2),
     bulk |-> Two(Times(n, <<d, 1>>), <<>>), rdma |-> Two(Times(m, <<d, 1>>), <<>>)]

\* Bulk and RDMA packets share the window, with both kinds of threshold.
SharedWindow == {[Plain(3, 2) EXCEPT !.window = 3, !.mode = m] : m \in {1, 2}}

\* As many PFC frames are lost as there are re-sends.
LostFrames == {[Plain(5, 0) EXCEPT !.maxLosses = ResendLimit]}

\* Timeouts race ACKs and NACKs, which may be lost too.
Timeouts ==
    {[Plain(2, 0) EXCEPT !.timeout = TRUE, !.dropThreshold = 1, !.losable = @ \cup {"NACK"}, !.maxLosses = 1]}

\* Pauses that expire, and pauses of no length that are asserted again.
Quanta == {[Plain(5, 0) EXCEPT !.mode = 3, !.quanta = q] : q \in {0, 1}}

\* Two destinations, and two channels, behind one hop.
TwoDestinations ==
    {[Plain(6, 0) EXCEPT !.bulk[a] = Times(3, <<d, 1>>) \o Times(3, <<e, 1>>)]}
TwoChannels ==
    {[Plain(6, 0) EXCEPT !.perVc = TRUE,
                         !.bulk[a] = Times(3, <<d, 1>>) \o Times(3, <<d, 2>>)]}

\* Two endpoints behind different input ports.
Incast == {[Plain(3, 0) EXCEPT !.bulk[b] = Times(2, <<d, 1>>)]}

\* The threshold of the lossy fabric is met before the pause takes effect.
LossyDrop == {[Plain(5, 0) EXCEPT !.dropThreshold = 2]}

\* Control frames take places in the queue between the data packets, or fill
\* it to its hard cap.
Feedback ==
    {[Plain(5, 0) EXCEPT !.exempt = <<<<2, 1>>>>],
     [Plain(2, 0) EXCEPT !.exempt = Times(VoqDepth + 1, <<2, 1>>)]}

\* Sends are deferred: pauses, repairs and timeouts meet packets in the pacer.
Deferred ==
    {[f EXCEPT !.paced = TRUE] :
        f \in Timeouts \cup {[Plain(4, 0) EXCEPT !.maxLosses = ResendLimit],
                             [Plain(3, 1) EXCEPT !.dropThreshold = 2]}}

AllFabrics ==
    SharedWindow \cup LostFrames \cup Timeouts \cup Quanta \cup TwoDestinations
        \cup TwoChannels \cup Incast \cup LossyDrop \cup Feedback \cup Deferred

\* Two destinations behind one hop, and a RESUME is lost.
LostResume == {[f EXCEPT !.maxLosses = ResendLimit] : f \in TwoDestinations}
=============================================================================
