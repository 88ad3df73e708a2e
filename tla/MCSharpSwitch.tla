---------------------------- MODULE MCSharpSwitch ----------------------------
(***************************************************************************)
(* SharpSwitch for TLC: the collectives a run starts from.                 *)
(***************************************************************************)
EXTENDS SharpSwitch

\* Two rounds of a pipelined all-reduce of three bytes, with padding first and
\* last.
Reduce ==
    [kind |-> "allreduce", threshold |-> 2, flows |-> {1}, dataSize |-> 3, partitions |-> 2,
     rounds |-> 2, registered |-> {}, maxFaults |-> 2,
     fragments |-> (0 :> <<0, 1, 2>>) @@ (1 :> <<2, 1>>)]

\* Less data than partitions, and late padding on every lane.
Tiny == [Reduce EXCEPT !.dataSize = 1, !.fragments = (0 :> <<1, 0>>) @@ (1 :> <<0, 1>>)]

\* One multicast for the whole result.
Single == [Reduce EXCEPT !.partitions = 0, !.rounds = 1,
                         !.fragments = (0 :> <<0, 1, 2>>) @@ (1 :> <<2, 1, 0>>)]

\* All-gathers: uneven chunks, and fewer bytes than ranks.
AllGather ==
    [Reduce EXCEPT !.kind = "allgather", !.dataSize = 5,
                   !.fragments = (0 :> <<1, 2>>) @@ (1 :> <<1, 1>>)]

FewBytes ==
    [Reduce EXCEPT !.kind = "allgather", !.threshold = 3, !.dataSize = 2, !.registered = 0 .. 2,
                   !.fragments = (0 :> <<1>>) @@ (1 :> <<1>>) @@ (2 :> <<>>)]

\* Three flows at once, whose repair windows compete.
Flows3 ==
    [Reduce EXCEPT !.flows = 1 .. 3, !.dataSize = 1, !.partitions = 0, !.rounds = 1,
                   !.fragments = (0 :> <<1>>) @@ (1 :> <<1>>)]

Collectives == {Reduce, Tiny, Single, AllGather, FewBytes, Flows3}
=============================================================================
