--------------------------- MODULE MCRingAllReduce ---------------------------
(***************************************************************************)
(* RingAllReduce for TLC.                                                  *)
(***************************************************************************)
EXTENDS RingAllReduce

Clockwise(n) == [g \in 0..(n - 1) |-> (g + 1) % n]

\* The embedding 0 -> 1 -> 3 -> 2.
Reordered == [g \in 0..3 |-> CASE g = 0 -> 1 [] g = 1 -> 3 [] g = 2 -> 0 [] g = 3 -> 2]

\* The degenerate rings; fewer bytes than ranks; even and uneven segments; and
\* uneven segments on a reordered ring.
SmallRings ==
    [next : {Clockwise(1)}, dataSize : {1}, useTransaction : {TRUE}]
    \cup [next : {Clockwise(2)}, dataSize : {0, 3}, useTransaction : BOOLEAN]
    \cup [next : {Clockwise(3)}, dataSize : {2, 3, 5}, useTransaction : {FALSE}]
    \cup [next : {Clockwise(3)}, dataSize : {3}, useTransaction : {TRUE}]
    \cup [next : {Reordered}, dataSize : {5}, useTransaction : {FALSE}]

SmallGraphs == {GraphOf(r) : r \in SmallRings}
=============================================================================
