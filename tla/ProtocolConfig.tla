--------------------------- MODULE ProtocolConfig ----------------------------
(***************************************************************************)
(* The graph ProtocolConfig::Compile emits for a stencil (protocol-config  *)
(* .cc, protocol-model.cc): one chain of transfers for each value of the   *)
(* first replicate variable.  A stencil is a record:                       *)
(*                                                                         *)
(*   groups, pairs  values of that variable, transfers in each chain       *)
(*   bytes          the size of a transfer                                 *)
(*   startup        there is a startup delay                               *)
(*   stepDelay      per_step_delay is positive                             *)
(*   any            complete = any                                         *)
(*                                                                         *)
(* Parsing, evaluation of expressions and range checks come before.        *)
(***************************************************************************)
EXTENDS TransactionGraph

\* Node identifiers: kind, group, position in the chain.
StartupOf(c)   == IF c.startup THEN {<<"startup", g, 0>> : g \in 1..c.groups} ELSE {}
StepDelayOf(c) == IF c.stepDelay THEN {<<"delay", g, p>> : g \in 1..c.groups, p \in 2..c.pairs} ELSE {}
SendsOf(c)     == {<<"send", g, p>> : g \in 1..c.groups, p \in 1..c.pairs}
WaitsOf(c)     == {<<"wait", g, p>> : g \in 1..c.groups, p \in 1..c.pairs}
Completion     == <<"complete", 0, 0>>

\* groupDep before the transfer p of group g is emitted, step delay included.
GroupDep(c, g, p) ==
    IF p = 1 THEN (IF c.startup THEN {<<"startup", g, 0>>} ELSE {})
    ELSE IF c.stepDelay THEN {<<"delay", g, p>>}
    ELSE {<<"wait", g, p - 1>>}

Compile(c) ==
    [i \in StartupOf(c) \cup StepDelayOf(c) \cup SendsOf(c) \cup WaitsOf(c) \cup {Completion} |->
        LET g == i[2]
            p == i[3]
        IN  CASE i[1] = "startup"  -> AddDelay({})
              [] i[1] = "delay"    -> AddDelay({<<"wait", g, p - 1>>})
              [] i[1] = "send"     -> AddAction(GroupDep(c, g, p), <<g, p>>, c.bytes)
              [] i[1] = "wait"     -> AddWait({<<"send", g, p>>}, <<g, p>>, c.bytes)
              [] i[1] = "complete" -> AddCompletion({<<"wait", h, c.pairs>> : h \in 1..c.groups}, c.any)]
=============================================================================
