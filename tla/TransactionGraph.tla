-------------------------- MODULE TransactionGraph ---------------------------
(***************************************************************************)
(* Transaction graphs (protocol-transaction.cc): a graph is a function     *)
(* from node identifiers to nodes.                                         *)
(*                                                                         *)
(*   type      ACTION, WAIT, DELAY or COMPLETE                             *)
(*   deps      the nodes it depends on                                     *)
(*   any       one completed dependency is enough (ANY, else ALL)          *)
(*   transfer  ACTION: the transfer it starts; WAIT: the one it waits for  *)
(*   bytes     ACTION: what it sends; WAIT: what must be delivered         *)
(*                                                                         *)
(* Source, destination, flow and stage of a matcher single out the events  *)
(* of one transfer, which is all that is kept of them.  Every wait of the  *)
(* program counts bytes, none counts events.                               *)
(***************************************************************************)
EXTENDS Integers, FiniteSets

NoTransfer == "none"

AddAction(deps, transfer, bytes) ==
    [type |-> "ACTION", deps |-> deps, any |-> FALSE, transfer |-> transfer, bytes |-> bytes]

AddWait(deps, transfer, bytes) ==
    [type |-> "WAIT", deps |-> deps, any |-> FALSE, transfer |-> transfer, bytes |-> bytes]

AddDelay(deps) ==
    [type |-> "DELAY", deps |-> deps, any |-> FALSE, transfer |-> NoTransfer, bytes |-> 0]

AddCompletion(deps, any) ==
    [type |-> "COMPLETE", deps |-> deps, any |-> any, transfer |-> NoTransfer, bytes |-> 0]

OfType(g, type) == {i \in DOMAIN g : g[i].type = type}

\* Every graph of the program is put together from the pairs AddTransaction
\* emits: an action, and a wait for all its bytes that depends on it alone.
Paired(g) ==
    /\ \A i \in OfType(g, "WAIT") :
          \E a \in OfType(g, "ACTION") :
              g[i] = AddWait({a}, g[a].transfer, g[a].bytes)
    /\ \A a \in OfType(g, "ACTION") : \E i \in OfType(g, "WAIT") : g[i].deps = {a}
    /\ \A a, b \in OfType(g, "ACTION") : g[a].transfer = g[b].transfer => a = b

\* Kahn's algorithm, all nodes of a round at once: Sorted[k] are the nodes
\* visited after k rounds.
Acyclic(g) ==
    LET Sorted[k \in Nat] ==
          IF k = 0 THEN {}
          ELSE LET visited == Sorted[k - 1] IN {i \in DOMAIN g : g[i].deps \subseteq visited}
    IN  Sorted[Cardinality(DOMAIN g)] = DOMAIN g

\* The search backwards from the completion node.
AllReachCompletion(g) ==
    LET Reaching[k \in Nat] ==
          IF k = 0 THEN OfType(g, "COMPLETE")
          ELSE LET found == Reaching[k - 1] IN found \cup UNION {g[i].deps : i \in found}
    IN  Reaching[Cardinality(DOMAIN g)] = DOMAIN g

Validate(g) ==
    /\ \A i \in OfType(g, "WAIT") : g[i].bytes > 0
    /\ \A i \in DOMAIN g : g[i].deps \subseteq DOMAIN g \ {i}
    /\ Cardinality(OfType(g, "COMPLETE")) = 1
    /\ Acyclic(g)
    /\ AllReachCompletion(g)
=============================================================================
