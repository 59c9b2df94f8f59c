---------------------------- MODULE MCFlowAdmin ----------------------------
(***************************************************************************)
(* Instances of FlowAdmin for TLC.                                          *)
(***************************************************************************)
EXTENDS FlowAdmin

CONSTANTS c1, c2, r1, t1

MCNode(k, t, targets, cfg) == [key |-> k, type |-> t, config |-> cfg, next |-> targets]
MCGraph(e, ns) == [entry |-> e, nodes |-> ns]

Chain == <<MCNode("a", "collect_input", {"b"}, "plain"), MCNode("b", "end", {}, "plain")>>
Loop  == <<MCNode("a", "condition", {"a", "b"}, "plain"), MCNode("b", "message", {"a"}, "plain")>>

\* A graph for every rule, and those that only the search tells apart: a chain
\* from its head and from its tail.
MCGraphs ==
    {MCGraph("a", Chain), MCGraph("b", Chain),
     MCGraph("b", <<MCNode("a", "end", {}, "plain")>>),
     MCGraph("a", <<MCNode("a", "message", {"b"}, "plain")>>),
     MCGraph("a", <<MCNode("a", "api_call", {}, "private_url")>>),
     MCGraph("a", <<MCNode("a", "menu", {}, "plain")>>),
     MCGraph("a", <<MCNode("a", "rag_lookup", {}, "top_k_over_10")>>),
     MCGraph("a", Chain \o Chain)}

\* A rename, another entry, other nodes, two nodes of one key.
MCEdits ==
    {[name |-> "m", entry |-> None, nodes |-> None],
     [name |-> None, entry |-> "b", nodes |-> None],
     [name |-> None, entry |-> None, nodes |-> Loop],
     [name |-> None, entry |-> None, nodes |-> <<MCNode("a", "end", {}, "plain"),
                                                MCNode("a", "end", {}, "plain")>>]}

MCHome(t) == r1
=============================================================================
