--------------------------- MODULE MCFlowExecutor ---------------------------
(***************************************************************************)
(* Instances of FlowExecutor for TLC: every flow of two nodes beside one    *)
(* fixed flow that starts on any text.                                      *)
(***************************************************************************)
EXTENDS FlowExecutor

CONSTANTS f1, f2, n1, n2

MCNode(kind, next, other, validated) ==
    [kind |-> kind, next |-> next, other |-> other, validated |-> validated]

Targets == Nodes \cup {None}

\* Only the transitions a node uses are varied.
MCNodes ==
    {MCNode(k, None, None, FALSE) : k \in {"interactive", "end", "missing"}}
    \cup {MCNode(k, t, None, FALSE) : k \in {"message", "message_collect", "collect_input", "api_call"},
                                      t \in Targets}
    \cup {MCNode("collect_input", t, u, TRUE) : t, u \in Targets}
    \cup {MCNode("condition", n1, t, FALSE) : t \in {n2, None}}

\* The first flow starts on a keyword at n1.
MCFirst == {[trigger |-> "keyword_match", entry |-> n1, nodes |-> g] : g \in [Nodes -> MCNodes]}

\* The second one starts on anything and waits at a menu it never leaves.
MCSecond ==
    [trigger |-> "always", entry |-> n1,
     nodes |-> [n \in Nodes |-> IF n = n1 THEN MCNode("interactive", n2, None, FALSE)
                                ELSE MCNode("llm_generate", n1, None, FALSE)]]

MCGraphs == {[f \in Flows |-> IF f = f1 THEN g ELSE MCSecond] : g \in MCFirst}

MCHits == [f \in Flows |-> IF f = f1 THEN {"start"} ELSE {}]
=============================================================================
