------------------------------ MODULE FlowGraph ------------------------------
(***************************************************************************)
(* FlowGraphValidator of tenant-api: which flow graphs may be stored.       *)
(*                                                                          *)
(* validate() first applies the rules that look at one node at a time and,  *)
(* when none is broken, searches the graph from its entry for nodes that    *)
(* cannot be reached.  The search is the loop of the code, one node per     *)
(* step; the queue is a set, because the order of visits does not matter to *)
(* the answer.  validate() runs to its end before any other code of the     *)
(* process: there is one search at a time.                                  *)
(*                                                                          *)
(* Of a node's config only that is kept which a rule asks for.              *)
(***************************************************************************)
EXTENDS Integers, Sequences

CONSTANTS
    Keys,       \* node keys
    Graphs,     \* the graphs that clients send
    MaxNodes    \* MAX_NODES

NodeTypes == {"message", "interactive", "collect_input", "condition",
              "rag_lookup", "llm_generate", "api_call", "end"}

\* A type with a config that its rule (6 to 9) refuses: a forbidden pattern, a
\* private address, a max_tokens above MAX_LLM_TOKENS, a top_k above
\* MAX_RAG_TOP_K.  That last cap is 10; FlowGraphValidator.test.ts asks for 20.
Offences == {<<"condition", "forbidden_expr">>, <<"api_call", "private_url">>,
             <<"llm_generate", "max_tokens_over_1000">>, <<"rag_lookup", "top_k_over_10">>}

Node == [key : Keys, type : STRING, config : STRING, next : SUBSET Keys]
Graph == [entry : Keys, nodes : Seq(Node)]

ASSUME FlowGraphAssumption ==
    /\ \A g \in Graphs : g \in Graph
    /\ MaxNodes \in Nat

VARIABLES
    graph,      \* the graph under validation
    reachable,  \* the nodes the search has visited
    queue,      \* the nodes it has yet to visit
    verdict     \* where validate() stands, or its answer

validator == <<graph, reachable, queue, verdict>>

NoGraph == [entry |-> "none", nodes |-> <<>>]
NodeKeys(g) == {g.nodes[i].key : i \in DOMAIN g.nodes}

\* flow.nodes.find: of two nodes with one key the first.
Find(g, k) == g.nodes[CHOOSE i \in DOMAIN g.nodes :
                        /\ g.nodes[i].key = k
                        /\ \A j \in DOMAIN g.nodes : g.nodes[j].key = k => i <= j]

ObeysRules(g) ==
    /\ g.entry \in NodeKeys(g)
    /\ Len(g.nodes) <= MaxNodes
    /\ \A i \in DOMAIN g.nodes :
        /\ g.nodes[i].type \in NodeTypes
        /\ g.nodes[i].next \subseteq NodeKeys(g)
        /\ <<g.nodes[i].type, g.nodes[i].config>> \notin Offences

-----------------------------------------------------------------------------

GraphInit ==
    /\ graph = NoGraph
    /\ reachable = {}
    /\ queue = {}
    /\ verdict = "idle"

Validate(g) ==
    /\ verdict = "idle"
    /\ graph' = g
    /\ verdict' = "rules"
    /\ UNCHANGED <<reachable, queue>>

RuleBroken ==
    /\ verdict = "rules"
    /\ ~ObeysRules(graph)
    /\ verdict' = "invalid"
    /\ UNCHANGED <<graph, reachable, queue>>

StartSearch ==
    /\ verdict = "rules"
    /\ ObeysRules(graph)
    /\ verdict' = "search"
    /\ queue' = {graph.entry}
    /\ UNCHANGED <<graph, reachable>>

\* (mutant) the search does not go on from the nodes it finds
Visit_Shallow(k) ==
    /\ verdict = "search"
    /\ k \in queue
    /\ reachable' = reachable \cup {k}
    /\ queue' = queue \ {k}
    /\ UNCHANGED <<graph, verdict>>

Visit(k) ==
    /\ verdict = "search"
    /\ k \in queue
    /\ reachable' = reachable \cup {k}
    /\ queue' = (queue \ {k}) \cup (Find(graph, k).next \ reachable')
    /\ UNCHANGED <<graph, verdict>>

SearchDone ==
    /\ verdict = "search"
    /\ queue = {}
    /\ verdict' = IF NodeKeys(graph) \subseteq reachable THEN "valid" ELSE "invalid"
    /\ UNCHANGED <<graph, reachable, queue>>

\* The caller takes the answer and the next graph can come.
Answered ==
    /\ verdict \in {"valid", "invalid"}
    /\ graph' = NoGraph
    /\ reachable' = {}
    /\ queue' = {}
    /\ verdict' = "idle"

Search == RuleBroken \/ StartSearch \/ (\E k \in Keys : Visit(k)) \/ SearchDone

GraphNext == (\E g \in Graphs : Validate(g)) \/ Search \/ Answered

GraphSpec == GraphInit /\ [][GraphNext]_validator

-----------------------------------------------------------------------------

Closed(g, S) == \A k \in S \cap NodeKeys(g) : Find(g, k).next \subseteq S

\* What rule 3 asks, with no search in it: every set that holds the entry and is
\* closed under transitions holds every node.
LeadsToAll(g) ==
    \A S \in SUBSET NodeKeys(g) : g.entry \in S /\ Closed(g, S) => S = NodeKeys(g)

\* What a stored graph is meant to be.
WellFormed(g) == ObeysRules(g) /\ LeadsToAll(g)

\* FlowGraphValidator.validate, rule 3: the search decides exactly whether the
\* entry leads to every node.  A graph that is let through has no node out of
\* reach, and one that is refused after a search has one, whatever loops, shared
\* targets and doubled keys there are.  (About rules 1, 2 and 4 to 9 it says
\* nothing: their answer is ObeysRules itself.)
SearchExact ==
    /\ verdict = "valid" => LeadsToAll(graph)
    /\ verdict = "invalid" /\ reachable # {} => ~LeadsToAll(graph)
=============================================================================
