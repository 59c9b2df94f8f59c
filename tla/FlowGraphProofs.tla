--------------------------- MODULE FlowGraphProofs ---------------------------
(***************************************************************************)
(* Proofs about FlowGraph, for every set of node keys and every graph.      *)
(***************************************************************************)
EXTENDS FlowGraph, WellFoundedInduction, TLAPS

-----------------------------------------------------------------------------
(* Lemmas *)

LEMMA LeastNumber ==
    ASSUME NEW T \in SUBSET Nat, T # {}
    PROVE  \E m \in T : \A n \in T : m <= n
  <1>1. PICK m \in T : \A n \in T : <<n, m>> \notin OpToRel(<, Nat)
    BY NatLessThanWellFounded, WFMin
  <1>2. \A n \in T : ~(n < m)
    BY <1>1 DEF OpToRel
  <1> QED
    BY <1>2

\* Find is a node of the graph, with the key that was asked for.
LEMMA FindNode ==
    ASSUME NEW g \in Graph, NEW k \in NodeKeys(g)
    PROVE  \E i \in DOMAIN g.nodes : Find(g, k) = g.nodes[i] /\ g.nodes[i].key = k
  <1> DEFINE T == {i \in DOMAIN g.nodes : g.nodes[i].key = k}
  <1>1. g.nodes \in Seq(Node) /\ DOMAIN g.nodes \subseteq Nat
    BY DEF Graph
  <1>2. T # {} /\ T \in SUBSET Nat
    BY <1>1 DEF NodeKeys
  <1>3. \E m \in T : \A n \in T : m <= n
    BY <1>2, LeastNumber
  <1> DEFINE P(i) == /\ g.nodes[i].key = k
                     /\ \A j \in DOMAIN g.nodes : g.nodes[j].key = k => i <= j
             first == CHOOSE i \in DOMAIN g.nodes : P(i)
  <1>4. \E i \in DOMAIN g.nodes : P(i)
    BY <1>3
  <1>5. first \in DOMAIN g.nodes /\ P(first)
    <2> HIDE DEF P
    <2> QED
      BY <1>4
  <1>6. Find(g, k) = g.nodes[first]
    BY DEF Find
  <1> QED
    BY <1>5, <1>6

\* Where the rules are obeyed, transitions stay among the nodes.
LEMMA NextInGraph ==
    ASSUME NEW g \in Graph, ObeysRules(g), NEW k \in NodeKeys(g)
    PROVE  Find(g, k).next \subseteq NodeKeys(g)
  BY FindNode DEF ObeysRules

LEMMA KeysOfGraph ==
    ASSUME NEW g \in Graph
    PROVE  NodeKeys(g) \subseteq Keys
  <1>1. \A i \in DOMAIN g.nodes : g.nodes[i] \in Node
    BY DEF Graph
  <1> QED
    BY <1>1 DEF NodeKeys, Node

-----------------------------------------------------------------------------
(* The search *)

Seen == reachable \cup queue

\* What the loop keeps: all it has seen are nodes, among them the entry; a node it
\* has visited leads to seen ones only; and whatever is closed under transitions
\* and holds the entry holds all it has seen.
LoopInv ==
    /\ ObeysRules(graph)
    /\ Seen \subseteq NodeKeys(graph) /\ graph.entry \in Seen
    /\ \A k \in reachable : Find(graph, k).next \subseteq Seen
    /\ \A S \in SUBSET NodeKeys(graph) :
          graph.entry \in S /\ Closed(graph, S) => Seen \subseteq S

SearchInv ==
    /\ verdict \in {"idle", "rules", "search", "valid", "invalid"}
    /\ verdict # "idle" => graph \in Graph
    /\ verdict \in {"idle", "rules"} => reachable = {} /\ queue = {}
    /\ verdict = "search" => LoopInv
    /\ verdict = "valid" => ObeysRules(graph)
    /\ SearchExact

LEMMA InitSearch ==
    ASSUME GraphInit
    PROVE  SearchInv
  BY DEF GraphInit, SearchInv, SearchExact

LEMMA ValidateStep ==
    ASSUME SearchInv, NEW g \in Graph, Validate(g)
    PROVE  SearchInv'
  BY DEF Validate, SearchInv, SearchExact

LEMMA AnsweredStep ==
    ASSUME SearchInv, Answered
    PROVE  SearchInv'
  BY DEF Answered, SearchInv, SearchExact

LEMMA IdleSearch ==
    ASSUME SearchInv, UNCHANGED validator
    PROVE  SearchInv'
  <1>1. graph' = graph /\ reachable' = reachable /\ queue' = queue /\ verdict' = verdict
    BY DEF validator
  <1>2. NodeKeys(graph)' = NodeKeys(graph) /\ ObeysRules(graph)' = ObeysRules(graph)
    BY <1>1 DEF NodeKeys, ObeysRules
  <1>3. /\ \A S : Closed(graph, S)' = Closed(graph, S)
        /\ \A j : Find(graph, j)' = Find(graph, j)
    BY <1>1 DEF Closed, NodeKeys, Find
  <1>4. LeadsToAll(graph)' = LeadsToAll(graph)
    BY <1>1, <1>2, <1>3 DEF LeadsToAll
  <1>5. LoopInv' = LoopInv
    BY <1>1, <1>2, <1>3 DEF LoopInv, Seen
  <1> QED
    BY <1>1, <1>2, <1>4, <1>5 DEF SearchInv, SearchExact

LEMMA VisitStep ==
    ASSUME SearchInv, NEW k \in Keys, Visit(k)
    PROVE  SearchInv'
  <1>1. verdict = "search" /\ k \in queue /\ LoopInv /\ graph \in Graph
    BY DEF Visit, SearchInv
  <1>2. graph' = graph /\ verdict' = verdict
    BY DEF Visit
  <1>3. k \in NodeKeys(graph)
    BY <1>1 DEF LoopInv, Seen
  <1> DEFINE more == Find(graph, k).next
  <1>4. more \subseteq NodeKeys(graph)
    BY <1>1, <1>3, NextInGraph DEF LoopInv
  <1>5. Seen' = Seen \cup more /\ reachable' = reachable \cup {k}
    BY <1>1 DEF Visit, Seen
  <1>6. \A S \in SUBSET NodeKeys(graph) :
           graph.entry \in S /\ Closed(graph, S) => Seen \cup more \subseteq S
    <2> SUFFICES ASSUME NEW S \in SUBSET NodeKeys(graph), graph.entry \in S, Closed(graph, S)
                 PROVE  Seen \cup more \subseteq S
      OBVIOUS
    <2>1. Seen \subseteq S
      BY <1>1 DEF LoopInv
    <2>2. k \in S
      BY <1>1, <2>1 DEF Seen
    <2> QED
      BY <1>3, <2>1, <2>2 DEF Closed
  <1>7. \A j \in reachable \cup {k} : Find(graph, j).next \subseteq Seen \cup more
    BY <1>1 DEF LoopInv
  <1> HIDE DEF more
  <1>8. LoopInv'
    <2>1. ObeysRules(graph) /\ Seen \subseteq NodeKeys(graph) /\ graph.entry \in Seen
      BY <1>1 DEF LoopInv
    <2>2. ObeysRules(graph)' /\ NodeKeys(graph)' = NodeKeys(graph)
      BY <1>2, <2>1 DEF ObeysRules, NodeKeys
    <2>3. /\ \A S : Closed(graph, S)' = Closed(graph, S)
          /\ \A j : Find(graph, j)' = Find(graph, j)
      BY <1>2 DEF Closed, NodeKeys, Find
    <2> QED
      BY <1>2, <1>4, <1>5, <1>6, <1>7, <2>1, <2>2, <2>3 DEF LoopInv
  <1> QED
    BY <1>1, <1>2, <1>8 DEF SearchInv, SearchExact

LEMMA DoneStep ==
    ASSUME SearchInv, SearchDone
    PROVE  SearchInv'
  <1>1. verdict = "search" /\ queue = {} /\ LoopInv /\ graph \in Graph
    BY DEF SearchDone, SearchInv
  <1>2. graph' = graph
    BY DEF SearchDone
  <1>3. Seen = reachable
    BY <1>1 DEF Seen
  <1>4. reachable \in SUBSET NodeKeys(graph) /\ graph.entry \in reachable
    BY <1>1, <1>3 DEF LoopInv
  <1>5. Closed(graph, reachable)
    BY <1>1, <1>3 DEF LoopInv, Closed
  <1>6. LeadsToAll(graph) <=> NodeKeys(graph) \subseteq reachable
    <2>1. ASSUME LeadsToAll(graph)
          PROVE  NodeKeys(graph) \subseteq reachable
      BY <1>4, <1>5, <2>1 DEF LeadsToAll
    <2>2. ASSUME NodeKeys(graph) \subseteq reachable
          PROVE  LeadsToAll(graph)
      BY <1>1, <1>3, <2>2 DEF LoopInv, LeadsToAll
    <2> QED
      BY <2>1, <2>2
  <1>7. LeadsToAll(graph)' <=> LeadsToAll(graph)
    BY <1>2 DEF LeadsToAll, NodeKeys, Closed, Find
  <1>8. ObeysRules(graph)'
    BY <1>1, <1>2 DEF LoopInv, ObeysRules, NodeKeys
  <1>9. verdict' = IF NodeKeys(graph) \subseteq reachable THEN "valid" ELSE "invalid"
    BY DEF SearchDone
  <1> QED
    BY <1>1, <1>2, <1>6, <1>7, <1>8, <1>9 DEF SearchInv, SearchExact

LEMMA SearchStep ==
    ASSUME SearchInv, Search
    PROVE  SearchInv'
  <1>1. ASSUME RuleBroken
        PROVE  SearchInv'
    <2>1. /\ graph' = graph /\ verdict = "rules" /\ verdict' = "invalid"
          /\ reachable' = {} /\ queue' = queue
      BY <1>1 DEF RuleBroken, SearchInv
    <2> QED
      BY <2>1 DEF SearchInv, SearchExact
  <1>2. ASSUME StartSearch
        PROVE  SearchInv'
    <2>1. /\ graph' = graph /\ verdict = "rules" /\ verdict' = "search" /\ ObeysRules(graph)
          /\ reachable' = {} /\ queue' = {graph.entry} /\ graph \in Graph
      BY <1>2 DEF StartSearch, SearchInv
    <2>2. Seen' = {graph.entry} /\ graph.entry \in NodeKeys(graph)
      BY <2>1 DEF Seen, ObeysRules
    <2>3. ObeysRules(graph)' /\ NodeKeys(graph)' = NodeKeys(graph)
      BY <2>1 DEF ObeysRules, NodeKeys
    <2>4. LoopInv'
      BY <2>1, <2>2, <2>3 DEF LoopInv
    <2> QED
      BY <2>1, <2>4 DEF SearchInv, SearchExact
  <1> QED
    BY <1>1, <1>2, VisitStep, DoneStep DEF Search

-----------------------------------------------------------------------------

\* FlowGraphValidator.validate: for every graph, with loops, shared targets and
\* doubled keys, the breadth-first search answers what the definition by closure
\* does: whether the entry leads to every node.
THEOREM SearchIsExact == GraphSpec => []SearchExact
  <1>1. GraphInit => SearchInv
    BY InitSearch
  <1>2. SearchInv /\ [GraphNext]_validator => SearchInv'
    <2> SUFFICES ASSUME SearchInv, [GraphNext]_validator
                 PROVE  SearchInv'
      OBVIOUS
    <2>1. ASSUME NEW g \in Graphs, Validate(g)
          PROVE  SearchInv'
      <3>1. g \in Graph
        BY FlowGraphAssumption
      <3> QED
        BY <2>1, <3>1, ValidateStep
    <2> QED
      BY <2>1, SearchStep, AnsweredStep, IdleSearch DEF GraphNext
  <1>3. SearchInv => SearchExact
    BY DEF SearchInv
  <1> QED
    BY <1>1, <1>2, <1>3, PTL DEF GraphSpec
=============================================================================
