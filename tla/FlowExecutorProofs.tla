-------------------------- MODULE FlowExecutorProofs --------------------------
(***************************************************************************)
(* Proofs about FlowExecutor, for flows of any number of nodes and of any   *)
(* shape, any texts, and any limits.                                        *)
(***************************************************************************)
EXTENDS FlowExecutor, TLAPS

-----------------------------------------------------------------------------
(* The inductive invariant *)

Node(q)  == graph[q.flow].nodes[q.node]
Entry(q) == graph[q.flow].entry

\* A session, stored or not: what it has collected belongs to its flow, and every
\* validation error that was sent has been counted.
SessionInv(q) ==
    /\ q.state = "IN_FLOW" =>
          /\ q.flow \in Flows
          /\ q.unasked \subseteq {Entry(q)}
          /\ \A n \in q.slots : graph[q.flow].nodes[n].kind = "collect_input"
    /\ q.errors <= q.retry /\ q.errors <= RetryLimit

\* A session that may be saved.  A collect_input it rests at has sent its prompt,
\* unless it is the entry of the flow.
Rested(q) ==
    q.state = "IN_FLOW" =>
       /\ q.node # None
       /\ Node(q).kind \in Waiting \/ None \in Exits(Node(q))
       /\ Node(q).kind = "collect_input" => q.node \in q.prompted \cup {Entry(q)}

\* In a flow a run goes on from what is stored.
Continues ==
    InFlow /\ s.state = "IN_FLOW" => s.flow = stored.flow /\ stored.slots \subseteq s.slots

StoredInv == SessionInv(stored) /\ Rested(stored) /\ AnswerMeetsItsPrompt

\* Only the first node of a flow that has just started is given a text; whatever
\* waits at the end of a run has prompted in it or has been answered without.
RunInv ==
    /\ SessionInv(s)
    /\ phase = "start" => s.state # "IN_FLOW" /\ ~InFlow
    /\ phase = "continue" => s.state = "IN_FLOW" /\ Rested(s)
    /\ phase = "loop" =>
          /\ s.state = "IN_FLOW"
          /\ text = Empty \/ (asked = None /\ s.node = Entry(s))
    /\ phase = "finish" =>
          /\ Rested(s)
          /\ s.state = "IN_FLOW" /\ Node(s).kind \in Waiting =>
                asking = s.node \/ (asking = None /\ asked = None)
    /\ phase # "finish" => asking = None
    /\ phase # "idle" => Continues

IInv == TypeOK /\ StoredInv /\ RunInv

-----------------------------------------------------------------------------
(* Node executors *)

\* What executing a node may do to a session.
Sound(k, q, t, r) ==
    /\ r.session \in SessionType
    /\ r.session.state = q.state /\ r.session.flow = q.flow /\ r.session.node = q.node
    /\ r.next \in Nodes \cup {None}
    /\ r.then \in {"go", "wait", "done", "raised"}
    /\ r.then = "wait" => r.next = None /\ k.kind \in Waiting /\ q.node \in r.session.prompted
    /\ r.then = "go" => /\ k.kind \notin {"message_collect", "interactive", "end"}
                        /\ r.next = None => k.kind = "collect_input" \/ None \in Exits(k)
                        /\ k.kind = "collect_input" => t # Empty
    /\ r.then = "done" => k.kind = "end" /\ r.next = None
    /\ q.prompted \subseteq r.session.prompted
    /\ q.slots \subseteq r.session.slots
    /\ r.session.slots # q.slots => k.kind = "collect_input"
    /\ r.session.slots \subseteq q.slots \cup {q.node}
    /\ r.session.unasked \subseteq q.unasked \cup {q.node}
    /\ r.session.unasked # q.unasked =>
          k.kind = "collect_input" /\ t # Empty /\ q.node \notin q.prompted
    /\ q.errors <= q.retry /\ q.errors <= RetryLimit =>
          r.session.errors <= r.session.retry /\ r.session.errors <= RetryLimit

LEMMA AwaitSound ==
    ASSUME NEW q \in SessionType, q.node \in Nodes
    PROVE  LET r == Await(q) IN
           /\ r.session \in SessionType
           /\ r.session.prompted = q.prompted \cup {q.node}
           /\ r.session.state = q.state /\ r.session.flow = q.flow /\ r.session.node = q.node
           /\ r.session.slots = q.slots /\ r.session.unasked = q.unasked
           /\ r.session.retry = q.retry /\ r.session.errors = q.errors
           /\ r.next = None /\ r.then = "wait"
  BY DEF Await, Result, SessionType

LEMMA FillSound ==
    ASSUME NEW q \in SessionType, q.node \in Nodes
    PROVE  /\ Fill(q) \in SessionType
           /\ Fill(q).prompted = q.prompted
           /\ Fill(q).state = q.state /\ Fill(q).flow = q.flow /\ Fill(q).node = q.node
           /\ Fill(q).slots = q.slots \cup {q.node}
           /\ Fill(q).unasked = IF q.node \in q.prompted THEN q.unasked
                                ELSE q.unasked \cup {q.node}
           /\ Fill(q).retry = q.retry /\ Fill(q).errors = q.errors
  BY DEF Fill, SessionType

LEMMA RetrySound ==
    ASSUME NEW q \in SessionType
    PROVE  /\ Retry(q) \in SessionType
           /\ Retry(q).prompted = q.prompted
           /\ Retry(q).state = q.state /\ Retry(q).flow = q.flow /\ Retry(q).node = q.node
           /\ Retry(q).slots = q.slots /\ Retry(q).unasked = q.unasked
           /\ Retry(q).errors = q.errors
           /\ Retry(q).retry = IF q.retry > RetryLimit THEN q.retry ELSE q.retry + 1
  BY ExecutorAssumption DEF Retry, SessionType

LEMMA CollectSound ==
    ASSUME NEW k \in NodeType, k.kind = "collect_input", NEW q \in SessionType, q.node \in Nodes,
           NEW t \in Texts
    PROVE  Sound(k, q, t, execute_collect_input(k, q, t))
  <1>1. k.next \in Nodes \cup {None} /\ k.other \in Nodes \cup {None}
    BY DEF NodeType
  <1>2. CASE t = Empty
    BY <1>2, AwaitSound DEF Sound, execute_collect_input, Waiting
  <1>3. CASE t # Empty /\ (~k.validated \/ t \in Valid)
    <2>1. execute_collect_input(k, q, t) = Go(Fill(q), k.next)
      BY <1>3 DEF execute_collect_input
    <2>2. PICK p \in SessionType : p = Fill(q)
      BY FillSound
    <2>3. /\ p.prompted = q.prompted /\ p.slots = q.slots \cup {q.node}
          /\ p.state = q.state /\ p.flow = q.flow /\ p.node = q.node
          /\ p.retry = q.retry /\ p.errors = q.errors
      BY <2>2, FillSound
    <2>4. p.unasked \subseteq q.unasked \cup {q.node}
      BY <2>2, FillSound
    <2>5. p.unasked # q.unasked => q.node \notin q.prompted
      BY <2>2, FillSound
    <2> QED
      BY <1>1, <1>3, <2>1, <2>2, <2>3, <2>4, <2>5 DEF Sound, Go, Result
  <1>4. CASE t # Empty /\ k.validated /\ t \notin Valid /\ Retry(q).retry > RetryLimit
    <2>1. execute_collect_input(k, q, t) = Go(Retry(q), k.other)
      BY <1>4 DEF execute_collect_input
    <2>2. q.errors \in Nat /\ q.retry \in Nat /\ RetryLimit \in Nat
      BY ExecutorAssumption DEF SessionType
    <2> QED
      BY <1>1, <1>4, <2>1, <2>2, RetrySound DEF Sound, Go, Result
  <1>5. CASE t # Empty /\ k.validated /\ t \notin Valid /\ ~(Retry(q).retry > RetryLimit)
    <2> DEFINE p == [Retry(q) EXCEPT !.errors = @ + 1]
    <2>1. execute_collect_input(k, q, t) = Await(p)
      BY <1>5 DEF execute_collect_input
    <2>2. q.errors \in Nat /\ q.retry \in Nat /\ RetryLimit \in Nat
      BY ExecutorAssumption DEF SessionType
    <2>3. /\ p \in SessionType /\ p.prompted = q.prompted
          /\ p.state = q.state /\ p.flow = q.flow /\ p.node = q.node
          /\ p.slots = q.slots /\ p.unasked = q.unasked
          /\ p.errors = q.errors + 1 /\ p.retry = Retry(q).retry
      BY RetrySound DEF SessionType
    <2> HIDE DEF p
    <2>4. q.errors <= q.retry => p.errors <= p.retry /\ p.errors <= RetryLimit
      BY <1>5, <2>2, <2>3, RetrySound
    <2> QED
      BY <2>1, <2>3, <2>4, AwaitSound DEF Sound, Waiting
  <1> QED
    BY <1>2, <1>3, <1>4, <1>5

LEMMA GoSound ==
    ASSUME NEW k \in NodeType, NEW q \in SessionType, NEW t,
           k.kind \notin {"message_collect", "interactive", "end", "collect_input"},
           NEW n \in Exits(k)
    PROVE  Sound(k, q, t, Go(q, n))
  BY DEF Sound, Go, Result, NodeType, Exits

LEMMA NodeSound ==
    ASSUME NEW k \in NodeType, k.kind # "missing", NEW q \in SessionType, q.node \in Nodes,
           NEW t \in Texts, NEW r \in execute_node(k, q, t)
    PROVE  Sound(k, q, t, r)
  <1>0. k.kind \in Kinds
    BY DEF NodeType
  <1>1. CASE k.kind = "collect_input"
    BY <1>1, CollectSound DEF execute_node
  <1>2. CASE k.kind \in {"message_collect", "interactive"}
    <2>1. r = Await(q)
      BY <1>2 DEF execute_node, execute_message, execute_interactive
    <2> QED
      BY <1>2, <2>1, AwaitSound DEF Sound, Waiting
  <1>3. CASE k.kind \in {"message", "rag_lookup", "llm_generate", "condition"}
    <2>1. PICK n \in Exits(k) : r = Go(q, n)
      BY <1>3 DEF execute_node, execute_message, execute_rag_lookup, execute_llm_generate,
                  execute_condition, Exits
    <2> QED
      BY <1>3, <2>1, GoSound
  <1>4. CASE k.kind = "api_call"
    <2>1. r \in {Go(q, k.next), Result(q, None, "raised")}
      BY <1>4 DEF execute_node, execute_api_call
    <2>2. Sound(k, q, t, Result(q, None, "raised"))
      BY DEF Sound, Result
    <2> QED
      BY <1>4, <2>1, <2>2, GoSound DEF Exits
  <1>5. CASE k.kind = "end"
    <2>1. r = Result(q, None, "done")
      BY <1>5 DEF execute_node, execute_end
    <2> QED
      BY <1>5, <2>1 DEF Sound, Result
  <1> QED
    BY <1>0, <1>1, <1>2, <1>3, <1>4, <1>5 DEF Kinds

-----------------------------------------------------------------------------
(* The steps *)

LEMMA GraphTyped ==
    ASSUME TypeOK
    PROVE  /\ graph \in [Flows -> FlowType]
           /\ \A f \in Flows : /\ graph[f].entry \in Nodes \cup {None}
                                /\ graph[f].nodes \in [Nodes -> NodeType]
  BY ExecutorAssumption DEF TypeOK, FlowType

LEMMA NewSessionFine ==
    /\ NewSession \in SessionType /\ NewSession.state = "IDLE"
    /\ NewSession.errors = 0 /\ NewSession.retry = 0
  BY ExecutorAssumption DEF NewSession, SessionType

\* The node a run executes, and what it may leave.
LEMMA ExecutedNode ==
    ASSUME IInv, s.state = "IN_FLOW", NodeExists(s), NEW r \in Outcomes(text)
    PROVE  /\ s.flow \in Flows /\ s.node \in Nodes
           /\ Node(s) \in NodeType /\ Node(s).kind # "missing"
           /\ Sound(Node(s), s, text, r)
  <1>1. s \in SessionType /\ text \in Texts /\ s.flow \in Flows
    BY DEF IInv, TypeOK, RunInv, SessionInv
  <1>2. s.node \in Nodes
    BY <1>1 DEF NodeExists, SessionType
  <1>3. Node(s) \in NodeType /\ Node(s).kind # "missing"
    BY <1>1, <1>2, GraphTyped DEF IInv, Node, NodeExists
  <1> QED
    BY <1>1, <1>2, <1>3, NodeSound DEF Outcomes, Node

\* A session that has executed a node and stays in its flow.
LEMMA Executed ==
    ASSUME IInv, s.state = "IN_FLOW", NodeExists(s), NEW r \in Outcomes(text),
           \/ text = Empty
           \/ s.node = Entry(s)
           \/ Node(s).kind = "collect_input" => s.node \in s.prompted
    PROVE  /\ apply_result(r) \in SessionType
           /\ apply_result(r).state = "IN_FLOW" /\ apply_result(r).flow = s.flow
           /\ apply_result(r).prompted = r.session.prompted
           /\ apply_result(r).node = IF r.next # None THEN r.next ELSE s.node
           /\ s.slots \subseteq apply_result(r).slots
           /\ SessionInv(apply_result(r))
  <1> DEFINE q == apply_result(r)
  <1>1. /\ s.flow \in Flows /\ s.node \in Nodes
        /\ Node(s) \in NodeType /\ Node(s).kind # "missing"
        /\ Sound(Node(s), s, text, r)
    BY ExecutedNode
  <1>2. /\ q \in SessionType /\ q.state = s.state /\ q.flow = s.flow
        /\ q.prompted = r.session.prompted
        /\ q.node = IF r.next # None THEN r.next ELSE s.node
        /\ q.slots = r.session.slots /\ q.unasked = r.session.unasked
        /\ q.errors = r.session.errors /\ q.retry = r.session.retry
    BY <1>1 DEF Sound, apply_result, SessionType
  <1> HIDE DEF q
  <1>3. SessionInv(s)
    BY DEF IInv, RunInv
  <1>4. q.errors <= q.retry /\ q.errors <= RetryLimit
    BY <1>1, <1>2, <1>3 DEF SessionInv, Sound
  <1>5. q.unasked \subseteq {Entry(q)}
    BY <1>1, <1>2, <1>3 DEF SessionInv, Sound, Entry
  <1>6. \A n \in q.slots : graph[q.flow].nodes[n].kind = "collect_input"
    BY <1>1, <1>2, <1>3 DEF SessionInv, Sound, Node
  <1> QED
    BY <1>1, <1>2, <1>4, <1>5, <1>6 DEF SessionInv, Sound, q

\* A step that leaves the stored session alone.
LEMMA StoredKeeps ==
    ASSUME StoredInv, UNCHANGED <<graph, stored>>, asked' \in {asked, None}, lost => lost'
    PROVE  StoredInv'
  BY DEF StoredInv, SessionInv, Rested, AnswerMeetsItsPrompt, InFlow, Here, Node, Entry, Waiting

\* A run that comes to its end outside any flow.
LEMMA LeavesFlow ==
    ASSUME IInv, UNCHANGED <<graph, stored, flows, user>>, phase \notin {"idle", "finish"},
           phase' = "finish", s' \in SessionType, s'.state # "IN_FLOW",
           s'.errors <= s'.retry /\ s'.errors <= RetryLimit,
           text' \in Texts, iter' \in 0..MaxIterations, asking' \in {asking, s.node}
    PROVE  IInv'
  <1>1. StoredInv'
    BY StoredKeeps DEF IInv, user
  <1>2. TypeOK'
    BY DEF IInv, TypeOK, user, SessionType
  <1>3. RunInv'
    BY DEF RunInv, SessionInv, Rested, Continues
  <1> QED
    BY <1>1, <1>2, <1>3 DEF IInv

LEMMA ReceiveStep ==
    ASSUME IInv, NEW t \in Texts, NEW F \in SUBSET Flows, Receive(t, F)
    PROVE  IInv'
  <1> USE ExecutorAssumption
  <1>1. StoredInv'
    BY StoredKeeps DEF IInv, Receive, user
  <1>2. TypeOK'
    BY DEF IInv, TypeOK, Receive, user
  <1>3. /\ s' = stored /\ stored' = stored /\ graph' = graph /\ asking' = None
        /\ phase' = IF stored.state = "IN_FLOW" THEN "continue" ELSE "start"
    BY DEF Receive
  <1>4. SessionInv(s)' /\ Rested(s)'
    BY <1>3 DEF IInv, StoredInv, SessionInv, Rested, Node, Entry
  <1>5. Continues'
    BY <1>3 DEF Continues
  <1>6. RunInv'
    BY <1>3, <1>4, <1>5 DEF RunInv, InFlow
  <1> QED
    BY <1>1, <1>2, <1>6 DEF IInv

LEMMA StartStep ==
    ASSUME IInv, StartFlow
    PROVE  IInv'
  <1> USE ExecutorAssumption
  <1>1. StoredInv'
    BY StoredKeeps DEF IInv, StartFlow
  <1>2. PICK f \in flows :
           s' = [NewSession EXCEPT !.state = "IN_FLOW", !.flow = f, !.node = graph[f].entry]
    BY DEF StartFlow, match_trigger
  <1>3. f \in Flows /\ graph[f].entry \in Nodes \cup {None}
    BY GraphTyped DEF IInv, TypeOK
  <1>4. /\ s' \in SessionType /\ s'.state = "IN_FLOW" /\ s'.flow = f /\ s'.node = graph[f].entry
        /\ s'.slots = {} /\ s'.unasked = {} /\ s'.errors = 0 /\ s'.retry = 0
    <2>1. s' = [state |-> "IN_FLOW", flow |-> f, node |-> graph[f].entry, slots |-> {},
                retry |-> 0, prompted |-> {}, unasked |-> {}, errors |-> 0]
      BY <1>2 DEF NewSession
    <2>2. 0 \in 0..(RetryLimit + 1) /\ 0 \in Nat
      OBVIOUS
    <2> QED
      BY <1>3, <2>1, <2>2 DEF SessionType
  <1>5. /\ UNCHANGED <<graph, stored, flows, text, iter, asking, lost>>
        /\ phase = "start" /\ phase' = "loop" /\ asked' = None
    BY DEF StartFlow
  <1>6. TypeOK'
    BY <1>4, <1>5 DEF IInv, TypeOK
  <1>7. SessionInv(s)'
    BY <1>3, <1>4, <1>5 DEF SessionInv
  <1>8. Continues'
    BY <1>5 DEF IInv, RunInv, Continues, InFlow
  <1>9. RunInv'
    BY <1>4, <1>5, <1>7, <1>8 DEF IInv, RunInv, Entry
  <1> QED
    BY <1>1, <1>6, <1>9 DEF IInv

\* A node has been executed, by _continue_flow or in the loop.
LEMMA NodeStep ==
    ASSUME IInv, s.state = "IN_FLOW", NodeExists(s), phase \in {"continue", "loop"},
           NEW r \in Outcomes(text), r.then \in {"go", "wait"}, s' = apply_result(r), Asks(r),
           UNCHANGED <<graph, stored, flows, user>>, text' = Empty, iter' \in 0..MaxIterations,
           \/ phase' = "finish" /\ (r.then = "wait" \/ (r.next = None /\ phase = "loop"))
           \/ phase' = "loop" /\ r.then = "go"
    PROVE  IInv'
  <1> USE ExecutorAssumption
  <1>1. StoredInv'
    BY StoredKeeps DEF IInv, user
  <1>2. /\ s.flow \in Flows /\ s.node \in Nodes
        /\ Node(s) \in NodeType /\ Node(s).kind # "missing"
        /\ Sound(Node(s), s, text, r)
    BY ExecutedNode
  <1>3. \/ text = Empty
        \/ s.node = Entry(s)
        \/ Node(s).kind = "collect_input" => s.node \in s.prompted
    BY DEF IInv, RunInv, Rested
  <1>4. /\ s' \in SessionType /\ s'.state = "IN_FLOW" /\ s'.flow = s.flow
        /\ s'.prompted = r.session.prompted
        /\ s'.node = IF r.next # None THEN r.next ELSE s.node
        /\ s.slots \subseteq s'.slots
    BY <1>3, Executed
  <1>5. SessionInv(s)'
    <2>1. SessionInv(apply_result(r))
      BY <1>3, Executed
    <2> QED
      BY <2>1 DEF SessionInv, Entry
  <1>6. asking' \in Nodes \cup {None}
    BY <1>2 DEF IInv, TypeOK, Asks
  <1>7. TypeOK'
    BY <1>4, <1>6 DEF IInv, TypeOK, user
  <1>8. Continues'
    BY <1>4 DEF IInv, RunInv, Continues, InFlow
  <1>9. CASE phase' = "loop"
    <2>1. asking' = None
      BY <1>9 DEF IInv, RunInv, Asks
    <2> QED
      BY <1>1, <1>4, <1>5, <1>7, <1>8, <1>9, <2>1 DEF IInv, RunInv
  <1>10. CASE phase' = "finish" /\ r.then = "wait"
    <2>1. s'.node = s.node /\ asking' = s.node /\ Node(s).kind \in Waiting
          /\ s.node \in s'.prompted
      BY <1>2, <1>4, <1>10 DEF Sound, Asks
    <2>2. Node(s)' = Node(s)
      BY <1>4, <2>1 DEF Node
    <2>3. Rested(s)'
      BY <1>2, <1>4, <2>1, <2>2 DEF Rested
    <2> QED
      BY <1>1, <1>5, <1>7, <1>8, <1>10, <2>1, <2>3 DEF IInv, RunInv
  <1>11. CASE phase' = "finish" /\ r.then = "go" /\ r.next = None /\ phase = "loop"
    <2>1. s'.node = s.node /\ asking' = None
      BY <1>4, <1>11 DEF Asks, IInv, RunInv
    <2>2. Node(s)' = Node(s) /\ Entry(s)' = Entry(s)
      BY <1>4, <2>1 DEF Node, Entry
    <2>3. /\ Node(s).kind \notin {"message_collect", "interactive", "end"}
          /\ Node(s).kind \in Waiting \/ None \in Exits(Node(s))
          /\ Node(s).kind = "collect_input" => text # Empty
      BY <1>2, <1>11 DEF Sound, Waiting
    <2>4. Node(s).kind = "collect_input" => asked = None /\ s.node = Entry(s)
      BY <1>11, <2>3 DEF IInv, RunInv
    <2>5. Rested(s)'
      BY <1>2, <2>1, <2>2, <2>3, <2>4 DEF Rested
    <2>6. Node(s)'.kind \in Waiting => asking' = None /\ asked' = None
      BY <2>1, <2>2, <2>3, <2>4 DEF Waiting, user
    <2> QED
      BY <1>1, <1>5, <1>7, <1>8, <1>11, <2>5, <2>6 DEF IInv, RunInv
  <1> QED
    BY <1>9, <1>10, <1>11

\* A session as the failure of a node or of the loop leaves it.
LEMMA ErrorSession ==
    ASSUME IInv
    PROVE  /\ [s EXCEPT !.state = "ERROR"] \in SessionType
           /\ [s EXCEPT !.state = "ERROR"].state # "IN_FLOW"
           /\ [s EXCEPT !.state = "ERROR"].errors = s.errors
           /\ [s EXCEPT !.state = "ERROR"].retry = s.retry
           /\ [s EXCEPT !.state = "IDLE"] \in SessionType
           /\ [s EXCEPT !.state = "IDLE"].state # "IN_FLOW"
           /\ [s EXCEPT !.state = "IDLE"].errors = s.errors
           /\ [s EXCEPT !.state = "IDLE"].retry = s.retry
           /\ s.errors <= s.retry /\ s.errors <= RetryLimit
  BY DEF IInv, TypeOK, SessionType, RunInv, SessionInv

LEMMA ResetStep ==
    ASSUME IInv, ContinueReset \/ LoopReset \/ LoopExhausted \/ Fallback
    PROVE  IInv'
  <1> USE ExecutorAssumption
  <1>1. text \in Texts /\ iter \in 0..MaxIterations
    BY DEF IInv, TypeOK
  <1>2. CASE ContinueReset \/ LoopReset
    <2>1. s' = NewSession /\ s'.errors <= s'.retry /\ s'.errors <= RetryLimit
      BY <1>2, NewSessionFine DEF ContinueReset, LoopReset
    <2> QED
      BY <1>1, <1>2, <2>1, NewSessionFine, LeavesFlow DEF ContinueReset, LoopReset
  <1>3. CASE LoopExhausted
    <2>1. s'.errors <= s'.retry /\ s'.errors <= RetryLimit
      BY <1>3, ErrorSession DEF LoopExhausted
    <2> QED
      BY <1>1, <1>3, <2>1, ErrorSession, LeavesFlow DEF LoopExhausted
  <1>4. CASE Fallback
    <2>1. s'.errors <= s'.retry /\ s'.errors <= RetryLimit
      BY <1>4, ErrorSession DEF Fallback
    <2> QED
      BY <1>1, <1>4, <2>1, ErrorSession, LeavesFlow DEF Fallback
  <1> QED
    BY <1>2, <1>3, <1>4

LEMMA ContinueStep ==
    ASSUME IInv, ContinueNode
    PROVE  IInv'
  <1> USE ExecutorAssumption
  <1>1. /\ phase = "continue" /\ s.state = "IN_FLOW" /\ NodeExists(s) /\ Rested(s)
        /\ UNCHANGED <<graph, stored, flows, iter, user>> /\ text' = Empty
    BY DEF ContinueNode, IInv, RunInv
  <1>2. PICK r \in Outcomes(text) :
           /\ s' = IF r.then = "raised" THEN [s EXCEPT !.state = "ERROR"] ELSE apply_result(r)
           /\ phase' = IF r.then = "go" THEN "loop" ELSE "finish"
           /\ Asks(r)
    BY DEF ContinueNode
  <1>3. Node(s) \in NodeType /\ Sound(Node(s), s, text, r)
    BY <1>1, ExecutedNode
  <1>4. Node(s).kind # "end"
    BY <1>1 DEF Rested, Waiting, Exits
  <1>5. r.then \in {"go", "wait", "raised"}
    BY <1>3, <1>4 DEF Sound
  <1>6. iter' \in 0..MaxIterations /\ text' \in Texts
    BY <1>1 DEF IInv, TypeOK
  <1>7. CASE r.then = "raised"
    <2>1. s'.errors <= s'.retry /\ s'.errors <= RetryLimit
      BY <1>2, <1>7, ErrorSession
    <2> QED
      BY <1>1, <1>2, <1>6, <1>7, <2>1, ErrorSession, LeavesFlow DEF Asks
  <1>8. CASE r.then \in {"go", "wait"}
    BY <1>1, <1>2, <1>6, <1>8, NodeStep
  <1> QED
    BY <1>5, <1>7, <1>8

LEMMA LoopStep ==
    ASSUME IInv, LoopNode
    PROVE  IInv'
  <1> USE ExecutorAssumption
  <1>1. /\ phase = "loop" /\ s.state = "IN_FLOW" /\ NodeExists(s)
        /\ UNCHANGED <<graph, stored, flows, user>> /\ text' = Empty
    BY DEF LoopNode, IInv, RunInv
  <1>2. PICK r \in Outcomes(text) :
           /\ s' = CASE r.then = "raised" -> [s EXCEPT !.state = "ERROR"]
                     [] r.then = "done"   -> NewSession
                     [] OTHER             -> apply_result(r)
           /\ phase' = IF r.then = "go" /\ r.next # None THEN "loop" ELSE "finish"
           /\ Asks(r)
    BY DEF LoopNode
  <1>3. Sound(Node(s), s, text, r)
    BY <1>1, ExecutedNode
  <1>4. r.then \in {"go", "wait", "done", "raised"}
    BY <1>3 DEF Sound
  <1>5. iter' \in 0..MaxIterations /\ text' \in Texts
    BY <1>1 DEF LoopNode, IInv, TypeOK
  <1>6. CASE r.then = "raised"
    <2>1. s' = [s EXCEPT !.state = "ERROR"] /\ phase' = "finish" /\ asking' = asking
      BY <1>2, <1>6 DEF Asks
    <2>2. s'.errors <= s'.retry /\ s'.errors <= RetryLimit
      BY <2>1, ErrorSession
    <2> QED
      BY <1>1, <1>5, <2>1, <2>2, ErrorSession, LeavesFlow
  <1>7. CASE r.then = "done"
    <2>1. s' = NewSession /\ phase' = "finish" /\ asking' = asking
      BY <1>2, <1>7 DEF Asks
    <2>2. s'.errors <= s'.retry /\ s'.errors <= RetryLimit
      BY <2>1, NewSessionFine
    <2> QED
      BY <1>1, <1>5, <2>1, <2>2, NewSessionFine, LeavesFlow
  <1>8. CASE r.then \in {"go", "wait"}
    <2>1. /\ s' = apply_result(r)
          /\ \/ phase' = "finish" /\ (r.then = "wait" \/ (r.next = None /\ phase = "loop"))
             \/ phase' = "loop" /\ r.then = "go"
      BY <1>1, <1>2, <1>8
    <2> QED
      BY <1>1, <1>2, <1>5, <1>8, <2>1, NodeStep
  <1> QED
    BY <1>4, <1>6, <1>7, <1>8

\* The run is over; what is stored may be what it was, what the run leaves, or nothing.
LEMMA EndStep ==
    ASSUME IInv, Save \/ Lose \/ DeleteSession
    PROVE  IInv'
  <1> USE ExecutorAssumption
  <1>n. SessionInv(NewSession) /\ SessionInv(NewSession)'
    BY NewSessionFine DEF SessionInv
  <1>0. ASSUME Return, graph' = graph, stored' \in SessionType, lost' \in BOOLEAN
        PROVE  TypeOK' /\ RunInv'
    <2>1. s' = NewSession /\ phase' = "idle" /\ asking' = None /\ flows' = {}
          /\ text' = Empty /\ iter' = 0 /\ asked' \in Nodes \cup {None}
      BY <1>0 DEF Return, IInv, TypeOK
    <2>2. TypeOK'
      BY <1>0, <2>1, NewSessionFine DEF TypeOK, IInv
    <2>3. SessionInv(s)'
      BY <2>1, NewSessionFine DEF SessionInv
    <2> QED
      BY <2>1, <2>2, <2>3 DEF RunInv
  <1>1. CASE Save
    <2>1. /\ phase = "finish" /\ stored' = s /\ Return /\ graph' = graph
          /\ lost' = (lost /\ asking = None)
      BY <1>1 DEF Save
    <2>2. TypeOK' /\ RunInv'
      BY <1>0, <2>1 DEF IInv, TypeOK
    <2>3. SessionInv(stored)' /\ Rested(stored)'
      BY <2>1 DEF IInv, RunInv, SessionInv, Rested, Node, Entry
    <2>4. AnswerMeetsItsPrompt'
      <3>1. asked' = IF asking # None THEN asking ELSE asked
        BY <2>1 DEF Return
      <3>2. s.state = "IN_FLOW" /\ Node(s).kind \in Waiting =>
               asking = s.node \/ (asking = None /\ asked = None)
        BY <2>1 DEF IInv, RunInv
      <3>3. s.state = "IN_FLOW" => s.node # None
        BY <2>1 DEF IInv, RunInv, Rested
      <3>4. s.state = "IN_FLOW" /\ Node(s).kind \in Waiting => asked' \in {None, s.node}
        BY <3>1, <3>2, <3>3
      <3>5. Here' = Node(s) /\ InFlow' = (s.state = "IN_FLOW")
        BY <2>1 DEF Here, InFlow, Node
      <3> QED
        BY <2>1, <3>4, <3>5 DEF AnswerMeetsItsPrompt, Waiting
    <2> QED
      BY <2>2, <2>3, <2>4 DEF IInv, StoredInv
  <1>2. CASE Lose
    <2>1. /\ Return /\ graph' = graph /\ stored' = stored
          /\ lost' \in {lost \/ asking # None, TRUE}
      BY <1>2 DEF Lose
    <2>2. lost' \in BOOLEAN /\ (~lost' => ~lost /\ asking = None)
      BY <2>1 DEF IInv, TypeOK
    <2>3. TypeOK' /\ RunInv'
      BY <1>0, <2>1, <2>2 DEF IInv, TypeOK
    <2>4. ~lost' => asked' = asked
      BY <2>1, <2>2 DEF Return
    <2>5. StoredInv'
      BY <2>1, <2>2, <2>4 DEF IInv, StoredInv, SessionInv, Rested, AnswerMeetsItsPrompt, InFlow,
                             Here, Node, Entry
    <2> QED
      BY <2>3, <2>5 DEF IInv
  <1>3. CASE DeleteSession
    <2>1. stored' = NewSession /\ UNCHANGED <<graph, run, user>>
      BY <1>3 DEF DeleteSession
    <2>2. TypeOK'
      BY <2>1, NewSessionFine DEF IInv, TypeOK, run, user
    <2>3. StoredInv'
      BY <2>1, NewSessionFine DEF StoredInv, SessionInv, Rested, AnswerMeetsItsPrompt, InFlow
    <2>4. ~InFlow'
      BY <2>1, NewSessionFine DEF InFlow
    <2>5. RunInv'
      BY <2>1, <2>4 DEF IInv, RunInv, SessionInv, Rested, Continues, Node, Entry, run, user
    <2> QED
      BY <2>2, <2>3, <2>5 DEF IInv
  <1> QED
    BY <1>1, <1>2, <1>3

-----------------------------------------------------------------------------
(* The theorems *)

LEMMA InitInv == Init => IInv
  <1> SUFFICES ASSUME Init
               PROVE  IInv
    OBVIOUS
  <1> USE ExecutorAssumption, NewSessionFine DEF Init
  <1>1. TypeOK
    <2>1. Empty \in Texts /\ 0 \in 0..MaxIterations
      OBVIOUS
    <2> QED
      BY <2>1 DEF TypeOK
  <1>2. SessionInv(NewSession)
    BY DEF SessionInv
  <1>3. StoredInv
    BY <1>2 DEF StoredInv, Rested, AnswerMeetsItsPrompt, InFlow
  <1>4. RunInv
    BY <1>2 DEF RunInv
  <1> QED
    BY <1>1, <1>3, <1>4 DEF IInv

LEMMA NextInv ==
    ASSUME IInv, [Next]_vars
    PROVE  IInv'
  <1>1. CASE UNCHANGED vars
    BY <1>1 DEF vars, run, user, IInv, TypeOK, StoredInv, RunInv, SessionInv, Rested, Continues,
                AnswerMeetsItsPrompt, InFlow, Here, Node, Entry
  <1> QED
    BY <1>1, ReceiveStep, StartStep, ResetStep, ContinueStep, LoopStep, EndStep
       DEF Next, Execute

LEMMA Invariant == Spec => []IInv
  BY InitInv, NextInv, PTL DEF Spec

\* Session, FlowExecutor.execute: every session that is stored, or at work, has the
\* fields and the ranges of its type; the retry count, for one, stops where it may.
THEOREM TypeCorrect == Spec => []TypeOK
  <1>1. IInv => TypeOK
    BY DEF IInv
  <1> QED
    BY <1>1, Invariant, PTL

\* _execute_until_wait_or_end, _continue_flow: for flows of any shape, a stored
\* conversation rests at a node that waits, or whose own transition leads nowhere;
\* never half-way, at an end node, or at a node the flow does not have.
THEOREM OpenNodes == Spec => []RestsAtOpenNode
  <1>1. IInv => RestsAtOpenNode
    BY DEF IInv, StoredInv, Rested, RestsAtOpenNode, InFlow, Here, Node, Waiting
  <1> QED
    BY <1>1, Invariant, PTL

\* execute_collect_input, _continue_flow: when a conversation waits at a node, no
\* other node has prompted the user since, unless that session was not saved.
THEOREM PromptsAndAnswers == Spec => []AnswerMeetsItsPrompt
  <1>1. IInv => AnswerMeetsItsPrompt
    BY DEF IInv, StoredInv
  <1> QED
    BY <1>1, Invariant, PTL

\* _execute_until_wait_or_end clears the trigger text: only a collect_input at the
\* entry of a flow stores a text that does not answer its prompt.
THEOREM EntryOnly == Spec => []UnaskedOnlyAtEntry
  <1>1. IInv => UnaskedOnlyAtEntry
    BY DEF IInv, StoredInv, SessionInv, UnaskedOnlyAtEntry, InFlow, Entry
  <1> QED
    BY <1>1, Invariant, PTL

\* _start_or_fallback, _reset_flow_state: whatever becomes of the flows meanwhile,
\* the slots of a conversation were filled by nodes of the flow it is in.
THEOREM OwnSlots == Spec => []SlotsOfThisFlow
  <1>1. IInv => SlotsOfThisFlow
    BY DEF IInv, StoredInv, SessionInv, SlotsOfThisFlow, InFlow
  <1> QED
    BY <1>1, Invariant, PTL

\* execute_collect_input: a flow sends no more validation errors than the limit,
\* over all its nodes and messages.
THEOREM FewErrors == Spec => []RetriesBounded
  <1>1. IInv => RetriesBounded
    BY DEF IInv, StoredInv, SessionInv, RetriesBounded
  <1> QED
    BY <1>1, Invariant, PTL

\* FlowExecutor.execute: a message never moves a conversation from one flow into
\* another, and loses none of the answers collected there.
THEOREM NoJump == Spec => StaysInFlow
  <1>1. ASSUME IInv, [Next]_vars, InFlow, InFlow'
        PROVE  stored'.flow = stored.flow /\ stored.slots \subseteq stored'.slots
    <2>1. CASE stored' = stored
      BY <2>1
    <2>2. CASE Save
      BY <1>1, <2>2 DEF Save, IInv, RunInv, Continues, InFlow
    <2>3. CASE DeleteSession
      BY <1>1, <2>3, NewSessionFine DEF DeleteSession, InFlow
    <2>4. stored' = stored \/ Save \/ DeleteSession
      BY <1>1 DEF Next, Execute, Receive, ContinueReset, ContinueNode, StartFlow, Fallback,
                  LoopNode, LoopReset, LoopExhausted, Lose, vars
    <2> QED
      BY <2>1, <2>2, <2>3, <2>4
  <1> QED
    BY <1>1, Invariant, PTL DEF Spec, StaysInFlow
=============================================================================
