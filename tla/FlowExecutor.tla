---------------------------- MODULE FlowExecutor ----------------------------
(***************************************************************************)
(* The flow interpreter of services/flow-engine                             *)
(* (application/flow_executor.py and node_executors.py): what one inbound   *)
(* message does to the session of one conversation.                         *)
(*                                                                          *)
(* FlowConsumer models how messages reach execute() and how the session is  *)
(* loaded and saved around it; here a session is what execute() sees.       *)
(* Messages of a conversation arrive one after the other, as they do under  *)
(* the conversation lock; between two of them flows are switched on and     *)
(* off, so that every message may find other flows active; the stored       *)
(* session may be deleted at any time.                                      *)
(*                                                                          *)
(* A text is an abstract value: whether a trigger matches it and whether a  *)
(* validation pattern does are constants.  Of the slots, the ones that hold *)
(* a user's answer are modelled, a slot being named by its collect_input    *)
(* node.                                                                    *)
(***************************************************************************)
EXTENDS Integers, FiniteSets

CONSTANTS
    Flows,          \* flow ids of the tenant
    Nodes,          \* node ids
    None,           \* no flow, no node
    Texts,          \* message texts
    Empty,          \* the text of a message that has none
    Valid,          \* the texts that the validation patterns match
    Hits,           \* the texts that the keywords or the regex of a flow match
    Graphs,         \* the flow definitions a tenant may have
    RetryLimit,     \* 3 in execute_collect_input
    MaxIterations   \* _MAX_ITERATIONS

Kinds    == {"message", "message_collect", "interactive", "collect_input",
             "condition", "rag_lookup", "llm_generate", "api_call", "end", "missing"}
Triggers == {"keyword_match", "regex_match", "always"}

\* A node: its type ("message_collect" is a message node with a collect_slot,
\* "missing" an id the flow has no node for), the target of its unconditional
\* transition, the target of its other transition (the "error" one of
\* collect_input), and whether collect_input has a validation pattern.
NodeType == [kind : Kinds, next : Nodes \cup {None}, other : Nodes \cup {None},
             validated : BOOLEAN]

FlowType == [trigger : Triggers, entry : Nodes \cup {None}, nodes : [Nodes -> NodeType]]

ASSUME ExecutorAssumption ==
    /\ None \notin Flows \cup Nodes
    /\ Empty \in Texts /\ Valid \subseteq Texts
    /\ Hits \in [Flows -> SUBSET Texts]
    /\ Graphs \subseteq [Flows -> FlowType]
    /\ RetryLimit \in Nat
    /\ MaxIterations \in Nat \ {0}

VARIABLES
    graph,      \* the tenant's flows; an edit makes a new flow with a new id
    stored,     \* the stored session
    s,          \* the Session that execute() mutates
    phase,      \* where execute() stands
    flows,      \* active_flows
    text,       \* message.text, later trigger_text
    iter,       \* iterations of _execute_until_wait_or_end
    asked,      \* history: the node whose prompt the user has seen last
    asking,     \* history: the same, within this run of execute()
    lost        \* history: the session behind that prompt was not saved

run  == <<s, phase, flows, text, iter, asking>>
user == <<asked, lost>>
vars == <<graph, stored, run, user>>

\* Beside the fields of the code a session keeps three histories of its flow:
\* the nodes that sent a prompt, the slots filled before their node had sent
\* one, and the number of validation errors sent.
SessionType ==
    [state : {"IDLE", "IN_FLOW", "ERROR"},
     flow : Flows \cup {None}, node : Nodes \cup {None}, slots : SUBSET Nodes,
     retry : 0..(RetryLimit + 1),
     prompted : SUBSET Nodes, unasked : SUBSET Nodes, errors : Nat]

\* Session.new(), and what _reset_flow_state leaves of a session.
NewSession ==
    [state |-> "IDLE", flow |-> None, node |-> None, slots |-> {}, retry |-> 0,
     prompted |-> {}, unasked |-> {}, errors |-> 0]

TypeOK ==
    /\ graph \in Graphs
    /\ flows \subseteq Flows
    /\ stored \in SessionType /\ s \in SessionType
    /\ phase \in {"idle", "start", "continue", "loop", "finish"}
    /\ text \in Texts
    /\ iter \in 0..MaxIterations
    /\ asked \in Nodes \cup {None} /\ asking \in Nodes \cup {None}
    /\ lost \in BOOLEAN

Init ==
    /\ graph \in Graphs
    /\ stored = NewSession /\ s = NewSession
    /\ phase = "idle"
    /\ flows = {}
    /\ text = Empty
    /\ iter = 0
    /\ asked = None /\ asking = None
    /\ lost = FALSE

-----------------------------------------------------------------------------
(* Triggers: match_trigger *)

Rank(f) == CASE graph[f].trigger = "keyword_match" -> 1
             [] graph[f].trigger = "regex_match"   -> 2
             [] graph[f].trigger = "always"        -> 3

Matches(f, t) == graph[f].trigger = "always" \/ t \in Hits[f]

\* The flows match_trigger may answer with: it takes the first of the highest
\* rank, in the order of a query that has no ORDER BY.
match_trigger(t, F) ==
    {f \in F : /\ Matches(f, t)
               /\ \A g \in F : Matches(g, t) => Rank(f) <= Rank(g)}

-----------------------------------------------------------------------------
(* Nodes: execute_node *)

\* What a node executor leaves: the session, and of the NodeResult next_node,
\* requires_user_input and done; "raised" is a NodeExecutionError.
Result(q, next, then) == [session |-> q, next |-> next, then |-> then]

Go(q, next)  == Result(q, next, "go")
Await(q)     == Result([q EXCEPT !.prompted = @ \cup {q.node}], None, "wait")

\* The user's text is stored in the slot of the current node.
Fill(q) == [q EXCEPT !.slots = @ \cup {q.node},
                     !.unasked = IF q.node \in q.prompted THEN @ ELSE @ \cup {q.node}]

\* Another invalid answer; the counter saturates one above the limit.
Retry(q) == [q EXCEPT !.retry = IF @ > RetryLimit THEN @ ELSE @ + 1]

\* (mutant) the first text is taken for an invalid answer one time more
execute_collect_input_OffByOne(k, q, t) ==
    IF t = Empty THEN Await(q)
    ELSE IF ~k.validated \/ t \in Valid THEN Go(Fill(q), k.next)
    ELSE IF q.retry > RetryLimit THEN Go(Retry(q), k.other)
    ELSE Await([Retry(q) EXCEPT !.errors = @ + 1])

\* Without a text the prompt goes out; an invalid answer is sent back, up to
\* the retry limit; any other answer is stored.
execute_collect_input(k, q, t) ==
    IF t = Empty THEN Await(q)
    ELSE IF ~k.validated \/ t \in Valid THEN Go(Fill(q), k.next)
    ELSE IF Retry(q).retry > RetryLimit THEN Go(Retry(q), k.other)
    ELSE Await([Retry(q) EXCEPT !.errors = @ + 1])

\* A message node with a collect_slot waits, and stays where it is.
execute_message(k, q) == IF k.kind = "message_collect" THEN Await(q) ELSE Go(q, k.next)

\* The buttons are sent each time the node is executed; no reply moves it on.
execute_interactive(q) == Await(q)

\* Whichever transition has the first condition that holds.
execute_condition(k, q) == {Go(q, k.next), Go(q, k.other)}

\* The chunks, or their absence, go to a slot that no collect_input fills.
execute_rag_lookup(k, q) == Go(q, k.next)

execute_llm_generate(k, q) == Go(q, k.next)

\* A status of 400 and above, a timeout or a failing request raises.
execute_api_call(k, q) == {Go(q, k.next), Result(q, None, "raised")}

execute_end(q) == Result(q, None, "done")

\* The results of executing node k with session q and text t.
execute_node(k, q, t) ==
    CASE k.kind \in {"message", "message_collect"} -> {execute_message(k, q)}
      [] k.kind = "interactive"   -> {execute_interactive(q)}
      [] k.kind = "collect_input" -> {execute_collect_input(k, q, t)}
      [] k.kind = "condition"     -> execute_condition(k, q)
      [] k.kind = "rag_lookup"    -> {execute_rag_lookup(k, q)}
      [] k.kind = "llm_generate"  -> {execute_llm_generate(k, q)}
      [] k.kind = "api_call"      -> execute_api_call(k, q)
      [] k.kind = "end"           -> {execute_end(q)}

\* (mutant) a waiting node moves the session on before the answer
apply_result_Eager(r) ==
    LET n == graph[r.session.flow].nodes[r.session.node].next
    IN  [r.session EXCEPT !.node = IF r.next # None THEN r.next
                                   ELSE IF r.then = "wait" /\ n # None THEN n ELSE @]

\* _apply_result: the session moves on if there is a next node.
apply_result(r) ==
    [r.session EXCEPT !.node = IF r.next # None THEN r.next ELSE @]

NodeExists(q) ==
    q.node # None /\ graph[q.flow].nodes[q.node].kind # "missing"

\* The results of executing the node the session is at.
Outcomes(t) == execute_node(graph[s.flow].nodes[s.node], s, t)

\* The prompt the user has seen, when result r is a waiting one.
Asks(r) == asking' = IF r.then = "wait" THEN s.node ELSE asking

-----------------------------------------------------------------------------
(* execute() *)

\* A message arrives: the consumer loads the session, execute() takes the
\* flows F that are active now and looks at the state.
Receive(t, F) ==
    /\ phase = "idle"
    /\ s' = stored
    /\ flows' = F
    /\ text' = t
    /\ phase' = IF stored.state = "IN_FLOW" THEN "continue" ELSE "start"
    /\ asking' = None
    /\ iter' = 0
    /\ UNCHANGED <<graph, stored, user>>

\* (mutant) the same message goes on to the triggers
ContinueReset_FallsThrough ==
    /\ phase = "continue"
    /\ s.flow \notin flows \/ ~NodeExists(s)
    /\ s' = NewSession
    /\ phase' = "start"
    /\ UNCHANGED <<graph, stored, flows, text, iter, asking, user>>

\* _continue_flow: the flow is not active any more, or has no such node.
ContinueReset ==
    /\ phase = "continue"
    /\ s.flow \notin flows \/ ~NodeExists(s)
    /\ s' = NewSession
    /\ phase' = "finish"
    /\ UNCHANGED <<graph, stored, flows, text, iter, asking, user>>

\* _continue_flow: the current node gets the user's text.
ContinueNode ==
    /\ phase = "continue"
    /\ s.flow \in flows /\ NodeExists(s)
    /\ \E r \in Outcomes(text) :
        /\ s' = IF r.then = "raised" THEN [s EXCEPT !.state = "ERROR"] ELSE apply_result(r)
        /\ phase' = IF r.then = "go" THEN "loop" ELSE "finish"
        /\ Asks(r)
    /\ text' = Empty
    /\ UNCHANGED <<graph, stored, flows, iter, user>>

\* (mutant) the slots of an earlier flow are kept
StartFlow_KeepsSlots ==
    /\ phase = "start"
    /\ \E f \in match_trigger(text, flows) :
        s' = [NewSession EXCEPT !.state = "IN_FLOW", !.flow = f, !.node = graph[f].entry,
                                !.slots = s.slots]
    /\ phase' = "loop"
    /\ asked' = None
    /\ UNCHANGED <<graph, stored, flows, text, iter, asking, lost>>

\* _start_or_fallback: a trigger matches.
StartFlow ==
    /\ phase = "start"
    /\ \E f \in match_trigger(text, flows) :
        s' = [NewSession EXCEPT !.state = "IN_FLOW", !.flow = f, !.node = graph[f].entry]
    /\ phase' = "loop"
    /\ asked' = None
    /\ UNCHANGED <<graph, stored, flows, text, iter, asking, lost>>

\* (mutant) the state is left at LLM_FALLBACK when the model fails
Fallback_LeavesState ==
    /\ phase = "start"
    /\ match_trigger(text, flows) = {}
    /\ \E st \in {"IDLE", "LLM_FALLBACK"} : s' = [s EXCEPT !.state = st]
    /\ phase' = "finish"
    /\ UNCHANGED <<graph, stored, flows, text, iter, asking, user>>

\* _run_llm_fallback: the model answers, or fails; flow, node and slots stay.
\* The state is LLM_FALLBACK only in between.
Fallback ==
    /\ phase = "start"
    /\ match_trigger(text, flows) = {}
    /\ s' = [s EXCEPT !.state = "IDLE"]
    /\ phase' = "finish"
    /\ UNCHANGED <<graph, stored, flows, text, iter, asking, user>>

\* (mutant) the trigger text is handed to every node of the loop
LoopNode_KeepsText ==
    /\ phase = "loop"
    /\ iter < MaxIterations
    /\ NodeExists(s)
    /\ \E r \in Outcomes(text) :
        /\ s' = CASE r.then = "raised" -> [s EXCEPT !.state = "ERROR"]
                  [] r.then = "done"   -> NewSession
                  [] OTHER             -> apply_result(r)
        /\ phase' = IF r.then = "go" /\ r.next # None THEN "loop" ELSE "finish"
        /\ Asks(r)
    /\ iter' = iter + 1
    /\ UNCHANGED <<graph, stored, flows, text, user>>

\* (mutant) an end node does not reset the session
LoopNode_NoReset ==
    /\ phase = "loop"
    /\ iter < MaxIterations
    /\ NodeExists(s)
    /\ \E r \in Outcomes(text) :
        /\ s' = IF r.then = "raised" THEN [s EXCEPT !.state = "ERROR"] ELSE apply_result(r)
        /\ phase' = IF r.then = "go" /\ r.next # None THEN "loop" ELSE "finish"
        /\ Asks(r)
    /\ text' = Empty
    /\ iter' = iter + 1
    /\ UNCHANGED <<graph, stored, flows, user>>

\* (mutant) a loop without an iteration count
LoopNode_Endless ==
    /\ phase = "loop"
    /\ NodeExists(s)
    /\ \E r \in Outcomes(text) :
        /\ s' = CASE r.then = "raised" -> [s EXCEPT !.state = "ERROR"]
                  [] r.then = "done"   -> NewSession
                  [] OTHER             -> apply_result(r)
        /\ phase' = IF r.then = "go" /\ r.next # None THEN "loop" ELSE "finish"
        /\ Asks(r)
    /\ text' = Empty
    /\ UNCHANGED <<graph, stored, flows, iter, user>>

\* One iteration of _execute_until_wait_or_end: only the first node gets a text.
LoopNode ==
    /\ phase = "loop"
    /\ iter < MaxIterations
    /\ NodeExists(s)
    /\ \E r \in Outcomes(text) :
        /\ s' = CASE r.then = "raised" -> [s EXCEPT !.state = "ERROR"]
                  [] r.then = "done"   -> NewSession
                  [] OTHER             -> apply_result(r)
        /\ phase' = IF r.then = "go" /\ r.next # None THEN "loop" ELSE "finish"
        /\ Asks(r)
    /\ text' = Empty
    /\ iter' = iter + 1
    /\ UNCHANGED <<graph, stored, flows, user>>

\* (mutant) the loop just ends there
LoopReset_Stays ==
    /\ phase = "loop"
    /\ iter < MaxIterations
    /\ ~NodeExists(s)
    /\ s' = s
    /\ phase' = "finish"
    /\ UNCHANGED <<graph, stored, flows, text, iter, asking, user>>

\* The transition leads to a node the flow does not have.
LoopReset ==
    /\ phase = "loop"
    /\ iter < MaxIterations
    /\ ~NodeExists(s)
    /\ s' = NewSession
    /\ phase' = "finish"
    /\ UNCHANGED <<graph, stored, flows, text, iter, asking, user>>

\* MaxIterationsError.
LoopExhausted ==
    /\ phase = "loop"
    /\ iter = MaxIterations
    /\ s' = [s EXCEPT !.state = "ERROR"]
    /\ phase' = "finish"
    /\ UNCHANGED <<graph, stored, flows, text, iter, asking, user>>

\* The Session and the locals of the run are gone.
Return ==
    /\ phase' = "idle"
    /\ s' = NewSession /\ flows' = {} /\ text' = Empty /\ iter' = 0
    /\ asking' = None
    /\ asked' = IF asking # None THEN asking ELSE asked

\* execute() returns and the consumer saves the session.
Save ==
    /\ phase = "finish"
    /\ stored' = s
    /\ Return
    /\ lost' = (lost /\ asking = None)
    /\ UNCHANGED graph

\* The session is not saved: a call to Meta, the model, the vector store or
\* the database raises, the process dies, or the save fails.  The send that
\* raises may have reached the user.
Lose ==
    /\ phase # "idle"
    /\ Return
    /\ lost' \in {lost \/ asking # None, TRUE}
    /\ UNCHANGED <<graph, stored>>

\* The admin API deletes the stored session, or its TTL runs out.
DeleteSession ==
    /\ stored # NewSession
    /\ stored' = NewSession
    /\ UNCHANGED <<graph, run, user>>

Execute ==
    \/ ContinueReset \/ ContinueNode
    \/ StartFlow \/ Fallback
    \/ LoopNode \/ LoopReset \/ LoopExhausted
    \/ Save

Next ==
    \/ \E t \in Texts, F \in SUBSET Flows : Receive(t, F)
    \/ Execute
    \/ Lose
    \/ DeleteSession

Spec == Init /\ [][Next]_vars

\* The consumer thread keeps running.
FairSpec == Spec /\ WF_vars(Execute)

-----------------------------------------------------------------------------
(* Properties *)

InFlow == stored.state = "IN_FLOW"
Here   == graph[stored.flow].nodes[stored.node]

Waiting == {"message_collect", "interactive", "collect_input"}

\* The targets a node that does not wait may send the session to.
Exits(k) ==
    CASE k.kind \in {"message", "rag_lookup", "llm_generate", "api_call"} -> {k.next}
      [] k.kind = "condition" -> {k.next, k.other}
      [] OTHER                -> {}

\* A conversation that stays in a flow rests where the flow lets it: at a node
\* that waits for the user, or at one whose transition leads nowhere.  It never
\* rests half-way, at a node that should have gone on, nor at an end node,
\* whose reset _continue_flow does not do, nor at a node the flow does not have.
RestsAtOpenNode ==
    InFlow => /\ stored.node # None
              /\ Here.kind \in Waiting \/ None \in Exits(Here)

\* The answer to a prompt goes to the node that sent it: when a conversation
\* waits at a node, no other node has prompted the user since, unless the
\* session of that prompt was not saved.
AnswerMeetsItsPrompt ==
    InFlow /\ ~lost /\ Here.kind \in Waiting => asked \in {None, stored.node}

\* Only a collect_input at the entry of a flow stores a text that is no answer
\* to its prompt: the text that triggered the flow.
\* (The cleared trigger_text in _execute_until_wait_or_end.)
UnaskedOnlyAtEntry == InFlow => stored.unasked \subseteq {graph[stored.flow].entry}

\* Slots never leak into another flow: what a conversation has collected was
\* collected by nodes of the flow it is in.
SlotsOfThisFlow ==
    InFlow => \A n \in stored.slots : graph[stored.flow].nodes[n].kind = "collect_input"

\* In one flow the user gets at most RetryLimit validation errors, over all
\* nodes and messages.
RetriesBounded == stored.errors <= RetryLimit

\* A message never moves a conversation from one flow into another one, and
\* within a flow no collected answer is lost.
StaysInFlow ==
    [][InFlow /\ InFlow' => /\ stored'.flow = stored.flow
                            /\ stored.slots \subseteq stored'.slots]_vars

\* Every message is done with, whatever the flow looks like: flows that loop
\* without waiting for the user are cut off.  (_MAX_ITERATIONS.)
MessageEnds == phase # "idle" ~> phase = "idle"

-----------------------------------------------------------------------------
(* What the comments say, and the code does not do *)

\* node_executors.py: "First entry: send the prompt and wait": a slot holds an
\* answer to the prompt of its node.
PromptFirst == InFlow => stored.unasked = {}
=============================================================================
