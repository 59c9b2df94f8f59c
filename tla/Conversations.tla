---------------------------- MODULE Conversations ----------------------------
(***************************************************************************)
(* What flow-engine promises to those who write to it, with no stream,      *)
(* replicas, locks or keys in it: a message is open from its publication    *)
(* until it was run or dropped; it is run at most once per delivery; and a  *)
(* turn is one atomic step, which adds its message to the turns that are    *)
(* stored for its conversation.                                             *)
(* A conversation that is torn has lost that last promise: there a turn may *)
(* store any turns that were taken in it, and the others are overwritten.   *)
(***************************************************************************)
EXTENDS Integers

CONSTANTS Chats, Msgs, ChatOf

VARIABLES
    open,     \* messages that are published and not settled
    chances,  \* how often each message was delivered
    runs,     \* how often each message was run
    dropped,  \* messages that were given up
    turns,    \* the messages whose turns are stored, of each conversation
    torn      \* conversations that have lost their lock or their history

conversations == <<open, chances, runs, dropped, turns, torn>>

\* The messages of conversation c that were run.
Taken(c) == {m \in Msgs : ChatOf[m] = c /\ runs[m] > 0}

Init ==
    /\ open = {}
    /\ chances = [m \in Msgs |-> 0]
    /\ runs = [m \in Msgs |-> 0]
    /\ dropped = {}
    /\ turns = [c \in Chats |-> {}]
    /\ torn = {}

Publish(m) ==
    /\ chances[m] = 0
    /\ chances' = [chances EXCEPT ![m] = 1]
    /\ open' = open \cup {m}
    /\ UNCHANGED <<runs, dropped, turns, torn>>

\* Some open messages are delivered again.
Redeliver ==
    /\ chances' \in [Msgs -> Nat]
    /\ \A m \in Msgs : \/ chances'[m] = chances[m]
                       \/ m \in open /\ chances'[m] > chances[m]
    /\ UNCHANGED <<open, runs, dropped, turns, torn>>

Run(m) ==
    /\ runs[m] < chances[m]
    /\ runs' = [runs EXCEPT ![m] = @ + 1]
    /\ UNCHANGED <<open, chances, dropped, turns, torn>>

Drop(m) ==
    /\ chances[m] > 0
    /\ dropped' = dropped \cup {m}
    /\ UNCHANGED <<open, chances, runs, turns, torn>>

Settle(m) ==
    /\ m \in open
    /\ runs[m] > 0 \/ m \in dropped
    /\ open' = open \ {m}
    /\ UNCHANGED <<chances, runs, dropped, turns, torn>>

\* A message comes back that was not run as often as it was delivered.
Reopen(m) ==
    /\ runs[m] < chances[m]
    /\ open' = open \cup {m}
    /\ UNCHANGED <<chances, runs, dropped, turns, torn>>

\* The turns S are stored for conversation c, the one of m among them.  What was
\* forgotten while m was run may come back.
Turn(c, m, S) ==
    /\ m \in S /\ S \subseteq Taken(c)
    /\ S = turns[c] \cup {m} \/ turns[c] = {} \/ c \in torn
    /\ turns' = [turns EXCEPT ![c] = S]
    /\ UNCHANGED <<open, chances, runs, dropped, torn>>

Forget(c) ==
    /\ turns' = [turns EXCEPT ![c] = {}]
    /\ torn' \in SUBSET Chats
    /\ UNCHANGED <<open, chances, runs, dropped>>

\* A conversation is torn, or nobody is left in it who has lost anything.
Tear ==
    /\ torn' \in SUBSET Chats
    /\ UNCHANGED <<open, chances, runs, dropped, turns>>

Next ==
    \/ \E m \in Msgs :
          Publish(m) \/ Run(m) \/ Drop(m) \/ Settle(m) \/ Reopen(m)
    \/ Redeliver
    \/ \E c \in Chats : Forget(c) \/ \E m \in Msgs, S \in SUBSET Msgs : Turn(c, m, S)
    \/ Tear

Spec == Init /\ [][Next]_conversations
=============================================================================
