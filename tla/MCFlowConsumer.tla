--------------------------- MODULE MCFlowConsumer ---------------------------
(***************************************************************************)
(* Instances of FlowConsumer for TLC: two messages of one conversation, and *)
(* when there is a third, it belongs to another conversation.               *)
(***************************************************************************)
EXTENDS FlowConsumer, TLC

CONSTANTS m1, m2, m3, c1, c2

MCChatOf == [m \in Msgs |-> IF m = m3 THEN c2 ELSE c1]

\* Workers are interchangeable: no definition names one.
WorkerSymmetry == Permutations(Workers)
=============================================================================
