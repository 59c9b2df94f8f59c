----------------------------- MODULE MCGateway -----------------------------
(***************************************************************************)
(* Instance of Gateway for TLC: two tenants, two numbers that can change    *)
(* hands, and a notification that is delivered twice, both deliveries being *)
(* worked on at the same time.                                              *)
(***************************************************************************)
EXTENDS Gateway

CONSTANTS a, b, p1, p2, w, s1, s2

MCBatch == [h \in Hooks |-> <<[kind |-> "status", phone |-> p1], [kind |-> "message", phone |-> p1]>>]

MCWanted(t) == IF t = a THEN {"s"} ELSE {"s", "u"}
=============================================================================
