---------------------------- MODULE MessageChannel ----------------------------
(***************************************************************************)
(* What the gateway promises to the engine and to Meta, with no caches,     *)
(* deliveries or failures in it: to every tenant a log, to which messages   *)
(* of accepted notifications are appended, only for numbers that the tenant *)
(* has had, and which is read from the front.  A log may drop entries that  *)
(* were not read only while it holds more than MaxLen of them.              *)
(* Messages may be lost or come twice; Gateway says how often.              *)
(***************************************************************************)
EXTENDS Integers, Sequences

CONSTANTS Tenants, Phones, Hooks, Batch, MaxLen

VARIABLES
    accepted,   \* how many deliveries of each notification were accepted
    owned,      \* pairs of a tenant and a number it has had
    log,        \* the log of each tenant, all that was ever appended
    read        \* how many of its entries are read or dropped

channel == <<accepted, owned, log, read>>

IsMessageFor(w, i, p) == Batch[w][i].kind = "message" /\ Batch[w][i].phone = p

Init ==
    /\ accepted = [w \in Hooks |-> 0]
    /\ owned = {}
    /\ log = [t \in Tenants |-> <<>>]
    /\ read = [t \in Tenants |-> 0]

Accept(w) ==
    /\ accepted' = [accepted EXCEPT ![w] = @ + 1]
    /\ UNCHANGED <<owned, log, read>>

Own(t, p) ==
    /\ owned' = owned \cup {<<t, p>>}
    /\ UNCHANGED <<accepted, log, read>>

File(t, p, w, i) ==
    /\ accepted[w] > 0
    /\ <<t, p>> \in owned
    /\ IsMessageFor(w, i, p)
    /\ log' = [log EXCEPT ![t] = Append(@, [hook |-> w, index |-> i])]
    /\ \/ UNCHANGED read
       \/ \E k \in (read[t] + 1)..(Len(log[t]) + 1 - MaxLen) : read' = [read EXCEPT ![t] = k]
    /\ UNCHANGED <<accepted, owned>>

Take(t) ==
    /\ read[t] < Len(log[t])
    /\ read' = [read EXCEPT ![t] = @ + 1]
    /\ UNCHANGED <<accepted, owned, log>>

Next ==
    \/ \E w \in Hooks : Accept(w)
    \/ \E t \in Tenants, p \in Phones : Own(t, p)
    \/ \E t \in Tenants, p \in Phones, w \in Hooks : \E i \in DOMAIN Batch[w] :
          File(t, p, w, i)
    \/ \E t \in Tenants : Take(t)

Spec == Init /\ [][Next]_channel
=============================================================================
