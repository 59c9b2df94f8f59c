---------------------------- MODULE GatewayProofs ----------------------------
(***************************************************************************)
(* Proofs about Gateway, for every set of tenants, numbers, notifications   *)
(* and deliveries, and any number of failures.                              *)
(***************************************************************************)
EXTENDS Gateway, FiniteSetTheorems, TLAPS

-----------------------------------------------------------------------------
(* Lemmas *)

Moves == {"arrived", "value", "select", "fill", "publish"}

\* A delivery under way is a record, and names an entry.
LEMMA SlotTyped ==
    ASSUME TypeOK, NEW s \in Slots, slot[s] # Free
    PROVE  /\ slot[s] \in Delivery
           /\ slot[s].at \in Moves
           /\ slot[s].hook \in Hooks
           /\ slot[s].index \in Nat \ {0}
           /\ slot[s].tenant \in Tenants \cup {None}
           /\ Entry(s) \in EntryType
  <1>1. slot[s] \in Delivery
    BY DEF TypeOK
  <1> QED
    BY <1>1 DEF Delivery, Moves, Entry, EntryType

\* "free" is the state of no delivery under way.
LEMMA FreeSlot ==
    ASSUME TypeOK, NEW s \in Slots
    PROVE  slot[s] = Free <=> slot[s].at = "free"
  <1>1. slot[s] \in {Free} \cup Delivery
    BY DEF TypeOK
  <1>2. CASE slot[s] = Free
    BY <1>2 DEF Free
  <1>3. CASE slot[s] \in Delivery
    BY <1>3 DEF Free, Delivery
  <1> QED
    BY <1>1, <1>2, <1>3

\* What Put leaves: one delivery has changed.
LEMMA PutSlot ==
    ASSUME TypeOK, NEW s \in Slots, NEW w \in Hooks, NEW at \in Moves, NEW i \in Nat \ {0},
           NEW t \in Tenants \cup {None}, Put(s, w, at, i, t)
    PROVE  /\ slot' \in [Slots -> {Free} \cup Delivery]
           /\ slot'[s] = [at |-> at, hook |-> w, index |-> i, tenant |-> t]
           /\ \A r \in Slots \ {s} : slot'[r] = slot[r]
  <1> DEFINE new == [at |-> at, hook |-> w, index |-> i, tenant |-> t]
  <1>1. new \in Delivery
    BY DEF Delivery, Moves
  <1> HIDE DEF new
  <1>2. slot' = [slot EXCEPT ![s] = new]
    BY DEF Put, new
  <1>3. slot \in [Slots -> {Free} \cup Delivery]
    BY DEF TypeOK
  <1>4. slot' \in [Slots -> {Free} \cup Delivery] /\ slot'[s] = new
        /\ \A r \in Slots \ {s} : slot'[r] = slot[r]
    BY <1>1, <1>2, <1>3
  <1> QED
    BY <1>4 DEF new

LEMMA HereTyped ==
    ASSUME TypeOK, NEW s \in Slots, slot[s] # Free,
           slot[s].index \in DOMAIN Batch[slot[s].hook]
    PROVE  Here(s) \in Value /\ Here(s).phone \in Phones \cup {None}
  <1>1. Batch[slot[s].hook] \in Seq(Value)
    BY SlotTyped, GatewayAssumption
  <1>2. Here(s) \in Value
    BY <1>1 DEF Here
  <1> QED
    BY <1>2 DEF Value

\* XADD: the log grows at its end, and read moves up to what was trimmed.
LEMMA AddTyped ==
    ASSUME TypeOK, NEW s \in Slots, slot[s] # Free, slot[s].tenant \in Tenants, Add(s)
    PROVE  /\ log' \in [Tenants -> Seq(EntryType)]
           /\ log' = [log EXCEPT ![slot[s].tenant] = Append(@, Entry(s))]
           /\ read' \in [Tenants -> Nat]
  <1> DEFINE t == slot[s].tenant
  <1> HIDE DEF t
  <1>0. t \in Tenants
    BY DEF t
  <1>1. Append(log[t], Entry(s)) \in Seq(EntryType)
    BY <1>0, SlotTyped DEF TypeOK
  <1>2. log' = [log EXCEPT ![t] = Append(@, Entry(s))]
    BY DEF Add, t
  <1>3. log' \in [Tenants -> Seq(EntryType)]
    BY <1>1, <1>2 DEF TypeOK
  <1>4. Len(log[t]) \in Nat /\ read[t] \in Nat /\ read \in [Tenants -> Nat]
    BY <1>0 DEF TypeOK
  <1>5. \/ UNCHANGED read
        \/ \E k \in (read[t] + 1)..(Len(log[t]) + 1 - MaxLen) : read' = [read EXCEPT ![t] = k]
    BY DEF Add, Trim, t
  <1>6. ASSUME UNCHANGED read
        PROVE  read' \in [Tenants -> Nat]
    BY <1>4, <1>6 DEF TypeOK
  <1>7. ASSUME NEW k \in (read[t] + 1)..(Len(log[t]) + 1 - MaxLen),
               read' = [read EXCEPT ![t] = k]
        PROVE  read' \in [Tenants -> Nat]
    <2>1. k \in Nat
      BY <1>4, GatewayAssumption
    <2> QED
      BY <1>0, <1>4, <1>7, <2>1 DEF TypeOK
  <1>8. read' \in [Tenants -> Nat]
    BY <1>5, <1>6, <1>7
  <1> QED
    BY <1>2, <1>3, <1>8 DEF t

\* A delivery that has come to a value of its batch.
LEMMA SlotHere ==
    ASSUME TypeOK, NEW s \in Slots, AtValue(s)
    PROVE  slot[s] # Free /\ slot[s].index \in 1..Len(Batch[slot[s].hook])
           /\ slot[s].index \in DOMAIN Batch[slot[s].hook]
  <1>1. slot[s] # Free
    BY FreeSlot DEF AtValue
  <1>2. slot[s].hook \in Hooks /\ slot[s].index \in Nat \ {0}
    BY <1>1, SlotTyped
  <1>3. Batch[slot[s].hook] \in Seq(Value)
    BY <1>2, GatewayAssumption
  <1> QED
    BY <1>1, <1>2, <1>3 DEF AtValue

-----------------------------------------------------------------------------
(* Type correctness *)

LEMMA RegisterToTyped ==
    ASSUME TenantsTypeOK, NEW t \in Tenants, NEW s \in Slugs \cup {None},
           NEW at \in {"new", "free", "refused", "tenant", "done", "failed"},
           RegisterTo(t, at, s)
    PROVE  reg' \in [Tenants -> [at : {"new", "free", "refused", "tenant", "done", "failed"},
                                 slug : Slugs \cup {None}]]
  BY DEF TenantsTypeOK, RegisterTo

LEMMA TenantsTyped ==
    ASSUME TenantsTypeOK, TenantsNext
    PROVE  TenantsTypeOK'
  <1> USE TenantsAssumption DEF accounts, numbers
  <1>0. ASSUME NEW t \in Tenants
        PROVE  reg[t].slug \in Slugs \cup {None}
    BY DEF TenantsTypeOK
  <1>1. ASSUME NEW t \in Tenants, NEW s \in Wanted(t), RegisterFind(t, s)
        PROVE  TenantsTypeOK'
    <2>1. s \in Slugs
      OBVIOUS
    <2>2. RegisterTo(t, "free", s) \/ RegisterTo(t, "refused", s)
      BY <1>1 DEF RegisterFind
    <2> QED
      BY <1>1, <2>1, <2>2, RegisterToTyped DEF RegisterFind, TenantsTypeOK
  <1>2. ASSUME NEW t \in Tenants, TenantInsert(t)
        PROVE  TenantsTypeOK'
    <2>1. RegisterTo(t, "tenant", reg[t].slug)
      BY <1>2 DEF TenantInsert
    <2> QED
      BY <1>0, <1>2, <2>1, RegisterToTyped DEF TenantInsert, TenantsTypeOK
  <1>3. ASSUME NEW t \in Tenants, UserInsert(t)
        PROVE  TenantsTypeOK'
    <2>1. RegisterTo(t, "done", reg[t].slug)
      BY <1>3 DEF UserInsert
    <2> QED
      BY <1>0, <1>3, <2>1, RegisterToTyped DEF UserInsert, TenantsTypeOK
  <1>4. ASSUME NEW t \in Tenants, RegisterRaises(t)
        PROVE  TenantsTypeOK'
    <2>1. RegisterTo(t, "failed", reg[t].slug)
      BY <1>4 DEF RegisterRaises
    <2>2. dbFaults' \in 0..MaxDbFaults
      BY <1>4 DEF RegisterRaises, TenantsTypeOK
    <2> QED
      BY <1>0, <1>4, <2>1, <2>2, RegisterToTyped DEF RegisterRaises, TenantsTypeOK
  <1>5. ASSUME NEW t \in Tenants, NEW p \in Phones, Connect(t, p)
        PROVE  TenantsTypeOK'
    BY <1>5 DEF Connect, TenantsTypeOK
  <1> QED
    BY <1>1, <1>2, <1>3, <1>4, <1>5 DEF TenantsNext, Register

\* A delivery that has come to a message, and what it has found out about it.
SlotKnows(s) ==
    /\ slot[s].at \in {"select", "fill", "publish"} =>
          slot[s].index \in DOMAIN Batch[slot[s].hook] /\ IsMessage(Here(s))
    /\ slot[s].at \in {"fill", "publish"} => <<slot[s].tenant, Here(s).phone>> \in owned
    /\ slot[s].at \notin {"free", "arrived"} => accepted[slot[s].hook] > 0

\* What is on the log of a tenant is a message for a number the tenant has had.
LogKnows(t) ==
    /\ read[t] <= Len(log[t])
    /\ \A i \in DOMAIN log[t] :
          /\ log[t][i].index \in DOMAIN Batch[log[t][i].hook]
          /\ IsMessage(Batch[log[t][i].hook][log[t][i].index])
          /\ <<t, Phone(log[t][i])>> \in owned

\* Every place that leads from a number to a tenant leads to one that has had it.
Routes ==
    /\ \A t \in Tenants : phone[t] # None => <<t, phone[t]>> \in owned
    /\ \A p \in Phones : cache[p] # None => <<cache[p], p>> \in owned
    /\ tokens \subseteq owned

Logs == \A t \in Tenants : LogKnows(t)

\* The inductive invariant: the table and the two caches, what a delivery holds in
\* its hands between two calls, and what is on the logs.
IInv == TypeOK /\ Routes /\ (\A s \in Slots : SlotKnows(s)) /\ Logs

LEMMA TypeStep ==
    ASSUME IInv, [Next]_vars
    PROVE  TypeOK'
  <1> USE GatewayAssumption, TenantsAssumption
  <1>a. TypeOK
    BY DEF IInv
  <1>0. UNCHANGED tenants => TenantsTypeOK'
    BY <1>a DEF TypeOK, TenantsTypeOK, tenants, accounts, numbers
  <1>1. ASSUME NEW s \in Slots, NEW w \in Hooks, Arrive(s, w)
        PROVE  TypeOK'
    <2>1. slot' \in [Slots -> {Free} \cup Delivery]
      <3>1. Put(s, w, "arrived", 1, None)
        BY <1>1 DEF Arrive
      <3>2. "arrived" \in Moves /\ 1 \in Nat \ {0} /\ None \in Tenants \cup {None}
        BY DEF Moves
      <3> QED
        BY <1>a, <3>1, <3>2, PutSlot
    <2> QED
      BY <1>a, <1>0, <1>1, <2>1 DEF Arrive, TypeOK, reader, history
  <1>2. ASSUME NEW s \in Slots, Forbid(s)
        PROVE  TypeOK'
    BY <1>a, <1>0, <1>2 DEF Forbid, TypeOK, reader, history
  <1>3. ASSUME NEW s \in Slots, Answer(s)
        PROVE  TypeOK'
    <2>1. slot[s] # Free
      BY <1>a, <1>3, FreeSlot DEF Answer
    <2>2. Put(s, slot[s].hook, "value", slot[s].index, slot[s].tenant)
      BY <1>3 DEF Answer, Move, Found, NextValue
    <2>3. slot' \in [Slots -> {Free} \cup Delivery]
      <3>1. slot[s].hook \in Hooks /\ slot[s].index \in Nat \ {0}
            /\ slot[s].index + 1 \in Nat \ {0} /\ slot[s].tenant \in Tenants \cup {None}
        BY <1>a, <2>1, SlotTyped
      <3> QED
        BY <1>a, <2>2, <3>1, PutSlot DEF Moves
    <2>4. slot[s].hook \in Hooks
      BY <1>a, <2>1, SlotTyped
    <2>5. accepted' \in [Hooks -> 0..MaxTries]
      <3> DEFINE w == slot[s].hook
      <3>1. accepted \in [Hooks -> 0..MaxTries] /\ w \in Hooks
        BY <1>a, <2>4 DEF TypeOK
      <3>2. accepted[w] < MaxTries /\ accepted' = [accepted EXCEPT ![w] = @ + 1]
        BY <1>3 DEF Answer
      <3> HIDE DEF w
      <3>3. accepted[w] + 1 \in 0..MaxTries
        BY <3>1, <3>2, GatewayAssumption
      <3> QED
        BY <3>1, <3>2, <3>3
    <2> QED
      BY <1>a, <1>0, <1>3, <2>3, <2>5 DEF Answer, TypeOK, reader, history
  <1>4. ASSUME NEW s \in Slots, IgnoreValue(s)
        PROVE  TypeOK'
    <2>1. slot[s] # Free
      BY <1>a, <1>4, FreeSlot DEF IgnoreValue, AtValue
    <2>2. Put(s, slot[s].hook, "value", slot[s].index + 1, None)
      BY <1>4 DEF IgnoreValue, Move, Found, NextValue
    <2>3. slot' \in [Slots -> {Free} \cup Delivery]
      <3>1. slot[s].hook \in Hooks /\ slot[s].index \in Nat \ {0}
            /\ slot[s].index + 1 \in Nat \ {0} /\ slot[s].tenant \in Tenants \cup {None}
        BY <1>a, <2>1, SlotTyped
      <3> QED
        BY <1>a, <2>2, <3>1, PutSlot DEF Moves
    <2> QED
      BY <1>a, <1>0, <1>4, <2>1, <2>3, SlotTyped DEF IgnoreValue, TypeOK, reader, history
  <1>5. ASSUME NEW s \in Slots, LookUp(s)
        PROVE  TypeOK'
    <2> DEFINE t == cache[Here(s).phone]
               at == IF t = None THEN "select" ELSE "publish"
    <2>1. slot[s] # Free
      BY <1>a, <1>5, FreeSlot DEF LookUp, AtValue
    <2>2. Here(s).phone \in Phones
      <3>1. slot[s].index \in DOMAIN Batch[slot[s].hook]
        BY <1>a, <1>5, SlotHere DEF LookUp
      <3> QED
        BY <1>a, <1>5, <2>1, <3>1, HereTyped DEF LookUp, IsMessage
    <2>3. t \in Tenants \cup {None} /\ at \in Moves
      BY <1>a, <2>2 DEF TypeOK, Moves
    <2>4. Put(s, slot[s].hook, at, slot[s].index, t)
      BY <1>5 DEF LookUp, Found
    <2> HIDE DEF t, at
    <2>5. slot' \in [Slots -> {Free} \cup Delivery]
      BY <1>a, <2>1, <2>3, <2>4, SlotTyped, PutSlot
    <2> QED
      BY <1>a, <1>0, <1>5, <2>5 DEF LookUp, TypeOK, reader, history
  <1>6. ASSUME NEW s \in Slots, SelectTenant(s)
        PROVE  TypeOK'
    <2>1. slot[s] # Free
      BY <1>a, <1>6, FreeSlot DEF SelectTenant
    <2>2. PICK t \in Tenants : Put(s, slot[s].hook, "fill", slot[s].index, t)
      BY <1>6 DEF SelectTenant, Owners, Found
    <2>3. slot' \in [Slots -> {Free} \cup Delivery]
      <3>1. slot[s].hook \in Hooks /\ slot[s].index \in Nat \ {0}
            /\ slot[s].index + 1 \in Nat \ {0} /\ slot[s].tenant \in Tenants \cup {None}
        BY <1>a, <2>1, SlotTyped
      <3> QED
        BY <1>a, <2>2, <3>1, PutSlot DEF Moves
    <2> QED
      BY <1>a, <1>0, <1>6, <2>3 DEF SelectTenant, TypeOK, reader, history
  <1>7. ASSUME NEW s \in Slots, TenantNotFound(s)
        PROVE  TypeOK'
    <2>1. slot[s] # Free
      BY <1>a, <1>7, FreeSlot DEF TenantNotFound
    <2>2. Put(s, slot[s].hook, "value", slot[s].index + 1, None)
      BY <1>7 DEF TenantNotFound, Move, Found, NextValue
    <2>3. slot' \in [Slots -> {Free} \cup Delivery]
      <3>1. slot[s].hook \in Hooks /\ slot[s].index \in Nat \ {0}
            /\ slot[s].index + 1 \in Nat \ {0} /\ slot[s].tenant \in Tenants \cup {None}
        BY <1>a, <2>1, SlotTyped
      <3> QED
        BY <1>a, <2>2, <3>1, PutSlot DEF Moves
    <2> QED
      BY <1>a, <1>0, <1>7, <2>1, <2>3, SlotTyped DEF TenantNotFound, TypeOK, reader, history
  <1>8. ASSUME NEW s \in Slots, FillCache(s)
        PROVE  TypeOK'
    <2>1. slot[s] # Free
      BY <1>a, <1>8, FreeSlot DEF FillCache
    <2>2. Put(s, slot[s].hook, "publish", slot[s].index, slot[s].tenant)
      BY <1>8 DEF FillCache, Move, Found
    <2>3. slot' \in [Slots -> {Free} \cup Delivery]
      <3>1. slot[s].hook \in Hooks /\ slot[s].index \in Nat \ {0}
            /\ slot[s].index + 1 \in Nat \ {0} /\ slot[s].tenant \in Tenants \cup {None}
        BY <1>a, <2>1, SlotTyped
      <3> QED
        BY <1>a, <2>2, <3>1, PutSlot DEF Moves
    <2>4. cache' \in [Phones -> Tenants \cup {None}]
      BY <1>a, <1>8, <2>1, SlotTyped DEF FillCache, TypeOK
    <2> QED
      BY <1>a, <1>0, <1>8, <2>3, <2>4 DEF FillCache, TypeOK, reader, history
  <1>9. ASSUME NEW s \in Slots, Publish(s)
        PROVE  TypeOK'
    <2>1. slot[s] # Free
      BY <1>a, <1>9, FreeSlot DEF Publish
    <2>2. slot[s].tenant \in Tenants
      BY <1>a, <1>9 DEF Publish, IInv, SlotKnows, TypeOK
    <2>3. Put(s, slot[s].hook, "value", slot[s].index + 1, None)
      BY <1>9 DEF Publish, NextValue
    <2>4. slot' \in [Slots -> {Free} \cup Delivery]
      <3>1. slot[s].hook \in Hooks /\ slot[s].index + 1 \in Nat \ {0}
        BY <1>a, <2>1, SlotTyped
      <3> QED
        BY <1>a, <2>3, <3>1, PutSlot DEF Moves
    <2>5. Add(s)
      BY <1>9 DEF Publish
    <2> QED
      BY <1>a, <1>0, <1>9, <2>1, <2>2, <2>4, <2>5, AddTyped DEF Publish, TypeOK
  <1>10. ASSUME NEW s \in Slots, Finish(s)
        PROVE  TypeOK'
    <2>1. slot[s] # Free
      BY <1>a, <1>10, FreeSlot DEF Finish
    <2> QED
      BY <1>a, <1>0, <1>10, <2>1, SlotTyped DEF Finish, TypeOK, reader, history
  <1>11. ASSUME NEW s \in Slots, ProcessRaises(s)
        PROVE  TypeOK'
    BY <1>a, <1>0, <1>11 DEF ProcessRaises, TypeOK, reader, history, Mishap
  <1>12. ASSUME NEW s \in Slots, Resend(s)
        PROVE  TypeOK'
    <2>1. slot[s] # Free
      BY <1>a, <1>12, FreeSlot DEF Resend
    <2>2. slot[s].tenant \in Tenants
      BY <1>a, <1>12 DEF Resend, IInv, SlotKnows, TypeOK
    <2>3. Add(s)
      BY <1>12 DEF Resend
    <2>4. faults' \in 0..MaxFaults
      BY <1>a, <1>12 DEF Resend, Mishap, TypeOK
    <2> QED
      BY <1>a, <1>0, <1>12, <2>1, <2>2, <2>3, <2>4, AddTyped DEF Resend, TypeOK
  <1>13. ASSUME Crash
        PROVE  TypeOK'
    BY <1>a, <1>0, <1>13 DEF Crash, TypeOK, reader, history, Mishap
  <1>14. ASSUME NEW p \in Phones, CacheExpires(p)
        PROVE  TypeOK'
    BY <1>a, <1>0, <1>14 DEF CacheExpires, TypeOK, reader, history
  <1>15. ASSUME NEW t \in Tenants, Serve(t)
        PROVE  TypeOK'
    <2> DEFINE e == log[t][read[t] + 1]
    <2>1. read[t] + 1 \in DOMAIN log[t] /\ read[t] \in Nat
      <3>1. log[t] \in Seq(EntryType) /\ read[t] \in Nat
        BY <1>a DEF TypeOK
      <3>2. Len(log[t]) - read[t] > 0
        BY <1>15 DEF Serve, Unread
      <3> QED
        BY <3>1, <3>2
    <2>2. <<t, Batch[e.hook][e.index].phone>> \in owned
      BY <2>1 DEF IInv, Logs, LogKnows, Phone
    <2>3. tokens' = tokens \cup {<<t, Batch[e.hook][e.index].phone>>}
      BY <1>15 DEF Serve
    <2> HIDE DEF e
    <2>4. tokens' \subseteq Tenants \X Phones
      BY <1>a, <2>2, <2>3 DEF TypeOK
    <2>5. read' \in [Tenants -> Nat]
      <3>1. read' = [read EXCEPT ![t] = read[t] + 1]
        BY <1>15 DEF Serve
      <3>2. read \in [Tenants -> Nat]
        BY <1>a DEF TypeOK
      <3> QED
        BY <3>1, <3>2
    <2> QED
      BY <1>a, <1>0, <1>15, <2>4, <2>5 DEF Serve, TypeOK
  <1>16. ASSUME NEW t \in Tenants, Drop(t)
        PROVE  TypeOK'
    BY <1>a, <1>0, <1>16 DEF Drop, TypeOK, reader, history
  <1>17. ASSUME NEW t \in Tenants, NEW p \in Phones, TokenExpires(t, p)
        PROVE  TypeOK'
    BY <1>a, <1>0, <1>17 DEF TokenExpires, TypeOK, reader, history
  <1>18. ASSUME TenantStep
        PROVE  TypeOK'
    <2>1. TenantsTypeOK'
      BY <1>a, <1>18, TenantsTyped DEF TenantStep, TypeOK
    <2> QED
      BY <1>a, <1>18, <2>1 DEF TenantStep, TypeOK, reader
  <1>19. CASE UNCHANGED vars
    BY <1>a, <1>0, <1>19 DEF vars, TypeOK, reader, history
  <1> QED
    BY <1>1, <1>2, <1>3, <1>4, <1>5, <1>6, <1>7, <1>8, <1>9, <1>10, <1>11, <1>12,
       <1>13, <1>14, <1>15, <1>16, <1>17, <1>18, <1>19
    DEF Next, Process


-----------------------------------------------------------------------------
(* What deliveries, caches and logs know is kept *)

LEMMA RoutesKept ==
    ASSUME Routes, owned \subseteq owned', UNCHANGED <<phone, cache, tokens>>
    PROVE  Routes'
  BY DEF Routes

LEMMA LogsKept ==
    ASSUME Logs, owned \subseteq owned', UNCHANGED <<log, read>>
    PROVE  Logs'
  BY DEF Logs, LogKnows, Phone

\* A delivery that a step does not touch.
LEMMA SlotKept ==
    ASSUME IInv, NEW r \in Slots, slot'[r] = slot[r], owned \subseteq owned',
           \A w \in Hooks : accepted[w] > 0 => accepted'[w] > 0
    PROVE  SlotKnows(r)'
  <1>1. TypeOK /\ SlotKnows(r)
    BY DEF IInv
  <1>2. Here(r)' = Here(r)
    BY DEF Here
  <1>3. CASE slot[r] = Free
    BY <1>3 DEF SlotKnows, Free
  <1>4. CASE slot[r] # Free
    <2>1. slot[r].hook \in Hooks
      BY <1>1, <1>4, SlotTyped
    <2> QED
      BY <1>1, <1>2, <2>1 DEF SlotKnows
  <1> QED
    BY <1>3, <1>4

\* A delivery that goes on.
LEMMA PutKnows ==
    ASSUME IInv, NEW s \in Slots, NEW w \in Hooks, NEW at \in Moves, NEW i \in Nat \ {0},
           NEW t \in Tenants \cup {None}, Put(s, w, at, i, t),
           at \in {"select", "fill", "publish"} => i \in DOMAIN Batch[w] /\ IsMessage(Batch[w][i]),
           at \in {"fill", "publish"} => <<t, Batch[w][i].phone>> \in owned,
           at # "arrived" => accepted'[w] > 0,
           owned \subseteq owned', \A h \in Hooks : accepted[h] > 0 => accepted'[h] > 0
    PROVE  \A r \in Slots : SlotKnows(r)'
  <1>0. TypeOK
    BY DEF IInv
  <1>1. /\ slot'[s] = [at |-> at, hook |-> w, index |-> i, tenant |-> t]
        /\ \A r \in Slots \ {s} : slot'[r] = slot[r]
    BY <1>0, PutSlot
  <1>2. SlotKnows(s)'
    BY <1>1 DEF SlotKnows, Here
  <1> QED
    BY <1>1, <1>2, SlotKept

\* A delivery that is given up, or comes to its end.
LEMMA FreeKnows ==
    ASSUME IInv, \A r \in Slots : slot'[r] = Free \/ slot'[r] = slot[r],
           UNCHANGED <<owned, accepted>>
    PROVE  \A r \in Slots : SlotKnows(r)'
  <1> SUFFICES ASSUME NEW r \in Slots
               PROVE  SlotKnows(r)'
    OBVIOUS
  <1>1. CASE slot'[r] = Free
    BY <1>1 DEF SlotKnows, Free
  <1>2. CASE slot'[r] = slot[r]
    BY <1>2, SlotKept
  <1> QED
    BY <1>1, <1>2

\* XADD by a delivery that knows its tenant.
LEMMA AddKnows ==
    ASSUME IInv, NEW s \in Slots, slot[s].at = "publish",
           NEW t \in Tenants, slot[s].tenant = t, Add(s), UNCHANGED owned
    PROVE  Logs'
  <1>1. TypeOK /\ slot[s] # Free /\ SlotKnows(s) /\ Logs
    BY FreeSlot DEF IInv
  <1>2. /\ <<t, Here(s).phone>> \in owned
        /\ slot[s].index \in DOMAIN Batch[slot[s].hook] /\ IsMessage(Here(s))
    BY <1>1 DEF SlotKnows, TypeOK
  <1>3. /\ log' = [log EXCEPT ![t] = Append(@, Entry(s))]
        /\ read' \in [Tenants -> Nat]
    BY <1>1, <1>2, AddTyped
  <1>4. \/ UNCHANGED read
        \/ \E k \in (read[t] + 1)..(Len(log[t]) + 1 - MaxLen) : read' = [read EXCEPT ![t] = k]
    BY DEF Add, Trim
  <1>5. Entry(s) \in EntryType
    BY <1>1, SlotTyped
  <1>6. /\ log \in [Tenants -> Seq(EntryType)] /\ read \in [Tenants -> Nat]
        /\ Len(log[t]) \in Nat /\ read[t] \in Nat /\ read[t] <= Len(log[t])
    BY <1>1, <1>2 DEF TypeOK, Logs, LogKnows
  <1>7. LogKnows(t)'
    <2>1. log'[t] = Append(log[t], Entry(s)) /\ Len(log'[t]) = Len(log[t]) + 1
      BY <1>2, <1>3, <1>5, <1>6
    <2>2. read'[t] <= Len(log'[t])
      BY <1>2, <1>4, <1>6, <2>1, GatewayAssumption
    <2>3. ASSUME NEW i \in DOMAIN log'[t]
          PROVE  /\ log'[t][i].index \in DOMAIN Batch[log'[t][i].hook]
                 /\ IsMessage(Batch[log'[t][i].hook][log'[t][i].index])
                 /\ <<t, Batch[log'[t][i].hook][log'[t][i].index].phone>> \in owned
      <3>1. CASE i \in DOMAIN log[t]
        <4>1. log'[t][i] = log[t][i]
          BY <1>2, <1>5, <1>6, <2>1, <3>1
        <4> QED
          BY <1>1, <1>2, <3>1, <4>1 DEF Logs, LogKnows, Phone
      <3>2. CASE i \notin DOMAIN log[t]
        <4>1. log'[t][i] = Entry(s)
          BY <1>2, <1>5, <1>6, <2>1, <3>2
        <4> QED
          BY <1>2, <4>1 DEF Entry, Here
      <3> QED
        BY <3>1, <3>2
    <2> QED
      BY <2>2, <2>3 DEF LogKnows, Phone
  <1>8. ASSUME NEW u \in Tenants, u # t
        PROVE  LogKnows(u)'
    <2>1. log'[u] = log[u] /\ read'[u] = read[u]
      BY <1>2, <1>3, <1>4, <1>6, <1>8
    <2> QED
      BY <1>1, <2>1 DEF Logs, LogKnows, Phone
  <1> QED
    BY <1>7, <1>8 DEF Logs

-----------------------------------------------------------------------------
(* The steps *)

LEMMA KnowsStep ==
    ASSUME IInv, TypeOK', [Next]_vars
    PROVE  Routes' /\ (\A r \in Slots : SlotKnows(r)') /\ Logs'
  <1> USE GatewayAssumption, TenantsAssumption
  <1>a. TypeOK /\ Routes /\ Logs
    BY DEF IInv
  <1>b. ASSUME NEW s \in Slots, slot[s] # Free
        PROVE  /\ SlotKnows(s)
               /\ slot[s].hook \in Hooks /\ slot[s].at \in Moves
               /\ slot[s].index \in Nat \ {0} /\ slot[s].index + 1 \in Nat \ {0}
               /\ slot[s].tenant \in Tenants \cup {None}
               /\ slot[s].at # "arrived" => accepted[slot[s].hook] > 0
    <2>1. SlotKnows(s) /\ slot[s].at # "free"
      BY <1>a, <1>b, FreeSlot DEF IInv
    <2>2. /\ slot[s].hook \in Hooks /\ slot[s].at \in Moves
          /\ slot[s].index \in Nat \ {0} /\ slot[s].index + 1 \in Nat \ {0}
          /\ slot[s].tenant \in Tenants \cup {None}
      BY <1>a, <1>b, SlotTyped
    <2> QED
      BY <2>1, <2>2 DEF SlotKnows
  <1>c. /\ "arrived" \in Moves /\ "value" \in Moves /\ "select" \in Moves
        /\ "fill" \in Moves /\ "publish" \in Moves /\ 1 \in Nat \ {0}
        /\ None \in Tenants \cup {None}
    BY DEF Moves
  <1>d. UNCHANGED <<phone, cache, tokens, owned>> => Routes'
    BY <1>a, RoutesKept
  <1>e. UNCHANGED <<log, read, owned>> => Logs'
    BY <1>a, LogsKept
  <1>f. UNCHANGED <<slot, owned, accepted>> => \A r \in Slots : SlotKnows(r)'
    BY FreeKnows
  <1>1. ASSUME NEW s \in Slots, NEW w \in Hooks, Arrive(s, w)
        PROVE  Routes' /\ (\A r \in Slots : SlotKnows(r)') /\ Logs'
    <2>1. Put(s, w, "arrived", 1, None) /\ UNCHANGED <<owned, accepted>>
      BY <1>1 DEF Arrive, history
    <2>2. \A r \in Slots : SlotKnows(r)'
      BY <1>c, <2>1, PutKnows
    <2> QED
      BY <1>1, <1>d, <1>e, <2>2 DEF Arrive, tenants, numbers, reader, history
  <1>2. ASSUME NEW s \in Slots, Forbid(s)
        PROVE  Routes' /\ (\A r \in Slots : SlotKnows(r)') /\ Logs'
    <2>1. \A r \in Slots : slot'[r] = Free \/ slot'[r] = slot[r]
      BY <1>a, <1>2 DEF Forbid, TypeOK
    <2>2. \A r \in Slots : SlotKnows(r)'
      BY <1>2, <2>1, FreeKnows DEF Forbid, history
    <2> QED
      BY <1>2, <1>d, <1>e, <2>2 DEF Forbid, tenants, numbers, reader, history
  <1>3. ASSUME NEW s \in Slots, Answer(s)
        PROVE  Routes' /\ (\A r \in Slots : SlotKnows(r)') /\ Logs'
    <2>1. slot[s] # Free
      BY <1>a, <1>3, FreeSlot DEF Answer
    <2>2. Put(s, slot[s].hook, "value", slot[s].index, slot[s].tenant)
      BY <1>3 DEF Answer, Move, Found
    <2>3. \A h \in Hooks : (accepted[h] > 0 => accepted'[h] > 0) /\ accepted'[slot[s].hook] > 0
      <3>1. accepted \in [Hooks -> Nat] /\ slot[s].hook \in Hooks
        BY <1>a, <1>b, <2>1 DEF TypeOK
      <3>2. accepted' = [accepted EXCEPT ![slot[s].hook] = @ + 1]
        BY <1>3 DEF Answer
      <3> HIDE DEF TypeOK
      <3>3. accepted'[slot[s].hook] = accepted[slot[s].hook] + 1
        BY <3>1, <3>2
      <3>4. \A h \in Hooks : h # slot[s].hook => accepted'[h] = accepted[h]
        BY <3>1, <3>2
      <3>5. accepted[slot[s].hook] \in Nat
        BY <3>1
      <3> QED
        BY <3>1, <3>3, <3>4, <3>5
    <2>4. \A r \in Slots : SlotKnows(r)'
      <3>1. UNCHANGED owned
        BY <1>3 DEF Answer, history
      <3> QED
        BY <1>b, <1>c, <2>1, <2>2, <2>3, <3>1, PutKnows
    <2> QED
      BY <1>3, <1>d, <1>e, <2>4 DEF Answer, tenants, numbers, reader, history
  <1>4. ASSUME NEW s \in Slots, IgnoreValue(s) \/ TenantNotFound(s)
        PROVE  Routes' /\ (\A r \in Slots : SlotKnows(r)') /\ Logs'
    <2>1. slot[s] # Free /\ slot[s].at # "arrived"
      BY <1>a, <1>4, FreeSlot DEF IgnoreValue, TenantNotFound, AtValue
    <2>2. Put(s, slot[s].hook, "value", slot[s].index + 1, None)
      BY <1>4 DEF IgnoreValue, TenantNotFound, NextValue
    <2>3. UNCHANGED <<owned, accepted, phone, cache, tokens, log, read>>
      BY <1>4 DEF IgnoreValue, TenantNotFound, tenants, numbers, reader, history
    <2>4. \A r \in Slots : SlotKnows(r)'
      BY <1>b, <1>c, <2>1, <2>2, <2>3, PutKnows
    <2> QED
      BY <1>d, <1>e, <2>3, <2>4
  <1>5. ASSUME NEW s \in Slots, LookUp(s)
        PROVE  Routes' /\ (\A r \in Slots : SlotKnows(r)') /\ Logs'
    <2>1. /\ slot[s] # Free /\ slot[s].at # "arrived" /\ IsMessage(Here(s))
          /\ slot[s].index \in DOMAIN Batch[slot[s].hook]
      BY <1>a, <1>5, FreeSlot, SlotHere DEF LookUp, AtValue
    <2>2. Here(s).phone \in Phones
      BY <1>a, <2>1, HereTyped DEF IsMessage
    <2>3. PICK t \in Tenants \cup {None} : t = cache[Here(s).phone]
      BY <1>a, <2>2 DEF TypeOK
    <2>4. t # None => <<t, Here(s).phone>> \in owned
      BY <1>a, <2>2, <2>3 DEF Routes
    <2>5. UNCHANGED <<owned, accepted, phone, cache, tokens, log, read>>
      BY <1>5 DEF LookUp, tenants, numbers, reader, history
    <2>6. \A r \in Slots : SlotKnows(r)'
      <3>1. CASE t = None
        <4>1. Put(s, slot[s].hook, "select", slot[s].index, t)
          BY <1>5, <2>3, <3>1 DEF LookUp, Found
        <4> QED
          BY <1>b, <1>c, <2>1, <2>5, <4>1, PutKnows DEF Here
      <3>2. CASE t # None
        <4>1. Put(s, slot[s].hook, "publish", slot[s].index, t)
          BY <1>5, <2>3, <3>2 DEF LookUp, Found
        <4> QED
          BY <1>b, <1>c, <2>1, <2>4, <2>5, <3>2, <4>1, PutKnows DEF Here
      <3> QED
        BY <3>1, <3>2
    <2> QED
      BY <1>d, <1>e, <2>5, <2>6
  <1>6. ASSUME NEW s \in Slots, SelectTenant(s)
        PROVE  Routes' /\ (\A r \in Slots : SlotKnows(r)') /\ Logs'
    <2>1. slot[s] # Free /\ slot[s].at = "select"
      BY <1>a, <1>6, FreeSlot DEF SelectTenant
    <2>2. slot[s].index \in DOMAIN Batch[slot[s].hook] /\ IsMessage(Here(s))
      BY <1>b, <2>1 DEF SlotKnows
    <2>3. PICK t \in Owners(Here(s).phone) : Found(s, "fill", t)
      BY <1>6 DEF SelectTenant
    <2>4. t \in Tenants /\ <<t, Here(s).phone>> \in owned
      BY <1>a, <2>2, <2>3 DEF Owners, Routes, IsMessage
    <2>5. UNCHANGED <<owned, accepted, phone, cache, tokens, log, read>>
      BY <1>6 DEF SelectTenant, tenants, numbers, reader, history
    <2>6. \A r \in Slots : SlotKnows(r)'
      BY <1>b, <1>c, <2>1, <2>2, <2>3, <2>4, <2>5, PutKnows DEF Here, Found
    <2> QED
      BY <1>d, <1>e, <2>5, <2>6
  <1>7. ASSUME NEW s \in Slots, FillCache(s)
        PROVE  Routes' /\ (\A r \in Slots : SlotKnows(r)') /\ Logs'
    <2>1. slot[s] # Free /\ slot[s].at = "fill"
      BY <1>a, <1>7, FreeSlot DEF FillCache
    <2>2. /\ slot[s].index \in DOMAIN Batch[slot[s].hook] /\ IsMessage(Here(s))
          /\ <<slot[s].tenant, Here(s).phone>> \in owned
      BY <1>b, <2>1 DEF SlotKnows
    <2>3. Put(s, slot[s].hook, "publish", slot[s].index, slot[s].tenant)
      BY <1>7 DEF FillCache, Move, Found
    <2>4. /\ UNCHANGED <<owned, accepted, phone, tokens, log, read>>
          /\ cache' = [cache EXCEPT ![Here(s).phone] = slot[s].tenant]
      BY <1>7 DEF FillCache, tenants, numbers, reader, history
    <2>5. \A r \in Slots : SlotKnows(r)'
      BY <1>b, <1>c, <2>1, <2>2, <2>3, <2>4, PutKnows DEF Here
    <2>6. Routes'
      <3>1. ASSUME NEW n \in Phones, cache'[n] # None
            PROVE  <<cache'[n], n>> \in owned
        BY <1>a, <2>2, <2>4, <3>1 DEF Routes, TypeOK
      <3> QED
        BY <1>a, <2>4, <3>1 DEF Routes
    <2> QED
      BY <1>e, <2>4, <2>5, <2>6
  <1>8. ASSUME NEW s \in Slots, Publish(s)
        PROVE  Routes' /\ (\A r \in Slots : SlotKnows(r)') /\ Logs'
    <2>1. slot[s] # Free /\ slot[s].at = "publish"
      BY <1>a, <1>8, FreeSlot DEF Publish
    <2>2. PICK t \in Tenants : slot[s].tenant = t
      BY <1>a, <1>b, <2>1 DEF SlotKnows, TypeOK
    <2>3. /\ Put(s, slot[s].hook, "value", slot[s].index + 1, None) /\ Add(s)
          /\ UNCHANGED <<owned, accepted, phone, cache, tokens>>
      BY <1>8 DEF Publish, NextValue, tenants, numbers
    <2>4. \A r \in Slots : SlotKnows(r)'
      BY <1>b, <1>c, <2>1, <2>3, PutKnows
    <2>5. Logs'
      BY <2>1, <2>2, <2>3, AddKnows
    <2> QED
      BY <1>d, <2>3, <2>4, <2>5
  <1>9. ASSUME NEW s \in Slots, Resend(s)
        PROVE  Routes' /\ (\A r \in Slots : SlotKnows(r)') /\ Logs'
    <2>1. slot[s] # Free /\ slot[s].at = "publish"
      BY <1>a, <1>9, FreeSlot DEF Resend
    <2>2. PICK t \in Tenants : slot[s].tenant = t
      BY <1>a, <1>b, <2>1 DEF SlotKnows, TypeOK
    <2>3. Add(s) /\ UNCHANGED <<slot, owned, accepted, phone, cache, tokens>>
      BY <1>9 DEF Resend, tenants, numbers
    <2>4. Logs'
      BY <2>1, <2>2, <2>3, AddKnows
    <2> QED
      BY <1>d, <1>f, <2>3, <2>4
  <1>10. ASSUME NEW s \in Slots, Finish(s) \/ ProcessRaises(s)
         PROVE  Routes' /\ (\A r \in Slots : SlotKnows(r)') /\ Logs'
    <2>1. /\ \A r \in Slots : slot'[r] = Free \/ slot'[r] = slot[r]
          /\ UNCHANGED <<owned, accepted, phone, cache, tokens, log, read>>
      BY <1>a, <1>10 DEF Finish, ProcessRaises, TypeOK, tenants, numbers, reader, history
    <2> QED
      BY <1>d, <1>e, <2>1, FreeKnows
  <1>11. ASSUME Crash
         PROVE  Routes' /\ (\A r \in Slots : SlotKnows(r)') /\ Logs'
    <2>1. /\ \A r \in Slots : slot'[r] = Free \/ slot'[r] = slot[r]
          /\ UNCHANGED <<owned, accepted, phone, cache, tokens, log, read>>
      BY <1>11 DEF Crash, tenants, numbers, reader, history
    <2> QED
      BY <1>d, <1>e, <2>1, FreeKnows
  <1>12. ASSUME NEW n \in Phones, CacheExpires(n)
         PROVE  Routes' /\ (\A r \in Slots : SlotKnows(r)') /\ Logs'
    <2>1. UNCHANGED <<slot, owned, accepted, phone, tokens, log, read>>
      BY <1>12 DEF CacheExpires, tenants, numbers, reader, history
    <2>2. Routes'
      BY <1>a, <1>12, <2>1 DEF CacheExpires, Routes, TypeOK
    <2> QED
      BY <1>e, <1>f, <2>1, <2>2
  <1>13. ASSUME NEW t \in Tenants, Serve(t) \/ Drop(t)
         PROVE  Routes' /\ (\A r \in Slots : SlotKnows(r)') /\ Logs'
    <2> DEFINE e == log[t][read[t] + 1]
    <2>1. /\ UNCHANGED <<slot, owned, accepted, phone, cache, log>>
          /\ read' = [read EXCEPT ![t] = @ + 1]
          /\ tokens' = tokens \/ tokens' = tokens \cup {<<t, Phone(e)>>}
      BY <1>13 DEF Serve, Drop, Phone, tenants, numbers, reader, history
    <2>2. read[t] + 1 \in DOMAIN log[t] /\ read[t] + 1 <= Len(log[t])
      <3>1. log[t] \in Seq(EntryType) /\ read[t] \in Nat
        BY <1>a DEF TypeOK
      <3>2. Len(log[t]) - read[t] > 0
        BY <1>13 DEF Serve, Drop, Unread
      <3> QED
        BY <3>1, <3>2
    <2>3. <<t, Phone(e)>> \in owned
      BY <1>a, <2>2 DEF Logs, LogKnows
    <2> HIDE DEF e
    <2>4. Routes'
      BY <1>a, <2>1, <2>3 DEF Routes
    <2>5. Logs'
      <3>1. ASSUME NEW u \in Tenants
            PROVE  LogKnows(u)'
        <4>1. read'[u] <= Len(log[u])
          BY <1>a, <2>1, <2>2 DEF TypeOK, Logs, LogKnows
        <4> QED
          BY <1>a, <2>1, <4>1 DEF Logs, LogKnows, Phone
      <3> QED
        BY <1>a, <2>1, <3>1 DEF Logs
    <2> QED
      BY <1>f, <2>1, <2>4, <2>5
  <1>14. ASSUME NEW t \in Tenants, NEW n \in Phones, TokenExpires(t, n)
         PROVE  Routes' /\ (\A r \in Slots : SlotKnows(r)') /\ Logs'
    <2>1. UNCHANGED <<slot, owned, accepted, phone, cache, log, read>>
      BY <1>14 DEF TokenExpires, tenants, numbers, reader, history
    <2>2. Routes'
      BY <1>a, <1>14, <2>1 DEF TokenExpires, Routes
    <2> QED
      BY <1>e, <1>f, <2>1, <2>2
  <1>15. ASSUME TenantStep
         PROVE  Routes' /\ (\A r \in Slots : SlotKnows(r)') /\ Logs'
    <2>1. /\ UNCHANGED <<slot, accepted, cache, tokens, log, read>>
          /\ owned' = owned \cup {tp \in Tenants \X Phones : phone'[tp[1]] = tp[2]}
      BY <1>15 DEF TenantStep, reader
    <2>2. owned \subseteq owned'
      BY <2>1
    <2>3. Logs'
      BY <1>a, <2>1, <2>2, LogsKept
    <2>4. \A r \in Slots : SlotKnows(r)'
      BY <2>1, <2>2, SlotKept
    <2>5. Routes'
      <3>1. ASSUME NEW t \in Tenants, phone'[t] # None
            PROVE  <<t, phone'[t]>> \in owned'
        <4>1. phone'[t] \in Phones
          BY <3>1 DEF TypeOK, TenantsTypeOK
        <4> QED
          BY <2>1, <4>1
      <3> QED
        BY <1>a, <2>1, <2>2, <3>1 DEF Routes
    <2> QED
      BY <2>3, <2>4, <2>5
  <1>16. CASE UNCHANGED vars
    BY <1>d, <1>e, <1>f, <1>16 DEF vars, tenants, numbers, reader, history
  <1> QED
    BY <1>1, <1>2, <1>3, <1>4, <1>5, <1>6, <1>7, <1>8, <1>9, <1>10, <1>11, <1>12,
       <1>13, <1>14, <1>15, <1>16 DEF Next, Process

LEMMA Start == Init => IInv
  <1> SUFFICES ASSUME Init PROVE IInv
    OBVIOUS
  <1> USE GatewayAssumption, TenantsAssumption DEF Init, TenantsInit
  <1>1. TypeOK
    BY DEF TypeOK, TenantsTypeOK
  <1>2. Routes
    BY DEF Routes
  <1>3. \A s \in Slots : SlotKnows(s)
    BY DEF SlotKnows, Free
  <1>4. Logs
    BY DEF Logs, LogKnows
  <1> QED
    BY <1>1, <1>2, <1>3, <1>4 DEF IInv

LEMMA Inductive == Spec => []IInv
  <1>1. IInv /\ [Next]_vars => IInv'
    BY TypeStep, KnowsStep DEF IInv
  <1> QED
    BY Start, <1>1, PTL DEF Spec

-----------------------------------------------------------------------------
(* The gateway is a message channel *)

\* A number that is connected is one pair more that has been owned.
LEMMA TenantStepOwns ==
    ASSUME IInv, TenantStep
    PROVE  UNCHANGED owned \/ \E t \in Tenants, n \in Phones : owned' = owned \cup {<<t, n>>}
  <1> DEFINE pairs == {tp \in Tenants \X Phones : phone'[tp[1]] = tp[2]}
  <1>1. owned' = owned \cup pairs
    BY DEF TenantStep
  <1>2. ASSUME NEW t \in Tenants, NEW n \in Phones, phone[t] = n
        PROVE  <<t, n>> \in owned
    BY <1>2, TenantsAssumption DEF IInv, Routes
  <1>3. CASE UNCHANGED phone
    <2>1. pairs \subseteq owned
      BY <1>2, <1>3
    <2> QED
      BY <1>1, <2>1
  <1>4. ASSUME NEW t \in Tenants, NEW n \in Phones, Connect(t, n)
        PROVE  owned' = owned \cup {<<t, n>>}
    <2>1. phone' = [phone EXCEPT ![t] = n] /\ phone \in [Tenants -> Phones \cup {None}]
      BY <1>4 DEF Connect, IInv, TypeOK, TenantsTypeOK
    <2>2. pairs \subseteq owned \cup {<<t, n>>}
      BY <1>2, <2>1
    <2>3. <<t, n>> \in pairs
      BY <2>1
    <2> QED
      BY <1>1, <2>2, <2>3
  <1>5. (\E t \in Tenants : Register(t)) => UNCHANGED phone
    BY DEF Register, RegisterFind, TenantInsert, UserInsert, RegisterRaises, numbers
  <1> QED
    BY <1>3, <1>4, <1>5 DEF TenantStep, TenantsNext

LEMMA AddFiles ==
    ASSUME IInv, NEW s \in Slots, slot[s].at = "publish", Add(s), UNCHANGED <<accepted, owned>>
    PROVE  Channel!Next
  <1>1. TypeOK /\ slot[s] # Free /\ SlotKnows(s)
    BY FreeSlot DEF IInv
  <1>2. slot[s].hook \in Hooks
    BY <1>1, SlotTyped
  <1>3. PICK t \in Tenants : slot[s].tenant = t
    BY <1>1 DEF SlotKnows, TypeOK
  <1>4. PICK i \in DOMAIN Batch[slot[s].hook] : slot[s].index = i
    BY <1>1 DEF SlotKnows
  <1>5. PICK n \in Phones : Here(s).phone = n
    BY <1>1, <1>4, HereTyped DEF SlotKnows, IsMessage
  <1>6. PICK w \in Hooks : slot[s].hook = w
    BY <1>2
  <1>7. Channel!File(t, n, w, i)
    <2>1. accepted[w] > 0 /\ <<t, n>> \in owned
      BY <1>1, <1>3, <1>5, <1>6 DEF SlotKnows
    <2>2. Channel!IsMessageFor(w, i, n)
      BY <1>1, <1>4, <1>5, <1>6 DEF Channel!IsMessageFor, SlotKnows, Here, IsMessage
    <2>3. log' = [log EXCEPT ![t] = Append(@, [hook |-> w, index |-> i])]
      BY <1>3, <1>4, <1>6 DEF Add, Entry
    <2>4. \/ UNCHANGED read
          \/ \E k \in (read[t] + 1)..(Len(log[t]) + 1 - MaxLen) : read' = [read EXCEPT ![t] = k]
      BY <1>3 DEF Add, Trim
    <2> QED
      BY <2>1, <2>2, <2>3, <2>4 DEF Channel!File
  <1> QED
    BY <1>4, <1>6, <1>7 DEF Channel!Next

LEMMA StepOfChannel ==
    ASSUME IInv, [Next]_vars
    PROVE  [Channel!Next]_(Channel!channel)
  <1>a. TypeOK
    BY DEF IInv
  <1>1. ASSUME NEW s \in Slots, Answer(s)
        PROVE  Channel!Next
    <2>1. slot[s].hook \in Hooks
      BY <1>a, <1>1, FreeSlot, SlotTyped DEF Answer
    <2>2. Channel!Accept(slot[s].hook)
      BY <1>1 DEF Answer, Channel!Accept, history, reader
    <2> QED
      BY <2>1, <2>2 DEF Channel!Next
  <1>2. ASSUME NEW s \in Slots, Publish(s) \/ Resend(s)
        PROVE  Channel!Next
    BY <1>2, AddFiles DEF Publish, Resend
  <1>3. ASSUME NEW t \in Tenants, Serve(t) \/ Drop(t)
        PROVE  Channel!Next
    <2>1. read[t] < Len(log[t])
      <3>1. read[t] \in Nat /\ Len(log[t]) \in Nat
        BY <1>a DEF TypeOK
      <3>2. Len(log[t]) - read[t] > 0
        BY <1>3 DEF Serve, Drop, Unread
      <3> QED
        BY <3>1, <3>2
    <2>2. Channel!Take(t)
      BY <1>3, <2>1 DEF Serve, Drop, Channel!Take, history
    <2> QED
      BY <2>2 DEF Channel!Next
  <1>4. ASSUME TenantStep
        PROVE  [Channel!Next]_(Channel!channel)
    <2>1. UNCHANGED <<accepted, log, read>>
      BY <1>4 DEF TenantStep, reader
    <2>2. CASE UNCHANGED owned
      BY <2>1, <2>2 DEF Channel!channel
    <2>3. ASSUME NEW t \in Tenants, NEW n \in Phones, owned' = owned \cup {<<t, n>>}
          PROVE  Channel!Next
      BY <2>1, <2>3 DEF Channel!Own, Channel!Next
    <2> QED
      BY <1>4, <2>2, <2>3, TenantStepOwns
  <1>5. ASSUME \/ \E s \in Slots, w \in Hooks : Arrive(s, w)
               \/ \E s \in Slots : \/ Forbid(s) \/ IgnoreValue(s) \/ LookUp(s) \/ SelectTenant(s)
                                   \/ TenantNotFound(s) \/ FillCache(s) \/ Finish(s)
                                   \/ ProcessRaises(s)
               \/ Crash
               \/ \E n \in Phones : CacheExpires(n)
               \/ \E t \in Tenants, n \in Phones : TokenExpires(t, n)
               \/ UNCHANGED vars
        PROVE  UNCHANGED Channel!channel
    BY <1>5 DEF Arrive, Forbid, IgnoreValue, LookUp, SelectTenant, TenantNotFound, FillCache,
                Finish, ProcessRaises, Crash, CacheExpires, TokenExpires, vars, history, reader,
                Channel!channel
  <1> QED
    BY <1>1, <1>2, <1>3, <1>4, <1>5 DEF Next, Process

-----------------------------------------------------------------------------
(* Accounts *)

\* A registration that has inserted its tenant has the slug it asked for, and no
\* two rows share one; one that is done has its user too.
AccountsInv ==
    /\ \A t \in Tenants : reg[t].at = "free" => reg[t].slug # None
    /\ \A t \in Tenants : reg[t].at \in {"tenant", "done"} => slug[t] = reg[t].slug
    /\ \A t \in Tenants : reg[t].at \in {"tenant", "done"} => slug[t] # None
    /\ \A t \in Tenants : reg[t].at = "done" => t \in users
    /\ \A t, u \in Tenants : slug[t] # None /\ slug[t] = slug[u] => t = u

\* One registration has moved on; the others are where they were.
LEMMA RegisterMoves ==
    ASSUME TenantsTypeOK, NEW t \in Tenants, NEW at, NEW s, RegisterTo(t, at, s)
    PROVE  /\ reg'[t].at = at /\ reg'[t].slug = s
           /\ \A u \in Tenants \ {t} : reg'[u] = reg[u]
  BY DEF TenantsTypeOK, RegisterTo

LEMMA AccountsStep ==
    ASSUME TypeOK, AccountsInv, [Next]_vars
    PROVE  AccountsInv'
  <1>a. TenantsTypeOK
    BY DEF TypeOK
  <1>1. ASSUME NEW t \in Tenants, NEW s \in Wanted(t), RegisterFind(t, s)
        PROVE  AccountsInv'
    <2>1. s # None
      BY TenantsAssumption
    <2>2. PICK at \in {"free", "refused"} : RegisterTo(t, at, s)
      BY <1>1 DEF RegisterFind
    <2>3. UNCHANGED <<slug, users>>
      BY <1>1 DEF RegisterFind
    <2> QED
      BY <1>a, <2>1, <2>2, <2>3, RegisterMoves DEF AccountsInv
  <1>2. ASSUME NEW t \in Tenants, TenantInsert(t)
        PROVE  AccountsInv'
    <2>1. PICK s : s = reg[t].slug
      OBVIOUS
    <2>2. RegisterTo(t, "tenant", s) /\ slug' = [slug EXCEPT ![t] = s] /\ UNCHANGED users
      BY <1>2, <2>1 DEF TenantInsert
    <2>3. s # None /\ \A u \in Tenants : slug[u] # s
      BY <1>2, <2>1 DEF TenantInsert, AccountsInv, FindBySlug
    <2>4. slug'[t] = s /\ \A u \in Tenants \ {t} : slug'[u] = slug[u]
      BY <1>a, <2>2 DEF TenantsTypeOK
    <2>5. \A u, v \in Tenants : slug'[u] # None /\ slug'[u] = slug'[v] => u = v
      BY <2>3, <2>4 DEF AccountsInv
    <2> QED
      BY <1>a, <2>2, <2>3, <2>4, <2>5, RegisterMoves DEF AccountsInv
  <1>3. ASSUME NEW t \in Tenants, UserInsert(t)
        PROVE  AccountsInv'
    <2>1. PICK s : s = reg[t].slug
      OBVIOUS
    <2>2. /\ RegisterTo(t, "done", s) /\ UNCHANGED slug /\ users' = users \cup {t}
          /\ slug[t] = s /\ s # None
      BY <1>3, <2>1 DEF UserInsert, AccountsInv
    <2> QED
      BY <1>a, <2>2, RegisterMoves DEF AccountsInv
  <1>4. ASSUME NEW t \in Tenants, RegisterRaises(t)
        PROVE  AccountsInv'
    <2>1. PICK s : s = reg[t].slug
      OBVIOUS
    <2>2. RegisterTo(t, "failed", s) /\ UNCHANGED <<slug, users>>
      BY <1>4, <2>1 DEF RegisterRaises
    <2> QED
      BY <1>a, <2>2, RegisterMoves DEF AccountsInv
  <1>5. ASSUME UNCHANGED accounts
        PROVE  AccountsInv'
    BY <1>5 DEF AccountsInv, accounts
  <1>6. TenantStep => AccountsInv'
    BY <1>1, <1>2, <1>3, <1>4, <1>5 DEF TenantStep, TenantsNext, Register, Connect
  <1>7. ~TenantStep => UNCHANGED accounts
    BY DEF Next, Process, Arrive, Forbid, Answer, IgnoreValue, LookUp, SelectTenant,
           TenantNotFound, FillCache, Publish, Finish, ProcessRaises, Resend, Crash,
           CacheExpires, Serve, Drop, TokenExpires, vars, tenants
  <1> QED
    BY <1>5, <1>6, <1>7

-----------------------------------------------------------------------------
(* Batches *)

Settled(e) == Published(e) \/ e \in unknown

\* What a delivery has passed in its batch.
Passed(s) ==
    slot[s].at # "free" =>
        \A i \in 1..(slot[s].index - 1) :
            LET e == [hook |-> slot[s].hook, index |-> i]
            IN  i \in DOMAIN Batch[slot[s].hook] /\ IsMessage(Batch[slot[s].hook][i]) => Settled(e)

BatchInv == (\A s \in Slots : Passed(s)) /\ FinishedBatchIsComplete

\* What is settled stays so, and what has been added is settled.
LEMMA SettledKept ==
    ASSUME TypeOK, unknown \subseteq unknown',
           \/ UNCHANGED log
           \/ \E s \in Slots : slot[s].tenant \in Tenants /\ slot[s] # Free /\ Add(s)
    PROVE  \A e : Settled(e) => Settled(e)'
  <1>1. CASE UNCHANGED log
    BY <1>1 DEF Settled, Published
  <1>2. ASSUME NEW s \in Slots, slot[s].tenant \in Tenants, slot[s] # Free, Add(s), NEW e,
               NEW t \in Tenants, NEW i \in DOMAIN log[t], log[t][i] = e
        PROVE  i \in DOMAIN log'[t] /\ log'[t][i] = e
    <2>1. PICK u \in Tenants : slot[s].tenant = u
      BY <1>2
    <2>2. PICK x \in EntryType : x = Entry(s)
      BY <1>2, SlotTyped
    <2>3. log' = [log EXCEPT ![u] = Append(log[u], x)]
      BY <1>2, <2>1, <2>2 DEF Add
    <2>4. log \in [Tenants -> Seq(EntryType)] /\ log[t] \in Seq(EntryType)
      BY DEF TypeOK
    <2> QED
      BY <1>2, <2>3, <2>4
  <1> QED
    BY <1>1, <1>2 DEF Settled, Published

LEMMA AddSettles ==
    ASSUME TypeOK, NEW s \in Slots, slot[s].tenant \in Tenants, slot[s] # Free, Add(s),
           NEW x \in EntryType, x = Entry(s)
    PROVE  Settled(x)'
  <1>1. PICK u \in Tenants : slot[s].tenant = u
    OBVIOUS
  <1>2. log' = [log EXCEPT ![u] = Append(log[u], x)] /\ log[u] \in Seq(EntryType)
    BY <1>1 DEF Add, TypeOK
  <1>3. Len(log[u]) + 1 \in DOMAIN log'[u] /\ log'[u][Len(log[u]) + 1] = x
    BY <1>2 DEF TypeOK
  <1> QED
    BY <1>3 DEF Settled, Published

\* A delivery that stays where it is, that begins, or that has been given up.
LEMMA PassedKept ==
    ASSUME TypeOK, BatchInv, NEW s \in Slots,
           slot'[s].at # "free" => slot[s].at # "free" /\ slot'[s].hook = slot[s].hook
                                   /\ slot'[s].index = slot[s].index,
           \A e : Settled(e) => Settled(e)'
    PROVE  Passed(s)'
  <1>1. ASSUME slot'[s].at # "free"
        PROVE  Passed(s)'
    <2>1. Passed(s) /\ slot[s].at # "free" /\ slot'[s].hook = slot[s].hook
          /\ slot'[s].index = slot[s].index
      BY <1>1 DEF BatchInv
    <2>2. PICK w, k : w = slot[s].hook /\ k = slot[s].index
      OBVIOUS
    <2>3. ASSUME NEW i \in 1..(k - 1), i \in DOMAIN Batch[w], IsMessage(Batch[w][i])
          PROVE  Settled([hook |-> w, index |-> i])'
      BY <2>1, <2>2, <2>3 DEF Passed
    <2> QED
      BY <2>1, <2>2, <2>3 DEF Passed
  <1> QED
    BY <1>1 DEF Passed

\* A delivery that goes on to the next value has settled the one it leaves.
LEMMA PassedNext ==
    ASSUME TypeOK, BatchInv, NEW s \in Slots, slot[s] # Free, NextValue(s),
           NEW e \in EntryType, e = Entry(s),
           e.index \in DOMAIN Batch[e.hook] /\ IsMessage(Batch[e.hook][e.index]) => Settled(e)',
           \A x : Settled(x) => Settled(x)'
    PROVE  \A r \in Slots : Passed(r)'
  <1>1. PICK w \in Hooks, k \in Nat \ {0} : w = slot[s].hook /\ k = slot[s].index
    BY SlotTyped
  <1>2. /\ slot'[s].hook = w /\ slot'[s].index = k + 1
        /\ \A r \in Slots \ {s} : slot'[r] = slot[r]
    <2>1. Put(s, w, "value", k + 1, None)
      BY <1>1 DEF NextValue
    <2>2. "value" \in Moves /\ k + 1 \in Nat \ {0} /\ None \in Tenants \cup {None}
      BY DEF Moves
    <2>3. /\ slot'[s] = [at |-> "value", hook |-> w, index |-> k + 1, tenant |-> None]
          /\ \A r \in Slots \ {s} : slot'[r] = slot[r]
      BY <2>1, <2>2, PutSlot
    <2> QED
      BY <2>3
  <1>3. e = [hook |-> w, index |-> k] /\ Passed(s) /\ slot[s].at # "free"
    BY <1>1, FreeSlot DEF BatchInv, Entry
  <1>4. ASSUME NEW i \in 1..k, i \in DOMAIN Batch[w], IsMessage(Batch[w][i])
        PROVE  Settled([hook |-> w, index |-> i])'
    <2>1. CASE i = k
      BY <1>3, <1>4, <2>1
    <2>2. CASE i # k
      <3>1. i \in 1..(k - 1)
        BY <2>2
      <3> QED
        BY <1>1, <1>3, <1>4, <3>1 DEF Passed
    <2> QED
      BY <2>1, <2>2
  <1>5. Passed(s)'
    <2>1. 1..(slot'[s].index - 1) = 1..k
      BY <1>2
    <2> QED
      BY <1>2, <1>4, <2>1 DEF Passed
  <1>6. ASSUME NEW r \in Slots \ {s}
        PROVE  Passed(r)'
    BY <1>2, PassedKept
  <1> QED
    BY <1>5, <1>6

LEMMA BatchStep ==
    ASSUME IInv, BatchInv, [Next]_vars
    PROVE  BatchInv'
  <1>a. TypeOK
    BY DEF IInv
  <1>b. \A e \in Values : e \in EntryType
    BY GatewayAssumption DEF Values, EntryType
  <1>c. ASSUME UNCHANGED finished, \A e : Settled(e) => Settled(e)'
        PROVE  FinishedBatchIsComplete'
    BY <1>c DEF BatchInv, FinishedBatchIsComplete, Settled
  <1>d. ASSUME UNCHANGED <<slot, finished>>, \A e : Settled(e) => Settled(e)'
        PROVE  BatchInv'
    BY <1>a, <1>c, <1>d, PassedKept DEF BatchInv
  <1>e. ASSUME NEW s \in Slots, slot[s].at = "publish"
        PROVE  slot[s] # Free /\ slot[s].tenant \in Tenants
    BY <1>a, <1>e, FreeSlot DEF IInv, SlotKnows, TypeOK
  <1>1. ASSUME NEW s \in Slots, NEW w \in Hooks, Arrive(s, w)
        PROVE  BatchInv'
    <2>1. UNCHANGED <<log, unknown, finished>> /\ Put(s, w, "arrived", 1, None)
      BY <1>1 DEF Arrive, history
    <2>2. \A e : Settled(e) => Settled(e)'
      BY <1>a, <2>1, SettledKept
    <2>3. slot'[s].index = 1 /\ \A r \in Slots \ {s} : slot'[r] = slot[r]
      <3>1. "arrived" \in Moves /\ 1 \in Nat \ {0} /\ None \in Tenants \cup {None}
        BY DEF Moves
      <3>2. /\ slot'[s] = [at |-> "arrived", hook |-> w, index |-> 1, tenant |-> None]
            /\ \A r \in Slots \ {s} : slot'[r] = slot[r]
        BY <1>a, <2>1, <3>1, PutSlot
      <3> QED
        BY <3>2
    <2>4. Passed(s)'
      BY <2>3 DEF Passed
    <2>5. \A r \in Slots \ {s} : Passed(r)'
      BY <1>a, <2>2, <2>3, PassedKept
    <2> QED
      BY <1>c, <2>1, <2>2, <2>4, <2>5 DEF BatchInv
  <1>2. ASSUME NEW s \in Slots, Answer(s) \/ LookUp(s) \/ SelectTenant(s) \/ FillCache(s)
        PROVE  BatchInv'
    <2>1. UNCHANGED <<log, unknown, finished>> /\ slot[s] # Free
      BY <1>a, <1>2, FreeSlot DEF Answer, LookUp, SelectTenant, FillCache, AtValue, history
    <2>2. PICK at, t : Found(s, at, t)
      BY <1>2 DEF Answer, LookUp, SelectTenant, FillCache, Move
    <2>3. /\ slot'[s].hook = slot[s].hook /\ slot'[s].index = slot[s].index
          /\ \A r \in Slots \ {s} : slot'[r] = slot[r]
      BY <1>a, <2>2 DEF Found, Put, TypeOK
    <2>4. \A e : Settled(e) => Settled(e)'
      BY <1>a, <2>1, SettledKept
    <2>5. \A r \in Slots : Passed(r)'
      BY <1>a, <2>1, <2>3, <2>4, FreeSlot, PassedKept
    <2> QED
      BY <1>c, <2>1, <2>4, <2>5 DEF BatchInv
  <1>3. ASSUME NEW s \in Slots, IgnoreValue(s)
        PROVE  BatchInv'
    <2>1. UNCHANGED <<log, unknown, finished>> /\ slot[s] # Free /\ NextValue(s)
      BY <1>a, <1>3, FreeSlot DEF IgnoreValue, AtValue, history
    <2>2. \A e : Settled(e) => Settled(e)'
      BY <1>a, <2>1, SettledKept
    <2>3. PICK e \in EntryType : e = Entry(s)
      BY <1>a, <2>1, SlotTyped
    <2>4. ~IsMessage(Batch[e.hook][e.index])
      BY <1>3, <2>3 DEF IgnoreValue, Here, Entry
    <2>5. \A r \in Slots : Passed(r)'
      BY <1>a, <2>1, <2>2, <2>3, <2>4, PassedNext
    <2> QED
      BY <1>c, <2>1, <2>2, <2>5 DEF BatchInv
  <1>4. ASSUME NEW s \in Slots, TenantNotFound(s)
        PROVE  BatchInv'
    <2>1. UNCHANGED <<log, finished>> /\ slot[s] # Free /\ NextValue(s)
      BY <1>a, <1>4, FreeSlot DEF TenantNotFound
    <2>2. PICK e \in EntryType : e = Entry(s)
      BY <1>a, <2>1, SlotTyped
    <2>3. unknown' = unknown \cup {e}
      BY <1>4, <2>2 DEF TenantNotFound
    <2>4. Settled(e)' /\ \A x : Settled(x) => Settled(x)'
      BY <1>a, <2>1, <2>3, SettledKept DEF Settled
    <2>5. \A r \in Slots : Passed(r)'
      BY <1>a, <2>1, <2>2, <2>4, PassedNext
    <2> QED
      BY <1>c, <2>1, <2>4, <2>5 DEF BatchInv
  <1>5. ASSUME NEW s \in Slots, Publish(s)
        PROVE  BatchInv'
    <2>1. UNCHANGED <<unknown, finished>> /\ NextValue(s) /\ Add(s) /\ slot[s].at = "publish"
      BY <1>5 DEF Publish
    <2>2. slot[s] # Free /\ slot[s].tenant \in Tenants
      BY <1>e, <2>1
    <2>3. PICK e \in EntryType : e = Entry(s)
      BY <1>a, <2>2, SlotTyped
    <2>4. Settled(e)' /\ \A x : Settled(x) => Settled(x)'
      BY <1>a, <2>1, <2>2, <2>3, AddSettles, SettledKept
    <2>5. \A r \in Slots : Passed(r)'
      BY <1>a, <2>1, <2>2, <2>3, <2>4, PassedNext
    <2> QED
      BY <1>c, <2>1, <2>4, <2>5 DEF BatchInv
  <1>6. ASSUME NEW s \in Slots, Resend(s)
        PROVE  BatchInv'
    <2>1. UNCHANGED <<slot, unknown, finished>> /\ Add(s) /\ slot[s].at = "publish"
      BY <1>6 DEF Resend
    <2>2. \A e : Settled(e) => Settled(e)'
      BY <1>a, <1>e, <2>1, SettledKept
    <2> QED
      BY <1>d, <2>1, <2>2
  <1>7. ASSUME NEW s \in Slots, Finish(s)
        PROVE  BatchInv'
    <2>1. /\ UNCHANGED <<log, unknown>> /\ slot[s] # Free /\ slot[s].at = "value"
          /\ ~AtValue(s) /\ slot' = [slot EXCEPT ![s] = Free]
      BY <1>a, <1>7, FreeSlot DEF Finish
    <2>2. \A e : Settled(e) => Settled(e)'
      BY <1>a, <2>1, SettledKept
    <2>3. PICK w \in Hooks, k \in Nat \ {0} : w = slot[s].hook /\ k = slot[s].index
      BY <1>a, <2>1, SlotTyped
    <2>4. finished' = finished \cup {w} /\ k > Len(Batch[w])
      <3>1. Batch[w] \in Seq(Value)
        BY GatewayAssumption
      <3> QED
        BY <1>7, <2>1, <2>3, <3>1 DEF Finish, AtValue
    <2>5. ASSUME NEW e \in Values, e.hook = w, IsMessage(Batch[e.hook][e.index])
          PROVE  Settled(e)
      <3>1. PICK i \in DOMAIN Batch[w] : e = [hook |-> w, index |-> i]
        BY <2>5 DEF Values
      <3>2. i \in 1..(k - 1)
        BY <2>3, <2>4, <3>1, GatewayAssumption
      <3> QED
        BY <2>1, <2>3, <2>5, <3>1, <3>2 DEF BatchInv, Passed
    <2>6. FinishedBatchIsComplete'
      BY <2>2, <2>4, <2>5 DEF BatchInv, FinishedBatchIsComplete, Settled
    <2>7. \A r \in Slots : slot'[r] = IF r = s THEN Free ELSE slot[r]
      BY <1>a, <2>1 DEF TypeOK
    <2>8. \A r \in Slots : Passed(r)'
      BY <1>a, <2>2, <2>7, PassedKept DEF Free
    <2> QED
      BY <2>6, <2>8 DEF BatchInv
  <1>8. ASSUME \/ \E s \in Slots : Forbid(s) \/ ProcessRaises(s)
               \/ Crash
        PROVE  BatchInv'
    <2>1. /\ UNCHANGED <<log, unknown, finished>>
          /\ \A r \in Slots : slot'[r] = Free \/ slot'[r] = slot[r]
      BY <1>a, <1>8 DEF Forbid, ProcessRaises, Crash, TypeOK, history
    <2>2. \A e : Settled(e) => Settled(e)'
      BY <1>a, <2>1, SettledKept
    <2>3. \A r \in Slots : Passed(r)'
      BY <1>a, <2>1, <2>2, PassedKept DEF Free
    <2> QED
      BY <1>c, <2>1, <2>2, <2>3 DEF BatchInv
  <1>9. ASSUME \/ \E n \in Phones : CacheExpires(n)
               \/ \E t \in Tenants : Serve(t) \/ Drop(t)
               \/ \E t \in Tenants, n \in Phones : TokenExpires(t, n)
               \/ TenantStep
               \/ UNCHANGED vars
        PROVE  BatchInv'
    <2>1. UNCHANGED <<slot, log, unknown, finished>>
      BY <1>9 DEF CacheExpires, Serve, Drop, TokenExpires, TenantStep, vars, history
    <2> QED
      BY <1>a, <1>d, <2>1, SettledKept
  <1> QED
    BY <1>1, <1>2, <1>3, <1>4, <1>5, <1>6, <1>7, <1>8, <1>9 DEF Next, Process

-----------------------------------------------------------------------------
(* Copies *)

\* The answered deliveries that may still publish the value e.
Ahead(e) == {s \in Slots : /\ slot[s].at \in {"value", "select", "fill", "publish"}
                           /\ slot[s].hook = e.hook /\ slot[s].index <= e.index}

\* Every copy that is there or may come is paid for by an answer or a mishap.
CopiesInv ==
    \A e \in Values :
        /\ IsFiniteSet(Copies(e)) /\ IsFiniteSet(Ahead(e))
        /\ Cardinality(Copies(e)) + Cardinality(Ahead(e)) <= accepted[e.hook] + faults

LEMMA ValueTyped ==
    ASSUME TypeOK, NEW e \in Values
    PROVE  e \in EntryType /\ e.hook \in Hooks /\ accepted[e.hook] \in Nat /\ faults \in Nat
  BY GatewayAssumption DEF Values, EntryType, TypeOK

LEMMA OneMore ==
    ASSUME NEW S, IsFiniteSet(S), NEW x
    PROVE  /\ IsFiniteSet(S \cup {x}) /\ Cardinality(S \cup {x}) \in Nat
           /\ Cardinality(S \cup {x}) <= Cardinality(S) + 1
  <1>1. Cardinality(S) \in Nat
    BY FS_CardinalityType
  <1>2. /\ IsFiniteSet(S \cup {x})
        /\ Cardinality(S \cup {x}) \in {Cardinality(S), Cardinality(S) + 1}
    BY FS_AddElement
  <1> QED
    BY <1>1, <1>2

\* No copy more, and nobody more who might add one.
LEMMA NoMore ==
    ASSUME TypeOK, TypeOK', CopiesInv, UNCHANGED <<log, accepted>>, faults <= faults',
           \A r \in Slots : \/ slot'[r] = slot[r] \/ slot'[r].at \in {"free", "arrived"}
                            \/ /\ slot[r].at \in {"value", "select", "fill", "publish"}
                               /\ slot'[r].hook = slot[r].hook /\ slot[r].index \in Nat
                               /\ slot'[r].index \in {slot[r].index, slot[r].index + 1}
    PROVE  CopiesInv'
  <1>1. ASSUME NEW e \in Values
        PROVE  /\ IsFiniteSet(Copies(e)') /\ IsFiniteSet(Ahead(e)')
               /\ Cardinality(Copies(e)') + Cardinality(Ahead(e)') <= accepted'[e.hook] + faults'
    <2>1. Copies(e)' = Copies(e)
      BY DEF Copies
    <2>2. e.index \in Nat
      BY ValueTyped DEF EntryType
    <2>3. Ahead(e)' \subseteq Ahead(e)
      BY <2>2 DEF Ahead
    <2>4. IsFiniteSet(Copies(e)) /\ IsFiniteSet(Ahead(e))
      BY DEF CopiesInv
    <2>5. /\ IsFiniteSet(Ahead(e)') /\ Cardinality(Ahead(e)') <= Cardinality(Ahead(e))
          /\ Cardinality(Ahead(e)') \in Nat /\ Cardinality(Ahead(e)) \in Nat
          /\ Cardinality(Copies(e)) \in Nat
      BY <2>3, <2>4, FS_Subset, FS_CardinalityType
    <2>6. faults \in Nat /\ faults' \in Nat /\ accepted[e.hook] \in Nat
      BY ValueTyped, GatewayAssumption DEF TypeOK
    <2> QED
      BY <2>1, <2>4, <2>5, <2>6 DEF CopiesInv
  <1> QED
    BY <1>1 DEF CopiesInv, Values

\* XADD adds a copy of one value.
LEMMA AddCopies ==
    ASSUME TypeOK, CopiesInv, NEW s \in Slots, slot[s] # Free, slot[s].tenant \in Tenants, Add(s),
           NEW x \in EntryType, x = Entry(s), NEW e \in Values
    PROVE  /\ IsFiniteSet(Copies(e)') /\ Cardinality(Copies(e)') \in Nat
           /\ Cardinality(Copies(e)') <= Cardinality(Copies(e)) + 1
           /\ e # x => Copies(e)' = Copies(e)
  <1>1. PICK u \in Tenants : slot[s].tenant = u
    OBVIOUS
  <1>2. log' = [log EXCEPT ![u] = Append(log[u], x)] /\ log \in [Tenants -> Seq(EntryType)]
    BY <1>1 DEF Add, TypeOK
  <1>3. PICK n \in Nat : n = Len(log[u]) + 1
    BY <1>2
  <1>4. \A t \in Tenants : \A i : i \in DOMAIN log'[t] =>
            \/ i \in DOMAIN log[t] /\ log'[t][i] = log[t][i]
            \/ t = u /\ i = n /\ log'[t][i] = x
    BY <1>2, <1>3
  <1>5. \A t \in Tenants : \A i : i \in DOMAIN log[t] =>
            i \in DOMAIN log'[t] /\ log'[t][i] = log[t][i]
    BY <1>2, <1>3
  <1>6. \A c : c \in Copies(e) <=>
            \E t \in Tenants : \E i \in DOMAIN log[t] : c = <<t, i>> /\ log[t][i] = e
    BY DEF Copies
  <1>7. \A c : c \in Copies(e)' <=>
            \E t \in Tenants : \E i \in DOMAIN log'[t] : c = <<t, i>> /\ log'[t][i] = e
    BY DEF Copies
  <1>8. Copies(e)' \subseteq Copies(e) \cup {<<u, n>>}
    BY <1>4, <1>6, <1>7
  <1>9. ASSUME e # x
        PROVE  Copies(e)' = Copies(e)
    <2>1. Copies(e)' \subseteq Copies(e)
      BY <1>4, <1>6, <1>7, <1>9
    <2>2. Copies(e) \subseteq Copies(e)'
      BY <1>5, <1>6, <1>7
    <2> QED
      BY <2>1, <2>2
  <1>10. IsFiniteSet(Copies(e))
    BY DEF CopiesInv
  <1>11. /\ IsFiniteSet(Copies(e) \cup {<<u, n>>})
         /\ Cardinality(Copies(e) \cup {<<u, n>>}) <= Cardinality(Copies(e)) + 1
    BY <1>10, OneMore
  <1>12. /\ IsFiniteSet(Copies(e)')
         /\ Cardinality(Copies(e)') <= Cardinality(Copies(e) \cup {<<u, n>>})
    BY <1>8, <1>11, FS_Subset
  <1> QED
    BY <1>9, <1>10, <1>11, <1>12, FS_CardinalityType

LEMMA CopiesStep ==
    ASSUME IInv, TypeOK', CopiesInv, [Next]_vars
    PROVE  CopiesInv'
  <1>a. TypeOK
    BY DEF IInv
  <1>b. ASSUME NEW s \in Slots, slot[s].at = "publish"
        PROVE  slot[s] # Free /\ slot[s].tenant \in Tenants
    BY <1>a, <1>b, FreeSlot DEF IInv, SlotKnows, TypeOK
  <1>c. faults \in Nat
    BY <1>a DEF TypeOK
  <1>1. ASSUME NEW s \in Slots, Answer(s)
        PROVE  CopiesInv'
    <2>1. slot[s] # Free /\ slot[s].at = "arrived"
      BY <1>a, <1>1, FreeSlot DEF Answer
    <2>2. PICK w \in Hooks : w = slot[s].hook
      BY <1>a, <2>1, SlotTyped
    <2>3. /\ slot' = [slot EXCEPT ![s] = [at |-> "value", hook |-> w, index |-> slot[s].index,
                                          tenant |-> slot[s].tenant]]
          /\ accepted' = [accepted EXCEPT ![w] = @ + 1] /\ UNCHANGED <<log, faults>>
      BY <1>1, <2>2 DEF Answer, Move, Found, Put
    <2>4. slot'[s].hook = w /\ \A r \in Slots \ {s} : slot'[r] = slot[r]
      BY <1>a, <2>3 DEF TypeOK
    <2>5. ASSUME NEW e \in Values
          PROVE  /\ IsFiniteSet(Copies(e)') /\ IsFiniteSet(Ahead(e)')
                 /\ Cardinality(Copies(e)') + Cardinality(Ahead(e)')
                       <= accepted'[e.hook] + faults'
      <3>1. Copies(e)' = Copies(e)
        BY <2>3 DEF Copies
      <3>2. /\ IsFiniteSet(Copies(e)) /\ IsFiniteSet(Ahead(e))
            /\ Cardinality(Copies(e)) + Cardinality(Ahead(e)) <= accepted[e.hook] + faults
        BY DEF CopiesInv
      <3>3. /\ Cardinality(Copies(e)) \in Nat /\ Cardinality(Ahead(e)) \in Nat
            /\ IsFiniteSet(Ahead(e) \cup {s})
            /\ Cardinality(Ahead(e) \cup {s}) <= Cardinality(Ahead(e)) + 1
        BY <3>2, OneMore, FS_CardinalityType
      <3>4. accepted \in [Hooks -> 0..MaxTries] /\ e.hook \in Hooks /\ accepted[e.hook] \in Nat
        BY <1>a, ValueTyped DEF TypeOK
      <3>5. CASE e.hook = w
        <4>1. Ahead(e)' \subseteq Ahead(e) \cup {s}
          BY <2>4 DEF Ahead
        <4>2. /\ IsFiniteSet(Ahead(e)') /\ Cardinality(Ahead(e)') \in Nat
              /\ Cardinality(Ahead(e)') <= Cardinality(Ahead(e) \cup {s})
          BY <3>3, <4>1, FS_Subset, FS_CardinalityType
        <4>3. accepted'[e.hook] = accepted[e.hook] + 1
          BY <2>3, <3>4, <3>5
        <4>4. Cardinality(Ahead(e) \cup {s}) \in Nat
          BY <3>3, FS_CardinalityType
        <4> QED
          BY <1>c, <2>3, <3>1, <3>2, <3>3, <3>4, <4>2, <4>3, <4>4
      <3>6. CASE e.hook # w
        <4>1. Ahead(e)' \subseteq Ahead(e)
          BY <2>4, <3>6 DEF Ahead
        <4>2. /\ IsFiniteSet(Ahead(e)') /\ Cardinality(Ahead(e)') \in Nat
              /\ Cardinality(Ahead(e)') <= Cardinality(Ahead(e))
          BY <3>2, <4>1, FS_Subset, FS_CardinalityType
        <4>3. accepted'[e.hook] = accepted[e.hook]
          BY <2>3, <3>4, <3>6
        <4> QED
          BY <1>c, <2>3, <3>1, <3>2, <3>3, <3>4, <4>2, <4>3
      <3> QED
        BY <3>5, <3>6
    <2> QED
      BY <2>5 DEF CopiesInv, Values
  <1>2. ASSUME NEW s \in Slots, Publish(s)
        PROVE  CopiesInv'
    <2>1. /\ slot[s].at = "publish" /\ Add(s) /\ NextValue(s) /\ UNCHANGED <<accepted, faults>>
          /\ slot[s] # Free /\ slot[s].tenant \in Tenants
      BY <1>2, <1>b DEF Publish
    <2>2. PICK w \in Hooks, k \in Nat \ {0} : w = slot[s].hook /\ k = slot[s].index
      BY <1>a, <2>1, SlotTyped
    <2>3. PICK x \in EntryType : x = Entry(s) /\ x.hook = w /\ x.index = k
      BY <1>a, <2>1, <2>2, SlotTyped DEF Entry
    <2>4. slot' = [slot EXCEPT ![s] = [at |-> "value", hook |-> w, index |-> k + 1,
                                       tenant |-> None]]
      BY <2>1, <2>2 DEF NextValue, Put
    <2>5. /\ slot'[s].hook = w /\ slot'[s].index = k + 1
          /\ \A r \in Slots \ {s} : slot'[r] = slot[r]
      BY <1>a, <2>4 DEF TypeOK
    <2>6. ASSUME NEW e \in Values
          PROVE  /\ IsFiniteSet(Copies(e)') /\ IsFiniteSet(Ahead(e)')
                 /\ Cardinality(Copies(e)') + Cardinality(Ahead(e)')
                       <= accepted'[e.hook] + faults'
      <3>1. e \in EntryType /\ e.index \in Nat /\ accepted[e.hook] \in Nat
        BY <1>a, ValueTyped DEF EntryType
      <3>2. /\ IsFiniteSet(Copies(e)) /\ IsFiniteSet(Ahead(e))
            /\ Cardinality(Copies(e)) + Cardinality(Ahead(e)) <= accepted[e.hook] + faults
            /\ Cardinality(Copies(e)) \in Nat /\ Cardinality(Ahead(e)) \in Nat
        BY FS_CardinalityType DEF CopiesInv
      <3>3. Ahead(e)' \subseteq Ahead(e)
        BY <2>1, <2>2, <2>5, <3>1 DEF Ahead
      <3>4. /\ IsFiniteSet(Ahead(e)') /\ Cardinality(Ahead(e)') \in Nat
            /\ Cardinality(Ahead(e)') <= Cardinality(Ahead(e))
        BY <3>2, <3>3, FS_Subset, FS_CardinalityType
      <3>5. /\ IsFiniteSet(Copies(e)') /\ Cardinality(Copies(e)') \in Nat
            /\ Cardinality(Copies(e)') <= Cardinality(Copies(e)) + 1
            /\ e # x => Copies(e)' = Copies(e)
        BY <1>a, <2>1, <2>3, AddCopies
      <3>6. CASE e = x
        <4>1. s \in Ahead(e)
          BY <2>1, <2>2, <2>3, <3>6 DEF Ahead
        <4>2. Ahead(e)' \subseteq Ahead(e) \ {s}
          BY <2>2, <2>3, <2>5, <3>3, <3>6 DEF Ahead
        <4>3. /\ IsFiniteSet(Ahead(e) \ {s})
              /\ Cardinality(Ahead(e) \ {s}) = Cardinality(Ahead(e)) - 1
          BY <3>2, <4>1, FS_RemoveElement
        <4>4. Cardinality(Ahead(e)') <= Cardinality(Ahead(e)) - 1
          BY <4>2, <4>3, FS_Subset
        <4> QED
          BY <1>c, <2>1, <3>1, <3>2, <3>4, <3>5, <4>4
      <3>7. CASE e # x
        BY <1>c, <2>1, <3>1, <3>2, <3>4, <3>5, <3>7
      <3> QED
        BY <3>6, <3>7
    <2> QED
      BY <2>6 DEF CopiesInv, Values
  <1>3. ASSUME NEW s \in Slots, Resend(s)
        PROVE  CopiesInv'
    <2>1. /\ slot[s].at = "publish" /\ Add(s) /\ UNCHANGED <<slot, accepted>>
          /\ faults' = faults + 1 /\ slot[s] # Free /\ slot[s].tenant \in Tenants
      BY <1>3, <1>b DEF Resend, Mishap
    <2>2. PICK x \in EntryType : x = Entry(s)
      BY <1>a, <2>1, SlotTyped
    <2>3. ASSUME NEW e \in Values
          PROVE  /\ IsFiniteSet(Copies(e)') /\ IsFiniteSet(Ahead(e)')
                 /\ Cardinality(Copies(e)') + Cardinality(Ahead(e)')
                       <= accepted'[e.hook] + faults'
      <3>1. accepted[e.hook] \in Nat
        BY <1>a, ValueTyped
      <3>2. /\ IsFiniteSet(Copies(e)) /\ IsFiniteSet(Ahead(e))
            /\ Cardinality(Copies(e)) + Cardinality(Ahead(e)) <= accepted[e.hook] + faults
            /\ Cardinality(Copies(e)) \in Nat /\ Cardinality(Ahead(e)) \in Nat
        BY FS_CardinalityType DEF CopiesInv
      <3>3. Ahead(e)' = Ahead(e)
        BY <2>1 DEF Ahead
      <3>4. /\ IsFiniteSet(Copies(e)') /\ Cardinality(Copies(e)') \in Nat
            /\ Cardinality(Copies(e)') <= Cardinality(Copies(e)) + 1
        BY <1>a, <2>1, <2>2, AddCopies
      <3> QED
        BY <1>c, <2>1, <3>1, <3>2, <3>3, <3>4
    <2> QED
      BY <2>3 DEF CopiesInv, Values
  <1>4. ASSUME NEW s \in Slots, \/ IgnoreValue(s) \/ LookUp(s) \/ SelectTenant(s)
                                \/ TenantNotFound(s) \/ FillCache(s)
        PROVE  CopiesInv'
    <2>1. /\ slot[s].at \in {"value", "select", "fill", "publish"}
          /\ UNCHANGED <<log, accepted, faults>>
      BY <1>4 DEF IgnoreValue, LookUp, SelectTenant, TenantNotFound, FillCache, AtValue
    <2>2. slot[s].index \in Nat
      BY <1>a, <2>1, FreeSlot, SlotTyped
    <2>3. \E at, i, t : i \in {slot[s].index, slot[s].index + 1} /\ Put(s, slot[s].hook, at, i, t)
      BY <1>4 DEF IgnoreValue, LookUp, SelectTenant, TenantNotFound, FillCache, NextValue,
                  Found, Move
    <2>4. /\ slot'[s].hook = slot[s].hook
          /\ slot'[s].index \in {slot[s].index, slot[s].index + 1}
          /\ \A r \in Slots \ {s} : slot'[r] = slot[r]
      BY <1>a, <2>3 DEF Put, TypeOK
    <2>5. faults <= faults'
      BY <1>c, <2>1
    <2> QED
      BY <1>a, <2>1, <2>2, <2>4, <2>5, NoMore
  <1>5. ASSUME \/ \E s \in Slots, w \in Hooks : Arrive(s, w)
               \/ \E s \in Slots : Forbid(s) \/ Finish(s) \/ ProcessRaises(s)
               \/ Crash
        PROVE  CopiesInv'
    <2>1. UNCHANGED <<log, accepted>> /\ faults <= faults'
      BY <1>5, <1>c DEF Arrive, Forbid, Finish, ProcessRaises, Crash, Mishap
    <2>2. \A r \in Slots : slot'[r] = slot[r] \/ slot'[r].at \in {"free", "arrived"}
      BY <1>a, <1>5 DEF Arrive, Put, Forbid, Finish, ProcessRaises, Crash, Free, TypeOK
    <2> QED
      BY <1>a, <2>1, <2>2, NoMore
  <1>6. ASSUME \/ \E n \in Phones : CacheExpires(n)
               \/ \E t \in Tenants : Serve(t) \/ Drop(t)
               \/ \E t \in Tenants, n \in Phones : TokenExpires(t, n)
               \/ TenantStep
               \/ UNCHANGED vars
        PROVE  CopiesInv'
    <2>1. UNCHANGED <<slot, log, accepted, faults>>
      BY <1>6 DEF CacheExpires, Serve, Drop, TokenExpires, TenantStep, vars
    <2>2. faults <= faults'
      BY <1>c, <2>1
    <2> QED
      BY <1>a, <2>1, <2>2, NoMore
  <1> QED
    BY <1>1, <1>2, <1>3, <1>4, <1>5, <1>6 DEF Next, Process

-----------------------------------------------------------------------------
(* The theorems *)

\* The variables of the gateway, its caches, the logs and the accounts keep their
\* types: in particular whatever a delivery takes from the table or the cache as
\* the tenant of a message is a tenant (TypeOK).
THEOREM TypeCorrect == Spec => []TypeOK
  BY Inductive, PTL DEF IInv

\* RedisTenantCache, PostgresTenantCredentialsRepo: however lookups, expiring keys
\* and numbers that change hands interleave, a message is filed under, and answered
\* by, only a tenant that has had its number (OnlyOwners).
THEOREM OwnersOnly == Spec => []OnlyOwners
  <1>1. IInv => OnlyOwners
    BY DEF IInv, Routes, Logs, LogKnows, OnlyOwners
  <1> QED
    BY Inductive, <1>1, PTL

\* RegisterUseCase, LoginUseCase: for any number of registrations that look up the
\* same slug before any of them inserts it, whoever is answered 201 can log in with
\* the slug of its name, and nobody else can with it (RegisteredCanLogin).
THEOREM LoginWorks == Spec => []RegisteredCanLogin
  <1>1. Init => AccountsInv
    BY DEF Init, TenantsInit, AccountsInv
  <1>2. IInv /\ AccountsInv /\ [Next]_vars => AccountsInv'
    BY AccountsStep DEF IInv
  <1>3. AccountsInv => RegisteredCanLogin
    BY DEF AccountsInv, RegisteredCanLogin, CanLogin, FindBySlug
  <1> QED
    BY Inductive, <1>1, <1>2, <1>3, PTL DEF Spec

\* ProcessWebhookUseCase.execute: a batch of any length and mixture that is processed
\* to its end has left out no message of a known number (FinishedBatchIsComplete).
THEOREM BatchesComplete == Spec => []FinishedBatchIsComplete
  <1>1. Init => BatchInv
    BY DEF Init, BatchInv, Passed, Free, FinishedBatchIsComplete
  <1>2. IInv /\ BatchInv /\ [Next]_vars => BatchInv'
    BY BatchStep
  <1>3. BatchInv => FinishedBatchIsComplete
    BY DEF BatchInv
  <1> QED
    BY Inductive, <1>1, <1>2, <1>3, PTL DEF Spec

\* RedisMessageQueue.publish: for any number of deliveries that overlap, of a message
\* there are no more copies than answered deliveries of its notification and mishaps
\* (NoExtraCopies).
THEOREM FewCopies == Spec => []NoExtraCopies
  <1>1. Init => CopiesInv
    <2> SUFFICES ASSUME Init, NEW e \in Values
                 PROVE  /\ IsFiniteSet(Copies(e)) /\ IsFiniteSet(Ahead(e))
                        /\ Cardinality(Copies(e)) + Cardinality(Ahead(e))
                              <= accepted[e.hook] + faults
      BY DEF CopiesInv
    <2>1. Copies(e) = {} /\ Ahead(e) = {}
      BY DEF Init, Copies, Ahead, Free
    <2>2. accepted[e.hook] = 0 /\ faults = 0
      BY DEF Init, Values
    <2> QED
      BY <2>1, <2>2, FS_EmptySet
  <1>2. IInv /\ CopiesInv /\ [Next]_vars => CopiesInv'
    BY TypeStep, CopiesStep
  <1>3. IInv /\ CopiesInv => NoExtraCopies
    <2> SUFFICES ASSUME IInv, CopiesInv, NEW e \in Values
                 PROVE  Cardinality(Copies(e)) <= accepted[e.hook] + faults
      BY DEF NoExtraCopies
    <2>1. accepted[e.hook] \in Nat /\ faults \in Nat
      BY ValueTyped DEF IInv
    <2> QED
      BY <2>1, FS_CardinalityType DEF CopiesInv
  <1> QED
    BY Inductive, <1>1, <1>2, <1>3, PTL DEF Spec

\* webhookRoutes, ProcessWebhookUseCase, RedisMessageQueue: every step of the gateway
\* is a step of the message channel or one that the channel does not see, so that
\* caches, overlapping deliveries, failures and moving numbers cost the engine
\* nothing that a plain log would not (ImplementsChannel).
THEOREM Refinement == Spec => ImplementsChannel
  <1>1. Init => Channel!Init
    BY DEF Init, Channel!Init
  <1>2. IInv /\ [Next]_vars => [Channel!Next]_(Channel!channel)
    BY StepOfChannel
  <1> QED
    BY Inductive, <1>1, <1>2, PTL DEF Spec, ImplementsChannel, Channel!Spec

=============================================================================
