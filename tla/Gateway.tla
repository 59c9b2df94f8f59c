------------------------------- MODULE Gateway -------------------------------
(***************************************************************************)
(* The way of a WhatsApp notification from Meta into the stream of a        *)
(* tenant: the webhook of the gateway, which answers first and works        *)
(* afterwards, its cache of phone numbers in Redis, the XADD, and at the    *)
(* other end the credentials lookup with which the engine takes an entry    *)
(* off the stream.  Tenants connect and change numbers all the while.       *)
(*                                                                          *)
(* A notification (hook) carries a batch of values; a value is a message    *)
(* for a number or something else.  Deliveries of notifications are         *)
(* processed at the same time, each of them interleaving with everything    *)
(* else at every call to Redis or Postgres.                                 *)
(***************************************************************************)
EXTENDS Tenants, Sequences

CONSTANTS
    Hooks,      \* notifications of Meta
    Batch,      \* the values of each, as a sequence
    Slots,      \* deliveries the gateway works on at a time
    MaxLen,     \* STREAM_MAXLEN_APPROX
    MaxTries,   \* bound: answered deliveries of a notification
    MaxFaults   \* bound: failing calls, crashes and resent commands

Value == [kind : {"message", "status"}, phone : Phones \cup {None}]

ASSUME GatewayAssumption ==
    /\ Batch \in [Hooks -> Seq(Value)]
    /\ MaxLen \in Nat \ {0} /\ MaxTries \in Nat /\ MaxFaults \in Nat

VARIABLES
    slot,       \* what the gateway works on
    cache,      \* tenant:by_phone: keys of Redis
    log,        \* the stream flow-engine:{tenant}, all that was ever added
    read,       \* how many of them the engine has taken or can no longer take
    tokens,     \* the credentials cache of the engine: pairs of tenant and number
    faults,     \* how many mishaps there were
    accepted,   \* how many deliveries of each notification were answered 200
    finished,   \* history: notifications with a delivery processed to its end
    unknown,    \* history: values whose number no tenant had when it was looked up
    owned       \* history: pairs of a tenant and a number it has had

reader  == <<read, tokens>>
history == <<finished, unknown, owned>>
vars    == <<tenants, accepted, slot, cache, log, reader, faults, history>>

Free == [at |-> "free"]
Delivery == [at : {"arrived", "value", "select", "fill", "publish"},
             hook : Hooks, index : Nat \ {0}, tenant : Tenants \cup {None}]

\* Delivery s goes on, at a value of its batch and with a tenant found for it.
Put(s, w, at, index, tenant) ==
    slot' = [slot EXCEPT ![s] = [at |-> at, hook |-> w, index |-> index, tenant |-> tenant]]
Found(s, at, tenant) == Put(s, slot[s].hook, at, slot[s].index, tenant)
Move(s, at)          == Found(s, at, slot[s].tenant)
NextValue(s)         == Put(s, slot[s].hook, "value", slot[s].index + 1, None)

\* The value that delivery s has come to.
Here(s)      == Batch[slot[s].hook][slot[s].index]
AtValue(s)   == slot[s].at = "value" /\ slot[s].index <= Len(Batch[slot[s].hook])
IsMessage(v) == v.kind = "message" /\ v.phone # None
Entry(s)     == [hook |-> slot[s].hook, index |-> slot[s].index]
Unread(t)    == Len(log[t]) - read[t]

Init ==
    /\ TenantsInit
    /\ slot = [s \in Slots |-> Free]
    /\ cache = [p \in Phones |-> None]
    /\ log = [t \in Tenants |-> <<>>]
    /\ read = [t \in Tenants |-> 0]
    /\ tokens = {}
    /\ faults = 0
    /\ accepted = [w \in Hooks |-> 0]
    /\ finished = {}
    /\ unknown = {}
    /\ owned = {}
-----------------------------------------------------------------------------
(* The webhook                                                              *)

\* Meta sends, and sends again as long as no 200 has reached it.
Arrive(s, w) ==
    /\ slot[s] = Free
    /\ Put(s, w, "arrived", 1, None)
    /\ UNCHANGED <<tenants, accepted, cache, log, reader, faults, history>>

\* The signature does not match the body that has arrived: 403.
Forbid(s) ==
    /\ slot[s].at = "arrived"
    /\ slot' = [slot EXCEPT ![s] = Free]
    /\ UNCHANGED <<tenants, accepted, cache, log, reader, faults, history>>

\* (mutant) the work begins before the answer
Answer_Late(s) ==
    /\ slot[s].at = "arrived"
    /\ Move(s, "value")
    /\ UNCHANGED <<tenants, accepted, cache, log, reader, faults, history>>

\* The answer 200, before the work begins.
Answer(s) ==
    /\ slot[s].at = "arrived"
    /\ Move(s, "value")
    /\ accepted[slot[s].hook] < MaxTries
    /\ accepted' = [accepted EXCEPT ![slot[s].hook] = @ + 1]
    /\ UNCHANGED <<tenants, cache, log, reader, faults, history>>
-----------------------------------------------------------------------------
(* ProcessWebhookUseCase.execute                                            *)

\* (mutant) the loop waits for the messages of a value that has none
IgnoreValue_Stays(s) ==
    /\ AtValue(s)
    /\ ~IsMessage(Here(s))
    /\ Move(s, "value")
    /\ UNCHANGED <<tenants, accepted, cache, log, reader, faults, history>>

\* (mutant) a value without messages ends the loop
IgnoreValue_Ends(s) ==
    /\ AtValue(s)
    /\ ~IsMessage(Here(s))
    /\ Put(s, slot[s].hook, "value", Len(Batch[slot[s].hook]) + 1, None)
    /\ UNCHANGED <<tenants, accepted, cache, log, reader, faults, history>>

\* No value, no messages, or no number.
IgnoreValue(s) ==
    /\ AtValue(s)
    /\ ~IsMessage(Here(s))
    /\ NextValue(s)
    /\ UNCHANGED <<tenants, accepted, cache, log, reader, faults, history>>

\* RedisTenantCache.getTenantId: GET.
LookUp(s) ==
    /\ AtValue(s)
    /\ IsMessage(Here(s))
    /\ LET t == cache[Here(s).phone] IN
        Found(s, IF t = None THEN "select" ELSE "publish", t)
    /\ UNCHANGED <<tenants, accepted, cache, log, reader, faults, history>>

\* (mutant) a number that nobody has goes to some tenant
SelectTenant_Any(s) ==
    /\ slot[s].at = "select"
    /\ \E t \in users : Found(s, "fill", t)
    /\ UNCHANGED <<tenants, accepted, cache, log, reader, faults, history>>

\* (mutant) the row found is not asked for its id
SelectTenant_Phone(s) ==
    /\ slot[s].at = "select"
    /\ Owners(Here(s).phone) # {}
    /\ Found(s, "fill", Here(s).phone)
    /\ UNCHANGED <<tenants, accepted, cache, log, reader, faults, history>>

SelectTenant(s) ==
    /\ slot[s].at = "select"
    /\ \E t \in Owners(Here(s).phone) : Found(s, "fill", t)
    /\ UNCHANGED <<tenants, accepted, cache, log, reader, faults, history>>

\* TenantNotFoundError: the loop goes on with the next value.
TenantNotFound(s) ==
    /\ slot[s].at = "select"
    /\ Owners(Here(s).phone) = {}
    /\ NextValue(s)
    /\ unknown' = unknown \cup {Entry(s)}
    /\ UNCHANGED <<tenants, accepted, cache, log, reader, faults,
                   finished, owned>>

\* SET with EX.
FillCache(s) ==
    /\ slot[s].at = "fill"
    /\ cache' = [cache EXCEPT ![Here(s).phone] = slot[s].tenant]
    /\ Move(s, "publish")
    /\ UNCHANGED <<tenants, accepted, log, reader, faults, history>>

\* (mutant) MAXLEN counts the new entry too
Trim_Early(t) ==
    \/ UNCHANGED read
    \/ \E k \in (read[t] + 1)..(Len(log[t]) + 2 - MaxLen) :
          read' = [read EXCEPT ![t] = k]

\* MAXLEN ~: with the new entry the stream may lose old ones, unread ones
\* included, but keeps at least the MaxLen newest.
Trim(t) ==
    \/ UNCHANGED read
    \/ \E k \in (read[t] + 1)..(Len(log[t]) + 1 - MaxLen) :
          read' = [read EXCEPT ![t] = k]

\* XADD.
Add(s) ==
    LET t == slot[s].tenant IN
    /\ log' = [log EXCEPT ![t] = Append(@, Entry(s))]
    /\ Trim(t)

\* (mutant) a message that is published may be published again
Publish_Again(s) ==
    /\ slot[s].at = "publish"
    /\ Add(s)
    /\ NextValue(s) \/ UNCHANGED slot
    /\ UNCHANGED <<tenants, accepted, cache, tokens, faults,
                   finished, unknown, owned>>

Publish(s) ==
    /\ slot[s].at = "publish"
    /\ Add(s)
    /\ NextValue(s)
    /\ UNCHANGED <<tenants, accepted, cache, tokens, faults,
                   finished, unknown, owned>>

Finish(s) ==
    /\ slot[s].at = "value"
    /\ ~AtValue(s)
    /\ slot' = [slot EXCEPT ![s] = Free]
    /\ finished' = finished \cup {slot[s].hook}
    /\ UNCHANGED <<tenants, accepted, cache, log, reader, faults,
                   unknown, owned>>
-----------------------------------------------------------------------------
(* Mishaps                                                                  *)

Mishap == faults < MaxFaults /\ faults' = faults + 1

\* A call to Redis or Postgres raises: the rest of the batch is given up.
ProcessRaises(s) ==
    /\ Mishap
    /\ \/ AtValue(s) /\ IsMessage(Here(s))
       \/ slot[s].at \in {"select", "fill", "publish"}
    /\ slot' = [slot EXCEPT ![s] = Free]
    /\ UNCHANGED <<tenants, accepted, cache, log, reader, history>>

\* The connection breaks after XADD and before its answer, and the client sends
\* the command again.
Resend(s) ==
    /\ Mishap
    /\ slot[s].at = "publish"
    /\ Add(s)
    /\ UNCHANGED <<tenants, accepted, slot, cache, tokens,
                   finished, unknown, owned>>

\* The process dies with everything it had answered and not yet published.
Crash ==
    /\ Mishap
    /\ slot' = [s \in Slots |-> Free]
    /\ UNCHANGED <<tenants, accepted, cache, log, reader, history>>

\* (mutant) SET without EX
CacheExpires_Never(p) == FALSE

CacheExpires(p) ==
    /\ cache[p] # None
    /\ cache' = [cache EXCEPT ![p] = None]
    /\ UNCHANGED <<tenants, accepted, slot, log, reader, faults, history>>
-----------------------------------------------------------------------------
(* The engine takes an entry off the stream                                 *)

\* get_access_token: the cached token, or the one stored for tenant and number.
Serve(t) ==
    /\ Unread(t) > 0
    /\ LET e == log[t][read[t] + 1]
           p == Batch[e.hook][e.index].phone
       IN  /\ <<t, p>> \in tokens \/ phone[t] = p
           /\ tokens' = tokens \cup {<<t, p>>}
    /\ read' = [read EXCEPT ![t] = @ + 1]
    /\ UNCHANGED <<tenants, accepted, slot, cache, log, faults,
                   finished, unknown, owned>>

\* "Missing tenant access token": acknowledged and dropped.
Drop(t) ==
    /\ Unread(t) > 0
    /\ LET e == log[t][read[t] + 1]
           p == Batch[e.hook][e.index].phone
       IN  <<t, p>> \notin tokens /\ phone[t] # p
    /\ read' = [read EXCEPT ![t] = @ + 1]
    /\ UNCHANGED <<tenants, accepted, slot, cache, log, tokens, faults, history>>

TokenExpires(t, p) ==
    /\ <<t, p>> \in tokens
    /\ tokens' = tokens \ {<<t, p>>}
    /\ UNCHANGED <<tenants, accepted, slot, cache, log, read, faults, history>>

\* The accounts change; owned remembers who had which number.
TenantStep ==
    /\ TenantsNext
    /\ owned' = owned \cup {tp \in Tenants \X Phones : phone'[tp[1]] = tp[2]}
    /\ UNCHANGED <<accepted, slot, cache, log, reader, faults,
                   finished, unknown>>
-----------------------------------------------------------------------------

Process(s) == IgnoreValue(s) \/ LookUp(s) \/ SelectTenant(s) \/ TenantNotFound(s)
              \/ FillCache(s) \/ Publish(s) \/ Finish(s) \/ ProcessRaises(s)

Next ==
    \/ \E s \in Slots, w \in Hooks : Arrive(s, w)
    \/ \E s \in Slots : Forbid(s) \/ Answer(s) \/ Process(s) \/ Resend(s)
    \/ Crash
    \/ \E p \in Phones : CacheExpires(p)
    \/ \E t \in Tenants : Serve(t) \/ Drop(t)
    \/ \E t \in Tenants, p \in Phones : TokenExpires(t, p)
    \/ TenantStep

Spec == Init /\ [][Next]_vars

\* The event loop goes on with every delivery it has answered, keys and tokens
\* expire after five minutes.
FairSpec ==
    /\ Spec
    /\ \A s \in Slots : WF_vars(Process(s))
    /\ \A p \in Phones : WF_vars(CacheExpires(p))
    /\ \A t \in Tenants, p \in Phones : WF_vars(TokenExpires(t, p))
-----------------------------------------------------------------------------
(* Properties                                                               *)

Channel == INSTANCE MessageChannel
               WITH accepted <- accepted, owned <- owned, log <- log, read <- read

\* webhookRoutes, ProcessWebhookUseCase, RedisMessageQueue: with its caches, its
\* deliveries that run into each other, its failures and the numbers that change
\* hands, the gateway is still a MessageChannel to the engine: nothing is filed
\* that was not accepted, nothing under a tenant that never had the number, a log
\* only grows at its end, and what is not read is dropped only beyond MaxLen.
ImplementsChannel == Channel!Spec

EntryType == [hook : Hooks, index : Nat \ {0}]

TypeOK ==
    /\ TenantsTypeOK
    /\ slot \in [Slots -> {Free} \cup Delivery]
    /\ cache \in [Phones -> Tenants \cup {None}]
    /\ log \in [Tenants -> Seq(EntryType)]
    /\ read \in [Tenants -> Nat]
    /\ tokens \subseteq Tenants \X Phones
    /\ faults \in 0..MaxFaults
    /\ accepted \in [Hooks -> 0..MaxTries] /\ finished \subseteq Hooks
    /\ unknown \subseteq EntryType
    /\ owned \subseteq Tenants \X Phones

Copies(e) == UNION {{<<t, i>> : i \in {j \in DOMAIN log[t] : log[t][j] = e}} : t \in Tenants}
Published(e) == \E t \in Tenants : \E i \in DOMAIN log[t] : log[t][i] = e
Values == UNION {{[hook |-> w, index |-> i] : i \in DOMAIN Batch[w]} : w \in Hooks}
Phone(e) == Batch[e.hook][e.index].phone

\* ProcessWebhookUseCase.execute: a batch whose processing comes to its end has
\* left out nothing: every message in it is on a log, unless its number was
\* nobody's when it was looked up; values before it that are unknown or of
\* another kind do not matter.
FinishedBatchIsComplete ==
    \A e \in Values :
        e.hook \in finished /\ IsMessage(Batch[e.hook][e.index]) => Published(e) \/ e \in unknown

\* RedisMessageQueue.publish: of a message there are no more copies than answered
\* deliveries of its notification and mishaps (a resent command is one).
NoExtraCopies == \A e \in Values : Cardinality(Copies(e)) <= accepted[e.hook] + faults

\* RedisTenantCache, PostgresTenantCredentialsRepo: two caches and a lookup race
\* with numbers that change hands.  A message is filed under, and answered by,
\* only a tenant that has had its number.
OnlyOwners ==
    /\ \A t \in Tenants : \A i \in DOMAIN log[t] : <<t, Phone(log[t][i])>> \in owned
    /\ tokens \subseteq owned

\* RedisTenantCache, "EX ttl": when the numbers stop changing hands, every cached
\* number comes to lead to its owner, and the engine holds tokens of owners only.
RoutingConverges ==
    <>[][FALSE]_phone =>
        <>[](/\ \A p \in Phones : cache[p] # None => phone[cache[p]] = p
             /\ \A tp \in tokens : phone[tp[1]] = tp[2])

\* webhookRoutes: what has been answered is processed to an end, whatever the
\* batch holds.
DeliveriesEnd == \A s \in Slots : slot[s].at = "value" ~> slot[s] = Free
=============================================================================
