---------------------------- MODULE FlowConsumer ----------------------------
(***************************************************************************)
(* The stream consumer of services/flow-engine                              *)
(* (flow_engine/interfaces/consumer.py) with the Redis lock, idempotency    *)
(* keys and session store it drives.  Several replicas (Workers) share one  *)
(* consumer group on the stream of one tenant; each replica runs a single   *)
(* consumer thread, so a worker is a sequential process whose steps         *)
(* interleave with the other workers at every Redis call.                   *)
(*                                                                          *)
(* A stream entry is named by its id, a number that XADD hands out in       *)
(* increasing order.  A message that is re-enqueued gets a second entry     *)
(* with an id of its own.  A session is abstracted to the set of messages   *)
(* whose turns it holds.  Time is abstracted: a TTL runs out, a pending     *)
(* entry passes the ten-minute idle limit and a rate window rolls over at   *)
(* any moment at which they could.                                          *)
(*                                                                          *)
(* Left out is the MAXLEN ~ 10000 of every XADD, the gateway's and that of  *)
(* _reenqueue: the stream here keeps what it was given.  In the code an     *)
(* engine that is ten thousand entries behind loses the oldest ones, unread *)
(* or pending, without a trace: a further exit beside those of NoSilentLoss *)
(* and EveryMessageSettles.  Gateway models the trim of unread entries.     *)
(***************************************************************************)
EXTENDS Integers, FiniteSets

CONSTANTS
    Workers,     \* flow-engine replicas
    Chats,       \* conversations (tenant_id, wa_id)
    Msgs,        \* messages the gateway publishes
    ChatOf,      \* the conversation of each message
    None,        \* no lock key, no current entry
    ReadCount,   \* _READ_COUNT, entries per XREADGROUP
    RateLimit,   \* _RATE_LIMIT, INCRs allowed per tenant and minute
    MaxEntries,  \* bound: entries ever added to the stream
    Mishaps,     \* the mishaps that may happen, of AllMishaps below
    MaxMishaps   \* bound: how many of them happen

\* A call to Redis or Postgres fails; a replica dies and restarts; an entry is
\* claimed by one worker while another one still has it in memory.
AllMishaps == {"fault", "crash", "steal"}

ASSUME ConsumerAssumption ==
    /\ Workers # {}
    /\ None \notin Workers \cup Msgs \cup 1..MaxEntries
    /\ ChatOf \in [Msgs -> Chats]
    /\ ReadCount \in Nat \ {0}
    /\ RateLimit \in Nat /\ MaxEntries \in Nat /\ MaxMishaps \in Nat
    /\ Mishaps \subseteq AllMishaps

VARIABLES
    msgOf,      \* the stream: the message of each entry id in 1..last
    last,       \* the id of the newest entry
    delivered,  \* the group's last-delivered-id
    pel,        \* the group's pending entries list
    processed,  \* entry ids with a live processed:{message_id} key
    lock,       \* lock:flow:{tenant}:{wa}: who SET the key, None when absent
    session,    \* session:{tenant}:{wa}: the turns the stored session holds
    rate,       \* rate:tenant:{tenant}:minute:{bucket}
    pc,         \* where each worker stands in _tick/_process
    cur,        \* the entry each worker processes
    batch,      \* the entries each worker has read and not yet started
    copy,       \* each worker's in-memory Session
    mishaps,    \* how many mishaps have happened
    dropped,    \* messages given up before the executor ran
    runs,       \* executor runs per message
    claims,     \* XAUTOCLAIMs per message
    stolen,     \* chats whose lock key vanished under a worker still inside
    blind       \* workers whose session load failed

stream  == <<msgOf, last, delivered, pel>>
redis   == <<processed, lock, session, rate>>
memory  == <<pc, cur, batch, copy>>
history == <<dropped, runs, claims, stolen, blind>>
vars    == <<stream, redis, memory, mishaps, history>>

Ids == 1..MaxEntries

\* The steps of _process between lock.acquire() and lock.release().
Locked == {"load", "execute", "save", "release"}
Steps  == {"next", "rate", "lock", "requeue", "mark", "ack"} \cup Locked

TypeOK ==
    /\ msgOf \in [Ids -> Msgs \cup {None}]
    /\ last \in 0..MaxEntries
    /\ delivered \in 0..last
    /\ \A e \in 1..last : msgOf[e] \in Msgs
    /\ pel \subseteq 1..delivered
    /\ processed \subseteq 1..delivered
    /\ lock \in [Chats -> Workers \cup {None}]
    /\ session \in [Chats -> SUBSET Msgs]
    /\ rate \in 0..(RateLimit + 1)
    /\ pc \in [Workers -> Steps]
    /\ cur \in [Workers -> (1..delivered) \cup {None}]
    /\ \A w \in Workers : cur[w] = None <=> pc[w] = "next"
    /\ batch \in [Workers -> SUBSET (1..delivered)]
    /\ copy \in [Workers -> SUBSET Msgs]
    /\ mishaps \in 0..MaxMishaps
    /\ dropped \subseteq Msgs
    /\ runs \in [Msgs -> Nat]
    /\ claims \in [Msgs -> Nat]
    /\ stolen \subseteq Chats
    /\ blind \subseteq Workers

Init ==
    /\ msgOf = [e \in Ids |-> None]
    /\ last = 0
    /\ delivered = 0
    /\ pel = {}
    /\ processed = {}
    /\ lock = [c \in Chats |-> None]
    /\ session = [c \in Chats |-> {}]
    /\ rate = 0
    /\ pc = [w \in Workers |-> "next"]
    /\ cur = [w \in Workers |-> None]
    /\ batch = [w \in Workers |-> {}]
    /\ copy = [w \in Workers |-> {}]
    /\ mishaps = 0
    /\ dropped = {}
    /\ runs = [m \in Msgs |-> 0]
    /\ claims = [m \in Msgs |-> 0]
    /\ stolen = {}
    /\ blind = {}

-----------------------------------------------------------------------------
(* Helpers *)

MsgOf(w)  == msgOf[cur[w]]
ChatAt(w) == ChatOf[MsgOf(w)]

\* The workers between acquire and release for conversation c.
Inside(c) == {w \in Workers : pc[w] \in Locked /\ ChatAt(w) = c}

Published(m) == \E e \in 1..last : msgOf[e] = m

\* An entry that is still to be delivered, or delivered and not acknowledged.
Live(e) == e \in pel \cup ((delivered + 1)..last)

\* A delivered entry some worker has in memory.
InHand(e) == \E w \in Workers : e \in batch[w] \/ cur[w] = e

\* Bound: the stream has room for one more entry beside those that workers
\* are about to re-enqueue.
Room == last + Cardinality({w \in Workers : pc[w] = "requeue"}) < MaxEntries

\* n mishaps of a kind happen in this step.
Mishap(kind, n) ==
    /\ n > 0 => kind \in Mishaps
    /\ mishaps' = mishaps + n
    /\ mishaps' <= MaxMishaps

Fault   == Mishap("fault", 1)
NoFault == UNCHANGED mishaps

\* The executor has run for message m.
Handled(m) == runs[m] > 0

\* Worker w goes on to step s with the same entry.
Goto(w, s) == pc' = [pc EXCEPT ![w] = s] /\ UNCHANGED <<cur, batch>>

\* An exception leaves _process and reaches run(): the loop variable and the
\* rest of the batch are gone, their entries stay pending.
Abandon(w) ==
    /\ pc' = [pc EXCEPT ![w] = "next"]
    /\ cur' = [cur EXCEPT ![w] = None]
    /\ batch' = [batch EXCEPT ![w] = {}]

\* XADD: a new entry for message m at the end of the stream; no entry is trimmed.
Add(m) ==
    /\ last' = last + 1
    /\ msgOf' = [msgOf EXCEPT ![last + 1] = m]

\* Worker w takes entry e, the oldest of its batch, and goes to step s.
Take(w, e, s) ==
    /\ pc[w] = "next"
    /\ e \in batch[w]
    /\ \A f \in batch[w] : e <= f
    /\ pc' = [pc EXCEPT ![w] = s]
    /\ cur' = [cur EXCEPT ![w] = e]
    /\ batch' = [batch EXCEPT ![w] = @ \ {e}]

\* The key lock:flow:{tenant}:{wa} of c is gone: whoever is inside has lost it.
LoseKey(c) ==
    /\ lock' = [lock EXCEPT ![c] = None]
    /\ stolen' = IF Inside(c) = {} THEN stolen ELSE stolen \cup {c}

\* Worker w leaves the locked section of c; the damage of a lost key is over
\* once nobody is left inside.
Leave(w, c) ==
    /\ stolen' = IF Inside(c) \subseteq {w} THEN stolen \ {c} ELSE stolen
    /\ blind' = blind \ {w}
    /\ copy' = [copy EXCEPT ![w] = {}]

-----------------------------------------------------------------------------
(* The stream: gateway, XREADGROUP and XAUTOCLAIM *)

\* The gateway XADDs message m.
Publish(m) ==
    /\ Room
    /\ last < MaxEntries
    /\ ~Published(m)
    /\ Add(m)
    /\ UNCHANGED <<delivered, pel, redis, memory, mishaps, history>>

\* (mutant) the batch size is not cut down to what the stream holds
Readable_Unclamped == ReadCount

\* How many entries one XREADGROUP ">" hands out.
Readable ==
    IF last - delivered < ReadCount THEN last - delivered ELSE ReadCount

\* (mutant) XREADGROUP with NOACK: delivered entries are not put on the list
Deliver_NoAck == delivered' = delivered + Readable /\ UNCHANGED pel

\* XREADGROUP puts what it hands out on the pending list before it replies.
Deliver ==
    /\ delivered' = delivered + Readable
    /\ pel' = pel \cup (delivered + 1)..(delivered + Readable)

\* _tick reads new entries; one XREADGROUP delivers a whole batch at once.
ReadGroup(w) ==
    /\ pc[w] = "next" /\ batch[w] = {}
    /\ Readable > 0
    /\ Deliver
    /\ batch' = [batch EXCEPT ![w] = (delivered + 1)..(delivered + Readable)]
    /\ UNCHANGED <<msgOf, last, redis, pc, cur, copy, mishaps, history>>

\* The reply of XREADGROUP is lost: the entries are pending, nobody has them.
ReadGroupFails(w) ==
    /\ pc[w] = "next" /\ batch[w] = {}
    /\ Readable > 0
    /\ Deliver
    /\ Fault
    /\ UNCHANGED <<msgOf, last, redis, memory, history>>

\* (mutant) _tick never calls _xclaim_stuck_messages
Sweep_Never(w) == FALSE

\* XAUTOCLAIM hands the entries S, idle for ten minutes, to worker w.  An entry
\* no worker has in memory gets there for sure; one that a slow worker still
\* has in its batch may get there as well (a "steal").
Sweep(w) ==
    /\ pc[w] = "next" /\ batch[w] = {}
    /\ \E S \in (SUBSET pel) \ {{}} :
        /\ Mishap("steal", Cardinality({e \in S : InHand(e)}))
        /\ batch' = [batch EXCEPT ![w] = S]
        /\ claims' = [m \in Msgs |->
                         claims[m] + Cardinality({e \in S : msgOf[e] = m})]
    /\ UNCHANGED <<stream, redis, pc, cur, copy, dropped, runs, stolen, blind>>

-----------------------------------------------------------------------------
(* _process, steps 1 to 3: parse, credentials, idempotency, rate limit *)

\* The envelope does not parse, or get_access_token finds no token (the tenant
\* is suspended or has another number by now): acknowledge and drop.
GiveUp(w) ==
    \E e \in batch[w] :
        /\ Take(w, e, "ack")
        /\ dropped' = dropped \cup {msgOf[e]}
        /\ UNCHANGED <<stream, redis, copy, mishaps, runs, claims, stolen, blind>>

\* The query or the decryption raises: nothing catches it before run().
TokenRaises(w) ==
    /\ pc[w] = "next" /\ batch[w] # {}
    /\ Abandon(w)
    /\ Fault
    /\ UNCHANGED <<stream, redis, copy, history>>

\* With a token, is_processed looks the entry id up, not the id in the
\* envelope: acknowledge a duplicate.
SkipProcessed(w) ==
    \E e \in batch[w] :
        /\ e \in processed
        /\ Take(w, e, "ack")
        /\ UNCHANGED <<stream, redis, copy, mishaps, history>>

\* (mutant) the key is set before the work is done
NotProcessed_Marks(w) ==
    \E e \in batch[w] :
        /\ \/ e \notin processed /\ NoFault
           \/ e \in processed /\ Fault
        /\ Take(w, e, "rate")
        /\ processed' = processed \cup {e}
        /\ UNCHANGED <<stream, lock, session, rate, copy, history>>

\* No key, or a failing GET, which counts as no key.
NotProcessed(w) ==
    \E e \in batch[w] :
        /\ \/ e \notin processed /\ NoFault
           \/ e \in processed /\ Fault
        /\ Take(w, e, "rate")
        /\ UNCHANGED <<stream, redis, copy, history>>

\* INCR of the tenant's counter; it saturates one above the limit.
RateAfterIncr == IF rate > RateLimit THEN rate ELSE rate + 1

\* Within the limit, or a failing INCR or EXPIRE, which lets the message through.
WithinRate(w) ==
    /\ pc[w] = "rate"
    /\ \/ /\ RateAfterIncr <= RateLimit
          /\ rate' = RateAfterIncr
          /\ NoFault
       \/ rate' \in {rate, RateAfterIncr} /\ Fault
    /\ Goto(w, "lock")
    /\ UNCHANGED <<stream, processed, lock, session, copy,
                   history>>

\* Over the limit: the busy notice goes out and the message is dropped.
OverRate(w) ==
    /\ pc[w] = "rate"
    /\ RateAfterIncr > RateLimit
    /\ rate' = RateAfterIncr
    /\ Goto(w, "ack")
    /\ dropped' = dropped \cup {MsgOf(w)}
    /\ UNCHANGED <<stream, processed, lock, session, copy, mishaps,
                   runs, claims, stolen, blind>>

\* The minute is over: the counter starts again at zero.
RollMinute ==
    /\ rate > 0
    /\ rate' = 0
    /\ UNCHANGED <<stream, processed, lock, session, memory, mishaps, history>>

-----------------------------------------------------------------------------
(* _process, step 4: the conversation lock *)

\* (mutant) SET without NX
Free_NoNX(c) == TRUE

\* SET NX succeeds on conversation c.
Free(c) == lock[c] = None

AcquireLock(w) ==
    /\ pc[w] = "lock"
    /\ Free(ChatAt(w))
    /\ lock' = [lock EXCEPT ![ChatAt(w)] = w]
    /\ Goto(w, "load")
    /\ UNCHANGED <<stream, processed, session, rate, copy, mishaps, history>>

\* Another worker holds the key; at the bound on entries the worker waits.
LockBusy(w) ==
    /\ pc[w] = "lock"
    /\ ~Free(ChatAt(w))
    /\ Room
    /\ Goto(w, "requeue")
    /\ UNCHANGED <<stream, redis, copy, mishaps, history>>

\* SET raises, before or after Redis has set the key: acquire() stands outside
\* the try block.  In the second case the key stays, and nobody is inside.
AcquireRaises(w) ==
    /\ pc[w] = "lock"
    /\ Fault
    /\ \/ UNCHANGED lock
       \/ /\ Free(ChatAt(w))
          /\ lock' = [lock EXCEPT ![ChatAt(w)] = w]
    /\ Abandon(w)
    /\ UNCHANGED <<stream, processed, session, rate, copy,
                   history>>

\* (mutant) the return after the re-enqueue is missing
Requeue_NoReturn(w) ==
    /\ pc[w] = "requeue"
    /\ last < MaxEntries
    /\ Add(MsgOf(w))
    /\ Goto(w, "load")
    /\ UNCHANGED <<delivered, pel, redis, copy, mishaps, history>>

\* XADD of the same fields: the copy gets an entry id of its own.
Requeue(w) ==
    /\ pc[w] = "requeue"
    /\ last < MaxEntries
    /\ Add(MsgOf(w))
    /\ Goto(w, "ack")
    /\ UNCHANGED <<delivered, pel, redis, copy, mishaps, history>>

\* XADD fails: the error is logged and the entry is acknowledged all the same.
RequeueFails(w) ==
    /\ pc[w] = "requeue"
    /\ Fault
    /\ dropped' = dropped \cup {MsgOf(w)}
    /\ Goto(w, "ack")
    /\ UNCHANGED <<stream, redis, copy,
                   runs, claims, stolen, blind>>

-----------------------------------------------------------------------------
(* _process, steps 5 to 10: inside the lock *)

\* (mutant) every message starts from Session.new()
LoadSession_Fresh(w) ==
    /\ pc[w] = "load"
    /\ copy' = [copy EXCEPT ![w] = {}]
    /\ Goto(w, "execute")
    /\ UNCHANGED <<stream, redis, mishaps, history>>

\* The stored session becomes the worker's in-memory Session.
LoadSession(w) ==
    /\ pc[w] = "load"
    /\ copy' = [copy EXCEPT ![w] = session[ChatAt(w)]]
    /\ Goto(w, "execute")
    /\ UNCHANGED <<stream, redis, mishaps, history>>

\* HGETALL fails: load() answers None and the message starts a new session.
LoadFails(w) ==
    /\ pc[w] = "load"
    /\ Fault
    /\ copy' = [copy EXCEPT ![w] = {}]
    /\ blind' = blind \cup {w}
    /\ Goto(w, "execute")
    /\ UNCHANGED <<stream, redis,
                   dropped, runs, claims, stolen>>

\* The executor answers the user and leaves the turn in the session.
Execute(w) ==
    /\ pc[w] = "execute"
    /\ copy' = [copy EXCEPT ![w] = @ \cup {MsgOf(w)}]
    /\ runs' = [runs EXCEPT ![MsgOf(w)] = @ + 1]
    /\ Goto(w, "save")
    /\ UNCHANGED <<stream, redis, mishaps, dropped, claims, stolen, blind>>

\* The executor raises, possibly after some replies went out: the session is
\* not saved, and the message counts as processed.
ExecuteRaises(w) ==
    /\ pc[w] = "execute"
    /\ runs' = [runs EXCEPT ![MsgOf(w)] = @ + 1]
    /\ Goto(w, "release")
    /\ UNCHANGED <<stream, redis, copy, mishaps, dropped, claims, stolen, blind>>

SaveSession(w) ==
    /\ pc[w] = "save"
    /\ session' = [session EXCEPT ![ChatAt(w)] = copy[w]]
    /\ Goto(w, "release")
    /\ UNCHANGED <<stream, processed, lock, rate, copy, mishaps, history>>

\* The HSET pipeline fails: logged only.
SaveFails(w) ==
    /\ pc[w] = "save"
    /\ Fault
    /\ Goto(w, "release")
    /\ UNCHANGED <<stream, redis, copy, history>>

\* DEL of the key, whoever has set it; the key stays when the call fails.
ReleaseLock(w) ==
    /\ pc[w] = "release"
    /\ \/ lock' = [lock EXCEPT ![ChatAt(w)] = None] /\ NoFault
       \/ Fault /\ UNCHANGED lock
    /\ Leave(w, ChatAt(w))
    /\ Goto(w, "mark")
    /\ UNCHANGED <<stream, processed, session, rate,
                   dropped, runs, claims>>

-----------------------------------------------------------------------------
(* _process, steps 11 and 12, and what happens around the workers *)

\* SET processed:{message_id} EX 300; a failing call is logged only.
MarkProcessed(w) ==
    /\ pc[w] = "mark"
    /\ \/ processed' = processed \cup {cur[w]} /\ NoFault
       \/ Fault /\ UNCHANGED processed
    /\ Goto(w, "ack")
    /\ UNCHANGED <<stream, lock, session, rate, copy, history>>

\* XACK takes the entry off the pending list, whoever it is assigned to; a
\* failing call is logged only.  _process returns.
Ack(w) ==
    /\ pc[w] = "ack"
    /\ \/ pel' = pel \ {cur[w]} /\ NoFault
       \/ Fault /\ UNCHANGED pel
    /\ pc' = [pc EXCEPT ![w] = "next"]
    /\ cur' = [cur EXCEPT ![w] = None]
    /\ UNCHANGED <<msgOf, last, delivered, redis, batch, copy,
                   history>>

\* The process dies and is restarted: its memory is lost, Redis keeps the key.
Crash(w) ==
    /\ Mishap("crash", 1)
    /\ cur[w] # None \/ batch[w] # {}
    /\ Abandon(w)
    /\ IF pc[w] \in Locked
          THEN Leave(w, ChatAt(w))
          ELSE UNCHANGED <<stolen, blind, copy>>
    /\ UNCHANGED <<stream, redis, dropped, runs, claims>>

\* (mutant) SET without EX
LockExpire_NoTTL(c) == FALSE

\* Thirty seconds after SET the key is gone, whatever its setter is doing.
LockExpire(c) ==
    /\ lock[c] # None
    /\ LoseKey(c)
    /\ UNCHANGED <<stream, processed, session, rate, memory, mishaps,
                   dropped, runs, claims, blind>>

\* Five minutes after SET the idempotency key of entry e is gone.
KeyExpire(e) ==
    /\ e \in processed
    /\ processed' = processed \ {e}
    /\ UNCHANGED <<stream, lock, session, rate, memory, mishaps, history>>

\* A day after the last save the stored session is gone.
SessionExpire(c) ==
    /\ session[c] # {}
    /\ session' = [session EXCEPT ![c] = {}]
    /\ UNCHANGED <<stream, processed, lock, rate, memory, mishaps, history>>

\* POST /admin/sessions/{tenant}/{wa}/reset deletes the session and the key.
ResetSession(c) ==
    /\ session[c] # {} \/ lock[c] # None
    /\ session' = [session EXCEPT ![c] = {}]
    /\ LoseKey(c)
    /\ UNCHANGED <<stream, processed, rate, memory, mishaps,
                   dropped, runs, claims, blind>>

-----------------------------------------------------------------------------
\* One step of the consumer thread of worker w.
Step(w) ==
    \/ ReadGroup(w) \/ ReadGroupFails(w) \/ Sweep(w)
    \/ GiveUp(w) \/ TokenRaises(w)
    \/ SkipProcessed(w) \/ NotProcessed(w)
    \/ WithinRate(w) \/ OverRate(w)
    \/ AcquireLock(w) \/ LockBusy(w) \/ AcquireRaises(w)
    \/ Requeue(w) \/ RequeueFails(w)
    \/ LoadSession(w) \/ LoadFails(w)
    \/ Execute(w) \/ ExecuteRaises(w)
    \/ SaveSession(w) \/ SaveFails(w)
    \/ ReleaseLock(w) \/ MarkProcessed(w) \/ Ack(w)

Environment ==
    \/ \E m \in Msgs : Publish(m)
    \/ \E w \in Workers : Crash(w)
    \/ \E c \in Chats : LockExpire(c) \/ SessionExpire(c) \/ ResetSession(c)
    \/ \E e \in Ids : KeyExpire(e)
    \/ RollMinute

Next == Environment \/ \E w \in Workers : Step(w)

Spec == Init /\ [][Next]_vars

\* The consumer thread keeps running, and Redis expires keys.
FairSpec ==
    /\ Spec
    /\ \A w \in Workers : WF_vars(Step(w))
    /\ \A c \in Chats : WF_vars(LockExpire(c))

-----------------------------------------------------------------------------
(* Safety *)

\* As long as no lock key has vanished under its holder, a conversation has at
\* most one worker between acquire() and release(), and the key is that
\* worker's own; and once everybody caught in such a loss has left, the
\* guarantee is back.  (RedisLock, and lock.acquire()/release() in _process.)
MutualExclusion ==
    \A c \in Chats \ stolen : \A v, w \in Inside(c) : v = w /\ lock[c] = w

\* A published message is still in the stream or on the pending list, unless
\* the executor ran for it or _process gave it up at one of its named exits:
\* crashes, lost replies, a busy lock and failing XACKs lose no message.  (A
\* stream trimmed at MAXLEN would.)
\* (XREADGROUP/XACK in _tick and _process, _reenqueue before _ack.)
NoSilentLoss ==
    \A m \in Msgs :
        Published(m) => \/ Handled(m) \/ m \in dropped
                        \/ \E e \in 1..last : msgOf[e] = m /\ Live(e)

\* Re-enqueueing under a busy lock never multiplies a message: the executor
\* runs at most once per delivery, so a second run needs an XAUTOCLAIM.
\* (_reenqueue and _ack in step 4, mark_processed and _ack in steps 11 and 12.)
OneRunPerDelivery == \A m \in Msgs : runs[m] <= 1 + claims[m]

\* No saved turn is overwritten: the stored session of a conversation only
\* grows, or is wiped as a whole by its TTL or the admin API, as long as no
\* worker inside has lost the lock or has started from a failed load.
\* (Session load, execute, save under the lock.)
TurnsSurvive ==
    [][\A c \in Chats :
          \/ session[c] \subseteq session'[c]
          \/ session'[c] = {}
          \/ c \in stolen
          \/ blind \cap Inside(c) # {}]_vars

-----------------------------------------------------------------------------
(* Refinement *)

\* Messages the stream still owes a delivery or an acknowledgement.
Open == {m \in Msgs : \E e \in 1..last : msgOf[e] = m /\ Live(e)}

\* How often each message was handed out: once, and once per claim.
Chances == [m \in Msgs |-> IF Published(m) THEN 1 + claims[m] ELSE 0]

\* Conversations with a worker inside that has lost the lock or its session.
Torn == {c \in Chats : c \in stolen \/ blind \cap Inside(c) # {}}

Service == INSTANCE Conversations
               WITH open <- Open, chances <- Chances, turns <- session, torn <- Torn

\* _tick and _process, over Redis: load, execute and save are one atomic turn of
\* the conversation, messages settle only when they were run or dropped, and are
\* run at most once per delivery, whatever the replicas do to each other.
ImplementsConversations == Service!Spec

-----------------------------------------------------------------------------
(* Liveness, under FairSpec *)

\* Every published message comes to an end: after finitely many faults and
\* crashes nothing of it is left to deliver or pending, and it was handled or
\* dropped.  (The XAUTOCLAIM sweep of _tick finds what was left behind.)
EveryMessageSettles ==
    \A m \in Msgs :
        Published(m) ~> /\ Handled(m) \/ m \in dropped
                        /\ ~\E e \in 1..last : msgOf[e] = m /\ Live(e)

\* No conversation stays locked: a key that a crash or a failing DEL left
\* behind goes away.  (The TTL of RedisLock.acquire.)
LockFreed == \A c \in Chats : lock[c] # None ~> lock[c] = None

-----------------------------------------------------------------------------
(* What the documents say, and the code does not do *)

\* ADR-001: at-least-once delivery made idempotent by processed:{message_id}:
\* the executor does not run twice for one message.
IdempotentConsumer == \A m \in Msgs : runs[m] <= 1

\* redis_lock.py: a lock per conversation, so that two workers are never
\* inside one conversation together.
PerConversationLock == \A c \in Chats : \A v, w \in Inside(c) : v = w
=============================================================================
