# A TLA+ model of whatsapp-ai-saas

The repository is a multi-tenant WhatsApp bot. This directory holds TLA+ modules
of its parts, the TLC configurations that check them on small instances, and
theorems about them with proofs for TLAPS. `PROJECT.json` ties every definition
to the lines of source it models, and every property to a mutant that breaks it.

Paths below are relative to `src/`.

## 1. The system

    Meta --webhook--> gateway --XADD flow-engine:{tenant}--> flow-engine (2 replicas) --> Meta
                                                               |  ^
                                         Redis: lock, session, |  | flows (Postgres), chunks (ChromaDB)
                                         processed, rate keys  v  |
    dashboard --REST--> tenant-api --XADD indexing:{tenant}--> rag-indexer (1 worker) --> ChromaDB
                            |  Postgres, MinIO                      |
                            +--POST /admin/flows/reload--> flow-engine admin API

| Part | State it keeps | Operations | What is hard |
|---|---|---|---|
| **flow-engine consumer** `services/flow-engine/flow_engine/interfaces/consumer.py`, `infrastructure/redis/` | stream group and pending list; `lock:flow`, `session:`, `processed:`, `rate:` keys; batch and session in memory | read, claim, look up, count, lock, re-enqueue, load, execute, save, release, mark, acknowledge | replicas interleave at every Redis call; keys expire at any time; calls fail; replicas die; slow entries are claimed by others |
| **flow executor** `application/flow_executor.py`, `node_executors.py`, `trigger_matcher.py` | the session: state, flow, node, slots, retry count | trigger, continue, run nodes until one waits, fall back to the model | long sequences of messages; flows change under a conversation; sessions get lost; flows that loop |
| **knowledge base** `services/tenant-api/src/application/kb`, `services/rag-indexer` | file (MinIO), row with status (Postgres), job (Redis), vectors (ChromaDB) | upload, delete, index, purge, sweep | four stores without a transaction; requests interleave with the worker; any call may fail; retries |
| **flow administration** `services/tenant-api/src/application/flows`, `PrismaFlowRepo.ts`, `postgres_flow_repo.py` | flows with versions and active flags (Postgres); a cache per replica | create, new version, activate, delete, reload | check and write in different queries; activation in two updates; reload races load; one replica of two is told |
| **graph validation** `FlowGraphValidator.ts` | none; a search with its queue | validate | loops, shared targets, doubled keys |
| **accounts** `services/tenant-api/src/application/auth`, `application/tenant` | rows of `tenants` and `users` | register, log in, connect a number | two inserts without a transaction; slug looked up long before it is inserted |
| **gateway** `services/gateway/src` | tenant cache in Redis | verify, answer 200, look up the tenant, publish | the answer goes out before the work; batches; stale cache; resent commands; trims |
| **dashboard** `services/dashboard/src` | token, open page, query cache | log in, fetch, poll, create, activate, delete, upload, connect | answers that arrive late; a cache that outlives a session; a token that lapses |
| **conversations, dry run, settings** `services/tenant-api/src` | rows of Postgres | single reads and writes | little |

How they interact: the gateway publishes to a stream of the tenant, the engine's
consumer group reads it. tenant-api and rag-indexer share Postgres rows and
speak through a second stream. tenant-api tells the engine's admin API to drop a
cache, and the admin API deletes session and lock keys under the consumer's
feet. The executor searches the ChromaDB collection the indexer fills.

What makes each part correct:

- *consumer*: one worker at a time in a conversation; no message lost silently;
  none executed more often than it was delivered; no turn of a session
  overwritten; every message settles; no conversation locked for good.
- *executor*: a conversation rests where its flow lets it; an answer goes to the
  node that asked; slots belong to the flow they were collected in; a message
  never jumps flows; a message always comes to an end.
- *knowledge base*: what is deleted stays deleted; what is shown as indexed can
  be found; every job comes to a status.
- *flow administration*: what is stored has been validated; one active flow, in
  the end the same one everywhere; never none once there was one.
- *graph validation*: its search refuses exactly the graphs with a node out of
  reach.
- *accounts*: whoever was answered 201 can log in, and nobody else by that slug.
- *gateway*: a batch is processed to its end; nothing reaches a tenant that never
  had the number; copies are accounted for, and so is what a trim may cost.
- *dashboard*: the list on the screen contains what the user was told has
  happened; nothing of an expired session survives it.

The full list of hazards, each at its line, is in `PROJECT.json`.

## 2. Modules

| Module | Models | Checked by |
|---|---|---|
| `FlowConsumer` | consumer, lock, idempotency keys, session store | `MCFlowConsumer`, four runs |
| `Conversations` | what the engine promises to who writes to it; abstract, no code of its own | refined by `FlowConsumer` |
| `FlowConsumerProofs` | theorems about `FlowConsumer`, the refinement among them | TLAPS |
| `FlowExecutor` | `execute()`, triggers, node executors | `MCFlowExecutor`, two runs |
| `FlowExecutorProofs` | theorems about `FlowExecutor` | TLAPS |
| `KbDocuments` | upload, delete, indexing worker | `MCKbDocuments`, three runs |
| `KbDocumentsProofs` | theorems about `KbDocuments` | TLAPS |
| `FlowGraph` | the flow graph validator | `MCFlowAdmin`, with `FlowAdmin` |
| `FlowGraphProofs` | a theorem about `FlowGraph` | TLAPS |
| `FlowAdmin` | requests on flows, the table, the reload, the engine's cache; extends `FlowGraph` | `MCFlowAdmin`, one run |
| `FlowAdminProofs` | theorems about `FlowAdmin`; extends `FlowGraphProofs` | TLAPS |
| `Tenants` | registration, login, connecting a number | `MCGateway`, with `Gateway` |
| `Gateway` | webhook, tenant cache, stream, credentials cache; extends `Tenants` | `MCGateway`, one run |
| `MessageChannel` | what the gateway promises; abstract, no code of its own | refined by `Gateway` |
| `GatewayProofs` | theorems about `Gateway`, the refinement among them | TLAPS |
| `Dashboard` | one browser tab and what it asks of tenant-api | `MCDashboard`, one run |
| `DashboardProofs` | theorems about `Dashboard` | TLAPS |

### FlowConsumer

A replica is a process with a program counter `pc[w]`. At `"next"` it stands in
`_tick`; the other values are the points of `_process` between two Redis calls.
`ReadGroup` and `Sweep` are XREADGROUP and XAUTOCLAIM; `GiveUp`,
`SkipProcessed`, `NotProcessed` take an entry from the batch (steps 1 and 2 of
`_process`), `WithinRate`/`OverRate` step 3, `AcquireLock`/`LockBusy`/`Requeue`
step 4, `LoadSession`, `Execute`, `SaveSession`, `ReleaseLock` steps 5 to 10,
`MarkProcessed` and `Ack` steps 11 and 12. An exception handler of the code is
an action of its own (`...Fails`, `...Raises`), and `Abandon` is what an
exception that reaches `run()` leaves behind. Around the workers,
the gateway publishes, keys expire (`LockExpire`, `KeyExpire`, `SessionExpire`),
minutes pass (`RollMinute`), replicas die (`Crash`) and the admin API resets a
session together with its lock key (`ResetSession`).

Abstractions. A message is a model value with a conversation. A session is the
set of messages whose turns it holds, which is what losing a turn is about; what
a turn does is `FlowExecutor`. `lock[c]` names the worker that set the key: the
code stores `"1"`, and no guard looks at the name. Time is a free choice: any
key may expire at any moment, and an entry nobody has in memory may be claimed
at any moment. An entry that a worker still has may be claimed too, which takes
that worker ten minutes and counts as a mishap. `dropped`, `runs`, `claims`,
`stolen` and `blind` are histories that no guard reads. The stream keeps what it
was given: the `MAXLEN ~ 10000` of the gateway's XADD and of `_reenqueue` is left
out, so a trim is an exit from the stream that `NoSilentLoss` and
`EveryMessageSettles` do not know (`Gateway` models it, for unread entries).

`Conversations` is the service without Redis and without replicas. A message is
open from its publication until it was run or dropped; the executor runs it at
most once per delivery; and a turn, which in the code is a load, an execution and
a save with any number of steps of others in between, is one atomic step that
adds its message to the stored turns. The mapping of `FlowConsumer`: a message is
open while an entry of it is yet to be delivered or is pending (`Open`), it was
delivered once and once more per claim (`Chances`), and the save is the turn. A
conversation is `Torn` while a worker in it has lost its lock key or could not
load its session: there a turn may overwrite others, and a torn conversation
that everybody has left is whole again (`LossesHeal`).

### FlowExecutor

One conversation. `Receive` starts `execute()` with some text and with whatever
flows are active at that moment; the following steps are `_continue_flow`
(`ContinueReset`, `ContinueNode`), `_start_or_fallback` (`StartFlow`,
`Fallback`) and one `LoopNode` per iteration of `_execute_until_wait_or_end`,
up to `LoopExhausted`; then the consumer saves the session (`Save`), or does not
(`Lose`: a call raised, the process died, the save failed). `DeleteSession` is
the admin API or the TTL. Messages of a conversation come one at a time; that
this is so as long as the lock holds is `FlowConsumer`'s business.

Each node executor is an operator named as in the code; it yields the results
the node may have. A flow is a record of nodes with two targets each: that of
the unconditional transition and one other. A text is an abstract value that
triggers or patterns match or do not. `match_trigger` answers with any flow of
the best rank, because the query behind it has no ORDER BY. Of the slots, those
that hold an answer are kept; the session also carries three histories
(`prompted`, `unasked`, `errors`) that no guard reads.

### KbDocuments

A document is one upload request, with its file, row, jobs and vectors.
`Upload...` and `Delete...` are the calls of the two use cases, in the order of
the code; a request may stop after any of them (`UploadFails`, `DeleteFails`). A
call that takes effect and then fails is the step followed by the failure. The
worker is sequential: `ReadJobs`, `Sweep`, `TakeJob`, then `Purge` for a delete
job or `CheckStatus`, `MarkIndexing`, `Extract`, `Upsert`, `SetIndexed` for an
index job, and `AckJob`. `RunRaises` is any failure inside `_run`, the alarm
included; `SetFailed` its handler. A status update of a deleted row changes
nothing, as an SQL UPDATE does. Here too the stream is never trimmed
(`RedisIndexingQueue.ts` adds with `MAXLEN ~ 10000`): `JobsSettle` is about an
indexer that is less than ten thousand jobs behind.

### FlowGraph and FlowAdmin

`FlowGraph` is `validate()`: `Validate` hands it a graph, `RuleBroken` and
`StartSearch` are rules 1 to 9, one `Visit` is one turn of the breadth-first
loop, `SearchDone` compares. `LeadsToAll` says without a search what it should
find out: every set that holds the entry and is closed under transitions holds
every node. `SearchExact` compares the two, and claims nothing about the other
rules: `ObeysRules` is what the code does, and what it should do is written
nowhere else but in its tests, one of which disagrees (section 3). A config is
kept only as far as a rule asks for it: each offence is one value.

`FlowAdmin` puts it into the requests. A request is at a point between two
queries: `CreateFlow`, `UpdateFind`, `ActivateFind`, `DeleteFind` read; the
validator answers `Refused` (422) or `Accepted`; `CreateInsert`, `UpdateReread`
and `UpdateInsert` (`createNewVersion` reads again and merges again),
`Deactivate` and `SetActive`, `DeleteRow` write. Every write that answers fires
a reload and forgets it (`Reply`). `Contradicted` is a row that is gone by now
or a unique index in the way, which `QueryRaises` turns into a 500. The
validator is synchronous, so no request moves while it runs (`Quiet`).

The engine's side is `PostgresFlowRepo`: two selects (`SelectFlows`,
`SelectNodes`), the store (`StoreFlows`), the minute (`CacheExpires`), and the
admin API's `Reload`. A reload reaches any replica or none (`ReloadLost`).

### Tenants, Gateway, MessageChannel

`Tenants` has one process per registration request: the slug is looked up, then
inserted, then its user; any insert may raise, and the first stays. `Connect`
moves a number, which the table keeps unique.

`Gateway` has a few slots for deliveries that are worked on at a time. `Arrive`
to `Answer` is the webhook up to the 200. Then `execute()` walks the batch:
`IgnoreValue`, or `LookUp` in Redis, `SelectTenant` in Postgres or
`TenantNotFound`, `FillCache`, `Publish`, until `Finish`. `ProcessRaises`
gives up the rest of a batch, `Crash` all deliveries, `Resend` repeats an XADD
whose answer was lost. A stream is a sequence of all that was ever added and the
number of its entries that were read or trimmed. `Serve` and `Drop` are the
credentials lookup with which the engine takes an entry; what it does with it is
`FlowConsumer`.

`MessageChannel` is the promise: per tenant a log that only grows, of messages
of accepted notifications, for numbers the tenant has had, read from its front,
which drops unread entries only beyond `MaxLen`. `Gateway` implements it with
the identity on `accepted`, `owned`, `log`, `read`; caches, slots and accounts
are hidden.

### Dashboard

One tab. The session is `token`, the open page and FlowsPage's dialog. `list` is
the query cache, `fetch` the request under way per query: it carries the token
of the moment it was sent until tenant-api answers it (`ServeFetch`), and
answers arrive later (`FetchReturns`), so that a session may have ended in
between. The same holds for what the buttons send (`calls`). A 401 removes
whatever token there is and loads the document anew (`SessionEnds`); logging out
does neither for the cache. The rules of TanStack Query are modelled as the code
configures it: when a query is fetched, joined, cancelled and started anew, and
what invalidation does to open and closed pages. A DELETE that is answered 204
has no body for `res.json()`: the page reports an error and the list is not
invalidated (`CallReturns`). A fetch that invalidation cancels is dropped. In the
code its request goes on, because `request()` passes no abort signal
(`lib/api.ts:9-21`): a 401 to it would end the session there is, one more of the
late 401s that `calls` already bring.

tenant-api is what it answers: versions of lists, statuses of documents, tokens
that lapse. Requests the pages send without a field that tenant-api asks for
(`tenant_slug` in a login, `name` in an upload) are refused by it as it stands;
the model lets them be refused or served.

## 3. Runs

| Run | Instance | Shows |
|---|---|---|
| `FlowConsumerSafety` | 2 replicas, 2 messages of one conversation, 4 entries, batches of 2, 1 mishap of any kind | `MutualExclusion`, `NoSilentLoss`, `OneRunPerDelivery`, `TurnsSurvive`, `ImplementsConversations` |
| `FlowConsumerLiveness` | 2 replicas, 1 message, 3 entries, 2 mishaps | `EveryMessageSettles`, `LockFreed` |
| `FlowConsumerIdempotency` | 1 replica, 1 message, 1 failing call | a message is executed twice |
| `FlowConsumerLock` | 2 replicas, 2 messages, no mishap | two replicas inside one conversation |
| `FlowExecutor` | all flows of two nodes, a catch-all flow, 3 texts, 3 iterations, 1 retry | `RestsAtOpenNode`, `AnswerMeetsItsPrompt`, `UnaskedOnlyAtEntry`, `SlotsOfThisFlow`, `RetriesBounded`, `StaysInFlow`, `MessageEnds` |
| `FlowExecutorPrompt` | the same | a prompt is skipped |
| `KbDocuments` | 2 documents, one blank, a quota of 1, 2 DELETE requests, batches of 2, 1 failure | `NoResurrection`, `IndexedIsSearchable`, `JobsSettle` |
| `KbPoison` | 1 document, 1 DELETE request, no failure | a job is retried for ever |
| `KbOrphans` | 1 document, 1 DELETE request, 1 failure | vectors of a deleted document stay |
| `FlowAdmin` | 2 requests at a time, 2 rows, 8 graphs, 4 edits, 1 replica, 1 reload under way, 1 failing query | `SoleActive`, `AlwaysServed`, `StoredGraphsWellFormed`, `CachedFlowsWhole`, `ReloadTakesEffect`, `SearchExact`, `CachesConverge` |
| `Gateway` | 2 registrations, 2 numbers, 3 connects, 1 notification of 2 values in 2 deliveries, streams of 1, 1 mishap and 1 failing insert | `RegisteredCanLogin`, `FinishedBatchIsComplete`, `NoExtraCopies`, `OnlyOwners`, `ImplementsChannel`, `RoutingConverges`, `DeliveriesEnd` |
| `Dashboard` | 2 logins of 2 accounts, 2 tours of pages, 1 document, 1 button pressed | `ReadYourWrites`, `NothingFromBeforeTheReload`, `PageCatchesUp` |

All passing runs also check the `TypeOK` of their module, but for the liveness
run, whose instance is the smaller one.

Why the bounds are enough. The conflicts of the consumer are between two
workers in one conversation; a third worker only repeats them, and the proofs
below hold for any number. Four entries leave room for both messages and a
re-enqueued copy of each; a worker that would need a fifth waits (`Room`). One
mishap of every kind at every point, together with expiries, resets and drops
that are free, reaches every handler of the code; the liveness run allows two,
so that a fault can hit a recovery. In the executor two nodes give every pair of
kinds in a row, loops and dangling targets; the code's limits of 20 iterations
and 3 retries become 3 and 1, both of which the runs reach. Flows with three
nodes and more are not enumerated. For documents, each interleaving of interest
is between one document's requests and its job; the second one adds batches and
the quota.

The requests of `FlowAdmin` conflict in pairs, over two flows or two versions of
one; the graphs are one for each kind of rule and those only the search tells apart
(`MaxNodes` is 3 instead of 50). Replicas do not speak to each other, and a
reload that goes to the other one is `ReloadLost` to this one: a second replica
adds nothing. In `Gateway` two deliveries of one notification are the
overlap that matters, three connects let a number leave a tenant and come back,
and a stream that keeps one entry is trimmed at once where the code's keeps ten
thousand. How far a trim may go is taken from Redis and stated once in `Trim` and
once in `MessageChannel`, so that the run says little about the number itself. A tab of `Dashboard` opens the flows page and one of the others
(`Tours`): pages meet only in the session and the cache. One pressed button
suffices for every order of its effect, its answer, fetches, page changes and
logins; two did not finish in the time given to a run.

Deadlock checking is off in every run: a system with no message, no pending
entry and no request left has nothing to do.

Fairness. `FlowConsumer`: the consumer thread of each replica keeps taking
steps (`WF` of `Step(w)`: `run()` catches every exception, and a replica is
restarted), and Redis expires lock keys. `FlowExecutor`: the same thread runs
`execute()`. `KbDocuments`: the worker's loop keeps running, `_tick` comes to
XREADGROUP again and again (`SF` of `ReadJobs`), and its sweep, once a minute
from the head of the pending list, comes round to every entry. `FlowAdmin`: a
thread that asked for flows goes on, and cached entries expire. `Gateway`: the
event loop goes on with what it has answered, keys and tokens expire.
`Dashboard`: the polling timer ticks (`WF` of `Poll`), a list that is asked for
again and again is served at last (`SF` of `ServeFetch("kb")`: tenant-api does
not fail for ever), and an answer that was sent arrives. Nothing is
assumed of users, requests, failures, or flows, and the number of failures is
finite only by its bound.

### Where the code differs from what it says

- `docs/adr/001-redis-streams-over-rabbitmq.md:17` calls the consumer
  idempotent. The key lives five minutes, an entry is claimed again after ten
  (`FlowConsumerIdempotency`). Until something fails, dies or is claimed from a
  worker that still has it, the document is right (`SecondRunTakesMishap`).
- `redis_lock.py:1` promises a lock per conversation. The key expires under its
  holder, and `release()` deletes whatever key it finds (`FlowConsumerLock`).
  `MutualExclusion` states what remains: exclusion holds while no key vanishes
  under its holder, and is back once everybody caught in it has left.
- `node_executors.py:180`: "First entry: send the prompt and wait". At the entry
  of a flow the trigger text is taken for the answer (`FlowExecutorPrompt`).
- `rag_indexer/consumer.py:179-185` acknowledges poisoned messages after three
  retries; the count it reads is never written (`KbPoison`).
- `DeleteDocumentUseCase.ts:26-27`: orphaned vectors "cannot be queried". They
  can (`KbOrphans`), once a call has failed or a process has died, and only then
  (`OrphanTakesFault`).

Also seen, without a run of their own:

- *consumer and executor*: a busy lock can send messages of a conversation to the
  engine in another order; buttons and message nodes with a `collect_slot` never
  read the reply they wait for; the retry count is not reset by a valid answer;
  a message that arrives after its flow was switched off is swallowed; a failed
  executor leaves the message marked as processed, its replies sent and its
  session not saved, and a failed HGETALL starts a new session over the stored
  one; of a value with several messages only the first is taken
  (`consumer.py:318-334`).
- *graph validation*: `FlowGraphValidator.test.ts:215-233` ("top_k cap (20)")
  wants a `rag_lookup` with `top_k` 20 to pass and one with 21 to be refused;
  `FlowGraphValidator.ts:6,124` refuses everything above 10, so that the first of
  these tests fails at this commit. `node_executors.py:252` uses at most 10, too.
  In the model `"top_k_over_10"` is the offence.
- *flows*: the queries of `postgres_flow_repo.py` name columns that migration 002
  does not create (`trigger_config`, `node_type`, `is_entry`), and key nodes by
  row id where transitions name node keys: the models start from flows that were
  loaded. A PUT on a version that has a successor, or a POST with a name in use,
  meets the unique index and ends in a 500. An activation switches off every
  other flow of the tenant, whatever its trigger. Two activations that run into
  each other can leave two flows active, until the next one that runs alone:
  `SoleActive` excepts them (`mixed`). One that fails between its two updates
  leaves none: `AlwaysServed` excepts that (`excused`).
- *gateway*: two notifications that overlap may be published in either order.
  `RedisMessageQueue.ts` counts on Meta's retries to cover a loss, but the answer
  200 is out before XADD. A number that moved is routed to its old tenant, and
  served with the old token, for up to five minutes.
- *accounts*: a registration whose second insert fails leaves a tenant with a
  taken slug and nobody who could log in.
- *dashboard*: a confirmed deletion is reported as an error, and its row stays on
  the screen until the next fetch. A connection made before the settings page has
  its first answer may be shown as missing, until the data is older than 30
  seconds (hence `ReadYourWrites` speaks of lists that were on the screen). A late
  401 of an old session ends the new one. The upload does not look for a 401.
  Logging out does not empty the query cache: the next account in the same tab
  sees the lists of the last one until they are fetched again.

## 4. Proofs

`FlowConsumerProofs` proves for all replicas, conversations, messages, bounds and
mishaps, from `ConsumerAssumption` (well-formed constants, and nothing else) and the
library facts of `FiniteSetTheorems`:

- `TypeCorrect`: `Spec => []TypeOK`. The type invariant is inductive: delivered
  entries are in the stream, everything in memory or on the pending list is
  delivered.
- `LockExcludes`: `Spec => []MutualExclusion`, inductive relative to `TypeOK`. A
  worker gets inside with a free key only, and every step that frees the key of
  a conversation with somebody inside puts it among the `stolen`.
- `NoTurnOverwritten`: `Spec => TurnsSurvive`. It rests on `CopyInv`: between
  load and save, the copy of a worker that is inside, with a live lock and a
  good load, contains the stored session, which may have been wiped since. By
  `MutualExclusion` nobody else can have saved meanwhile.
- `NothingLostSilently`: `Spec => []NoSilentLoss`. The property alone is not
  inductive: acknowledging is safe only because of where the worker comes from.
  `NoLossInv` adds that a worker at `"ack"` has an entry whose message is
  handled, dropped or has another live entry (`AckInv`), and one past the
  executor has run it, as has the message of every idempotency key (`RanInv`).
- `OncePerDelivery`: `Spec => []OneRunPerDelivery`. `Owed(m)` is the set of runs
  of `m` that may still come: entries not yet delivered, in a batch, or held by a
  worker that has not run them. `PaidInv` says that the runs there were and
  `|Owed(m)|` are at most one more than the claims. Reading moves an owed run
  from the stream to a worker, a re-enqueued entry replaces the one it came from,
  and only `Publish` and `Sweep` add to the set.

- `AtomicTurns`: `Spec => ImplementsConversations`, the refinement. Under `Grounds`,
  the invariants above together with `TurnInv`, every step is one of the service or
  leaves it alone (`Tear`, when only who is torn may change): `Publish` and the
  steps that give a message up are their namesakes, `Sweep` is `Redeliver`,
  `Execute` and `ExecuteRaises` are `Run`, `Requeue` is `Reopen`, `SaveSession` is
  `Turn`, an `Ack` that leaves no live entry of its message is `Settle`, expiry and
  reset are `Forget` (`PublishImplements` and its sisters, one lemma per step;
  `SeenSteps` says that there are no others). `TurnInv` is new: what a worker
  saves are turns that were taken, and in a conversation that is not torn they are
  exactly the stored ones and its own, unless the stored ones have been wiped.
- `LossesHeal`: `Spec => [](\A c \in Torn : Inside(c) # {})`. A key can only be lost
  under somebody who is inside, and the last one to leave takes the loss along: the
  exception that `MutualExclusion` and the refinement make does not outlast the
  workers that were caught in it.
- `SecondRunTakesMishap`: `Spec => [](mishaps = 0 => IdempotentConsumer)`. The run
  `FlowConsumerIdempotency` shows a message executed twice; this is where that
  begins. `CalmInv`: without a mishap every pending entry is in a worker's memory,
  so that a sweep finds nothing to claim but what is being worked on.

Each proof has a step per action and names the conjuncts the action disturbs;
`StreamSteps`, `LockSteps`, `SessionSteps` and `ProcessSteps` collect the cases.

`GatewayProofs` proves for all tenants, numbers, notifications, batches and
bounds, from `TenantsAssumption` and `GatewayAssumption`:

- `TypeCorrect`: `Spec => []TypeOK`.
- `OwnersOnly`: `Spec => []OnlyOwners`. Neither the logs nor the tokens alone are
  inductive: what is about to be published was read from a cache, which was
  filled by a delivery that read the table, any number of moves ago. `IInv` adds
  that cached routes were owned (`Routes`), that what a delivery has found was
  owned (`SlotKnows`), and that the entries of a log are messages of accepted
  notifications (`Logs`).
- `Refinement`: `Spec => ImplementsChannel`. Under `IInv` every step is an
  `Accept`, `Own`, `File` or `Take` of the channel, or leaves its variables
  alone; `Publish` and `Resend` are `File`, `Serve` and `Drop` are `Take`.
  A step of the accounts that gives a number to a tenant is `Own`.
- `LoginWorks`: `Spec => []RegisteredCanLogin`. `AccountsInv`: a registration that
  has inserted its tenant has the slug it asked for, and no two rows share one.
- `BatchesComplete`: `Spec => []FinishedBatchIsComplete`. `Passed` says that what a
  delivery has gone past in its batch is published or was nobody's.
- `FewCopies`: `Spec => []NoExtraCopies`. `CopiesInv` counts the copies of a value
  together with the answered deliveries that have not gone past it (`Ahead`):
  both are paid for by an answer or a mishap.

`FlowExecutorProofs` proves for flows of any shape, edits, retry limits and visit
limits, from `ExecutorAssumption`, with one invariant (`IInv`) for all. Every node
executor is shown once to be `Sound`: what it may do to a session of its flow. Then
`SessionInv` (slots are collect_input nodes of the flow, errors are counted),
`Rested` (where a session that may be saved stands: at a waiting node, or at one
whose own transition, or one of a condition's, leads nowhere) and `RunInv` (what a run may
hold at each of its phases) are inductive, and give

- `TypeCorrect`, `OpenNodes` (`RestsAtOpenNode`), `PromptsAndAnswers`
  (`AnswerMeetsItsPrompt`), `EntryOnly` (`UnaskedOnlyAtEntry`), `OwnSlots`
  (`SlotsOfThisFlow`) and `FewErrors` (`RetriesBounded`);
- `NoJump`: `Spec => StaysInFlow`, by `Continues`: while a run that found the
  conversation in a flow is in one, it is the stored one, with its slots.

`KbDocumentsProofs` proves for all documents, jobs, callers and faults, from
`KbAssumption`:

- `TypeCorrect`: `Spec => []TypeOK`.
- `DeletedForGood`: `Spec => []NoResurrection`. `StoresInv` is the order between the
  stores: a row after its file and before its job, a file gone before its row is
  deleted, a delete job only afterwards. By `WorkerInv` a worker about to
  upsert has a document whose vectors no delete job has removed.
- `Searchable`: `Spec => []IndexedIsSearchable`, from the same invariant.
- `OrphanTakesFault`: `Spec => [](faults = 0 => OrphansNotQueryable)`, where the
  divergence that `KbOrphans` shows begins. `FateInv`: without a failure, a deleted
  document has a request about to enqueue its delete job, or such a job that is not
  acknowledged, or has lost its vectors (`Doomed`, `purged`); and a worker that
  acknowledges a delete job has purged.

`DashboardProofs` proves for all accounts, buttons, logins, calls and fetches, from
`DashboardAssumption`:

- `TypeCorrect`: `Spec => []TypeOK`. That versions stay in range needs `CallsInv`:
  the version of a list and the calls still open are at most the calls made.
- `WritesAreRead`: `Spec => []ReadYourWrites`. `WritesInv` says that the change the
  user was told of is in the database, and that an answer under way is at least as
  new: confirming a change cancels the fetches that may have read before it.
- `CacheOfThisLoad`: `Spec => []NothingFromBeforeTheReload`. By `SeenInv` whoever
  asks, and whatever is answered or cached, is of a session since the load.

`FlowGraphProofs` proves for every graph and every `MaxNodes`, from
`FlowGraphAssumption`:

- `SearchIsExact`: `GraphSpec => []SearchExact`. The loop invariant `LoopInv`
  says that all the search has seen are nodes, that a visited node leads to seen
  ones only, and that any set which holds the entry and is closed under
  transitions holds all that was seen. When the queue is empty the visited nodes
  are such a set themselves, hence the least one.

`FlowAdminProofs` proves for all requests, rows, graphs, edits, replicas and
threads, from `FlowAdminAssumption`, with one invariant (`IInv`) for all:

- `TypeCorrect`: `Spec => []TypeOK`. `ReqTyped` says what a request carries at
  each point; that versions stay in range needs `RowsInv`: rows are used in the
  order of their ids, and a version never exceeds the id of its row.
- `StoredWellFormed`: `Spec => []StoredGraphsWellFormed`. `Holds` says what a
  request knows between two queries: at `"reread"`, that merging its edit with
  the row gives a well-formed graph, because the graph of a row never changes
  (`Grows`) and the validator, about whose search `SearchInv` speaks, has
  accepted that merge.
- `OneActiveFlow`, `Served`: `Spec => []SoleActive`, `Spec => []AlwaysServed`.
  `SoleInv` adds that at most one request stands between its two updates, and
  that then nothing but its own flow is active.
- `CachedWhole`: `Spec => []CachedFlowsWhole`. `LoadInv` follows a load: what the
  first select found is or was stored, and rows are never un-deleted.
- `ReloadWorks`: `Spec => []ReloadTakesEffect`. `FreshInv` adds that, at a
  replica a reload has reached since the last write, a load that is under way
  began after that write.
- `AnswersExact`: `Spec => []SearchExact`, in the company of requests.

Every invariant and every action property of the passing runs is proved. Only
model-checked are the liveness properties: liveness under fairness is out of
TLAPS's reach. The runs that end in a violation are counterexamples and need no proof.

## 5. Not modelled

- The HMAC of the signature check, password hashes, JWT, encryption, embeddings,
  the language model: library calls, of which only the outcomes matter.
- Row-level security (`rlsPlugin.ts`, migration 005): which rows a policy lets
  through depends on the database role and on a setting per connection, and the
  plugin's hook runs before the route's `authenticate` has found the tenant. A
  model would have to be one of Postgres and Fastify rather than of this code.
- `server.ts`, `config.ts`, `main.py`: they wire the objects once and in order.
- Listing conversations and flows, the dry run, the heartbeat, health probes,
  renaming a tenant: single reads and writes that nothing else depends on.
- Forms, the flow assistant, toasts, the conversations page and the components of
  the dashboard: presentation, and what a user types is data. A second tab, which
  would change `localStorage` behind the first one.
- Chunking and extraction: what a chunk contains is data to the rest; text and no
  text are told apart.
- The text of messages and replies, JMESPath, HTTP responses.
- Deployment files, but for two facts: two engine replicas, one indexer.

`PROJECT.json` gives the reason part by part.

## 6. Left to do

1. A composition of `Gateway` with `FlowConsumer` through their abstract
   specifications: `File` of a `MessageChannel` as `Publish` of `Conversations`.
   The two count differently: the channel files a copy per delivery of Meta's, and
   each copy is a message of its own to the engine.
2. Abstract specifications of the knowledge base and of the flow administration.
