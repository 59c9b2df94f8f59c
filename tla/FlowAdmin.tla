------------------------------ MODULE FlowAdmin ------------------------------
(***************************************************************************)
(* The flows of one tenant, from the REST requests that change them to the  *)
(* caches of the engine's replicas that serve them: the use cases of        *)
(* tenant-api (application/flows) over PrismaFlowRepo, the reload call they *)
(* fire and forget, and PostgresFlowRepo of the flow engine.                *)
(*                                                                          *)
(* Requests interleave at every query; a query is one step.  A row of the   *)
(* table flows is inserted and deleted together with its nodes.  Validation *)
(* is FlowGraph: it runs to its end before another request goes on.         *)
(*                                                                          *)
(* The engine's queries name columns (trigger_config, node_type, is_entry)  *)
(* that migration 002 does not create.  The model takes a table that has    *)
(* them; on the migrated one every load is a LoadRaises.                    *)
(***************************************************************************)
EXTENDS FlowGraph, FiniteSets

CONSTANTS
    Callers,    \* requests that tenant-api serves at a time
    Names,      \* names of flows
    Edits,      \* bodies of PUT: name, entry and nodes, None where left out
    Replicas,   \* replicas of the engine
    Readers,    \* threads of the engine that ask for flows: consumer, dry run
    Home(_),    \* the replica of a thread
    None,       \* a field that an input leaves out
    MaxRows,    \* bound: rows ever inserted
    MaxReloads, \* bound: reload calls under way
    MaxFaults   \* bound: queries of tenant-api that raise

ASSUME FlowAdminAssumption ==
    /\ \A t \in Readers : Home(t) \in Replicas
    /\ MaxRows \in Nat /\ MaxReloads \in Nat /\ MaxFaults \in Nat
    /\ None \notin Names \cup Keys
    /\ \A d \in Edits : /\ d.name \in Names \cup {None} /\ d.entry \in Keys \cup {None}
                        /\ d.nodes = None \/ d.nodes \in Seq(Node)

VARIABLES
    rows,       \* the table flows: a row per id, "unused" before and "deleted" after
    req,        \* where each request stands
    reloads,    \* reload calls on their way to the engine
    cache,      \* _cache[tenant] of each replica; an expired entry is none
    load,       \* where each thread stands in get_active_flows
    faults,     \* how many queries have raised
    mixed,      \* history: the last activations ran into each other
    excused,    \* history: an activation stopped half-way or a flow was deleted
    fresh       \* history: the replicas a reload has reached since the last write

table   == <<rows, faults>>
engine  == <<reloads, cache, load>>
history == <<mixed, excused, fresh>>
vars    == <<validator, table, req, engine, history>>

Ids     == 1..MaxRows
IsRow(i) == rows[i].state = "stored"
Active  == {i \in Ids : IsRow(i) /\ rows[i].active}
Free    == {i \in Ids : rows[i].state = "unused"}

\* The unique index on (tenant_id, name, version), and that on (flow_id, node_key).
Taken(n, v)    == \E i \in Ids : IsRow(i) /\ rows[i].name = n /\ rows[i].version = v
KeysUnique(g)  == \A i, j \in DOMAIN g.nodes : g.nodes[i].key = g.nodes[j].key => i = j

Idle     == [at |-> "idle"]
Missing  == [at |-> "missing"]
Entry(S) == [at |-> "cached", flows |-> S]
At(c, s) == req[c].at = s
Go(c, r) == req' = [req EXCEPT ![c] = r]

\* validate() is synchronous: while it runs no request takes a step.
Quiet == verdict = "idle"

\* What a request does last: it fires the reload call and answers.
Reply(c) ==
    /\ reloads < MaxReloads
    /\ reloads' = reloads + 1
    /\ Go(c, Idle)

Init ==
    /\ GraphInit
    /\ rows = [i \in Ids |-> [state |-> "unused"]]
    /\ req = [c \in Callers |-> Idle]
    /\ reloads = 0
    /\ cache = [r \in Replicas |-> Missing]
    /\ load = [t \in Readers |-> Idle]
    /\ faults = 0
    /\ mixed = FALSE
    /\ excused = TRUE
    /\ fresh = {}
-----------------------------------------------------------------------------
(* Creating a flow and its versions                                         *)

\* (mutant) a new version takes the place of the one that is active
Insert_Replaces(n, v, g) ==
    /\ ~Taken(n, v)
    /\ KeysUnique(g)
    /\ \E i \in Free :
        /\ \A j \in Free : i <= j
        /\ rows' = [j \in Ids |->
              IF j = i THEN [state |-> "stored", name |-> n, version |-> v,
                             graph |-> g, active |-> FALSE]
              ELSE IF IsRow(j) /\ rows[j].name = n THEN [rows[j] EXCEPT !.active = FALSE]
              ELSE rows[j]]
    /\ fresh' = {}
    /\ UNCHANGED <<faults, mixed, excused>>

\* A new row takes the next id; every write ends what the replicas were told.
Insert(n, v, g) ==
    /\ ~Taken(n, v)
    /\ KeysUnique(g)
    /\ \E i \in Free :
        /\ \A j \in Free : i <= j
        /\ rows' = [rows EXCEPT ![i] =
                       [state |-> "stored", name |-> n, version |-> v, graph |-> g, active |-> FALSE]]
    /\ fresh' = {}
    /\ UNCHANGED <<faults, mixed, excused>>

CreateFlow(c, n, g) ==
    /\ Quiet
    /\ At(c, "idle")
    /\ Free # {}
    /\ Validate(g)
    /\ Go(c, [at |-> "create", name |-> n])
    /\ UNCHANGED <<table, engine, history>>

Or(input, stored) == IF input = None THEN stored ELSE input
Merge(d, g) == [entry |-> Or(d.entry, g.entry), nodes |-> Or(d.nodes, g.nodes)]

\* (mutant) the new entry is not part of what is validated
UpdateFind_OldEntry(c, i, d) ==
    /\ Quiet
    /\ At(c, "idle")
    /\ Free # {}
    /\ IsRow(i)
    /\ Validate(Merge([d EXCEPT !.entry = None], rows[i].graph))
    /\ Go(c, [at |-> "update", id |-> i, edit |-> d])
    /\ UNCHANGED <<table, engine, history>>

\* PUT: the graph to validate is made of the input and of the stored flow.
UpdateFind(c, i, d) ==
    /\ Quiet
    /\ At(c, "idle")
    /\ Free # {}
    /\ IsRow(i)
    /\ Validate(Merge(d, rows[i].graph))
    /\ Go(c, [at |-> "update", id |-> i, edit |-> d])
    /\ UNCHANGED <<table, engine, history>>

\* The answer 422.
Refused(c) ==
    /\ req[c].at \in {"create", "update"}
    /\ verdict = "invalid"
    /\ Answered
    /\ Go(c, Idle)
    /\ UNCHANGED <<table, engine, history>>

Accepted(c) ==
    /\ req[c].at \in {"create", "update"}
    /\ verdict = "valid"
    /\ Answered
    /\ Go(c, IF At(c, "create") THEN [at |-> "insert", name |-> req[c].name, graph |-> graph]
             ELSE [req[c] EXCEPT !.at = "reread"])
    /\ UNCHANGED <<table, engine, history>>

CreateInsert(c) ==
    /\ Quiet
    /\ At(c, "insert")
    /\ Insert(req[c].name, 1, req[c].graph)
    /\ Reply(c)
    /\ UNCHANGED <<validator, cache, load>>

\* createNewVersion reads the stored flow again and merges again.
UpdateReread(c) ==
    /\ Quiet
    /\ At(c, "reread")
    /\ IsRow(req[c].id)
    /\ LET old == rows[req[c].id]
           d   == req[c].edit
       IN  Go(c, [at |-> "version", name |-> Or(d.name, old.name),
                  version |-> old.version + 1, graph |-> Merge(d, old.graph)])
    /\ UNCHANGED <<validator, table, engine, history>>

UpdateInsert(c) ==
    /\ Quiet
    /\ At(c, "version")
    /\ Insert(req[c].name, req[c].version, req[c].graph)
    /\ Reply(c)
    /\ UNCHANGED <<validator, cache, load>>
-----------------------------------------------------------------------------
(* Activating and deleting                                                  *)

ActivateFind(c, i) ==
    /\ Quiet
    /\ At(c, "idle")
    /\ IsRow(i)
    /\ Go(c, [at |-> "clear", id |-> i])
    /\ UNCHANGED <<validator, table, engine, history>>

\* (mutant) only the other versions of the flow are deactivated
Deactivate_Versions(c) ==
    /\ Quiet
    /\ At(c, "clear")
    /\ rows' = [i \in Ids |-> IF /\ i \in Active \ {req[c].id}
                                 /\ IsRow(req[c].id) /\ rows[i].name = rows[req[c].id].name
                              THEN [rows[i] EXCEPT !.active = FALSE] ELSE rows[i]]
    /\ Go(c, [req[c] EXCEPT !.at = "set"])
    /\ mixed' = (\E d \in Callers : At(d, "set"))
    /\ fresh' = {}
    /\ UNCHANGED <<validator, faults, engine, excused>>

\* deactivateByTrigger: every other active flow of the tenant, whatever its trigger.
Deactivate(c) ==
    /\ Quiet
    /\ At(c, "clear")
    /\ rows' = [i \in Ids |-> IF i \in Active \ {req[c].id}
                              THEN [rows[i] EXCEPT !.active = FALSE] ELSE rows[i]]
    /\ Go(c, [req[c] EXCEPT !.at = "set"])
    /\ mixed' = (\E d \in Callers : At(d, "set"))
    /\ fresh' = {}
    /\ UNCHANGED <<validator, faults, engine, excused>>

SetActive(c) ==
    /\ Quiet
    /\ At(c, "set")
    /\ IsRow(req[c].id)
    /\ rows' = [rows EXCEPT ![req[c].id].active = TRUE]
    /\ Reply(c)
    /\ excused' = FALSE
    /\ fresh' = {}
    /\ UNCHANGED <<validator, faults, cache, load, mixed>>

DeleteFind(c, i) ==
    /\ Quiet
    /\ At(c, "idle")
    /\ IsRow(i)
    /\ Go(c, [at |-> "erase", id |-> i])
    /\ UNCHANGED <<validator, table, engine, history>>

DeleteRow(c) ==
    /\ Quiet
    /\ At(c, "erase")
    /\ IsRow(req[c].id)
    /\ rows' = [rows EXCEPT ![req[c].id] = [state |-> "deleted"]]
    /\ Reply(c)
    /\ excused' = (excused \/ rows[req[c].id].active)
    /\ fresh' = {}
    /\ UNCHANGED <<validator, faults, cache, load, mixed>>

\* The row is gone, or a unique index refuses the insert: the answer 500.
Contradicted(c) ==
    \/ req[c].at \in {"reread", "set", "erase"} /\ ~IsRow(req[c].id)
    \/ At(c, "insert") /\ (Taken(req[c].name, 1) \/ ~KeysUnique(req[c].graph))
    \/ At(c, "version") /\ (Taken(req[c].name, req[c].version) \/ ~KeysUnique(req[c].graph))

\* A query raises, for a reason of its own or for that; nothing is rolled back.
QueryRaises(c) ==
    /\ Quiet
    /\ ~At(c, "idle")
    /\ \/ Contradicted(c) /\ UNCHANGED faults
       \/ ~Contradicted(c) /\ faults < MaxFaults /\ faults' = faults + 1
    /\ Go(c, Idle)
    /\ excused' = (excused \/ At(c, "set"))
    /\ UNCHANGED <<validator, rows, engine, mixed, fresh>>
-----------------------------------------------------------------------------
(* The engine                                                               *)

\* (mutant) a reload answers and leaves the entry where it is
Reload_Keeps(r) ==
    /\ reloads > 0
    /\ reloads' = reloads - 1
    /\ fresh' = IF \A t \in Readers : Home(t) = r => load[t] = Idle
                THEN fresh \cup {r} ELSE fresh
    /\ UNCHANGED <<validator, table, req, cache, load, mixed, excused>>

\* (mutant) a call that was answered is delivered once more
Reload_Twice(r) ==
    /\ reloads' = reloads - 1
    /\ cache' = [cache EXCEPT ![r] = Missing]
    /\ fresh' = {}
    /\ UNCHANGED <<validator, table, req, load, mixed, excused>>

\* The admin API of the replica that the call reaches drops its entry.
Reload(r) ==
    /\ reloads > 0
    /\ reloads' = reloads - 1
    /\ cache' = [cache EXCEPT ![r] = Missing]
    /\ fresh' = IF \A t \in Readers : Home(t) = r => load[t] = Idle
                THEN fresh \cup {r} ELSE fresh
    /\ UNCHANGED <<validator, table, req, load, mixed, excused>>

\* No replica answers, and nobody hears of it.
ReloadLost ==
    /\ reloads > 0
    /\ reloads' = reloads - 1
    /\ UNCHANGED <<validator, table, req, cache, load, history>>

\* (mutant) entries do not expire
CacheExpires_Never(r) == FALSE

CacheExpires(r) ==
    /\ cache[r] # Missing
    /\ cache' = [cache EXCEPT ![r] = Missing]
    /\ UNCHANGED <<validator, table, req, reloads, load, history>>

\* A miss: the active flows, without their nodes.
SelectFlows(t) ==
    /\ load[t] = Idle
    /\ cache[Home(t)] = Missing
    /\ load' = [load EXCEPT ![t] =
                   [at    |-> IF Active = {} THEN "store" ELSE "nodes",
                    flows |-> {[id |-> i, whole |-> FALSE] : i \in Active}]]
    /\ UNCHANGED <<validator, table, req, reloads, cache, history>>

\* (mutant) the nodes are selected for the flows that are active by now
SelectNodes_Active(t) ==
    /\ load[t].at = "nodes"
    /\ load' = [load EXCEPT ![t] =
                   [at    |-> "store",
                    flows |-> {[id |-> f.id, whole |-> f.id \in Active] : f \in load[t].flows}]]
    /\ UNCHANGED <<validator, table, req, reloads, cache, history>>

SelectNodes(t) ==
    /\ load[t].at = "nodes"
    /\ load' = [load EXCEPT ![t] =
                   [at    |-> "store",
                    flows |-> {[id |-> f.id, whole |-> IsRow(f.id)] : f \in load[t].flows}]]
    /\ UNCHANGED <<validator, table, req, reloads, cache, history>>

StoreFlows(t) ==
    /\ load[t].at = "store"
    /\ cache' = [cache EXCEPT ![Home(t)] = Entry(load[t].flows)]
    /\ load' = [load EXCEPT ![t] = Idle]
    /\ UNCHANGED <<validator, table, req, reloads, history>>

LoadRaises(t) ==
    /\ load[t] # Idle
    /\ load' = [load EXCEPT ![t] = Idle]
    /\ UNCHANGED <<validator, table, req, reloads, cache, history>>
-----------------------------------------------------------------------------

Create(c) ==
    \/ \E n \in Names, g \in Graphs : CreateFlow(c, n, g)
    \/ CreateInsert(c)

Update(c) ==
    \/ \E i \in Ids, d \in Edits : UpdateFind(c, i, d)
    \/ UpdateReread(c)
    \/ UpdateInsert(c)

Activate(c) == (\E i \in Ids : ActivateFind(c, i)) \/ Deactivate(c) \/ SetActive(c)
Delete(c)   == (\E i \in Ids : DeleteFind(c, i)) \/ DeleteRow(c)

Request(c) == Create(c) \/ Update(c) \/ Activate(c) \/ Delete(c)
              \/ Refused(c) \/ Accepted(c) \/ QueryRaises(c)

Get(t) == SelectFlows(t) \/ SelectNodes(t) \/ StoreFlows(t) \/ LoadRaises(t)

Next ==
    \/ \E c \in Callers : Request(c)
    \/ Search /\ UNCHANGED <<table, req, engine, history>>
    \/ \E r \in Replicas : Reload(r) \/ CacheExpires(r)
    \/ ReloadLost
    \/ \E t \in Readers : Get(t)

Spec == Init /\ [][Next]_vars

\* A thread that asked for flows goes on, and a minute passes.
FairSpec ==
    /\ Spec
    /\ \A t \in Readers : WF_vars(SelectNodes(t) \/ StoreFlows(t) \/ LoadRaises(t))
    /\ \A r \in Replicas : WF_vars(CacheExpires(r))
-----------------------------------------------------------------------------
(* Properties                                                               *)

CachedFlow == [id : Ids, whole : BOOLEAN]
Row == [state : {"stored"}, name : Names, version : 1..(MaxRows + 1),
        graph : Graph, active : BOOLEAN]

TypeOK ==
    /\ rows \in [Ids -> Row \cup [state : {"unused", "deleted"}]]
    /\ \A c \in Callers : req[c].at \in {"idle", "create", "update", "insert", "reread",
                                         "version", "clear", "set", "erase"}
    /\ reloads \in 0..MaxReloads
    /\ cache \in [Replicas -> {Missing} \cup [at : {"cached"}, flows : SUBSET CachedFlow]]
    /\ load \in [Readers -> {Idle} \cup [at : {"nodes", "store"}, flows : SUBSET CachedFlow]]
    /\ faults \in 0..MaxFaults
    /\ mixed \in BOOLEAN /\ excused \in BOOLEAN
    /\ fresh \subseteq Replicas

\* ActivateFlowUseCase: "Deactivate other flows with overlapping triggers before
\* activating this one".  A tenant has one active flow at most, also between the
\* two updates and after a failure of either, unless activations ran into each
\* other; the next activation that runs alone puts that right.
SoleActive == ~mixed => Cardinality(Active) <= 1

\* ActivateFlowUseCase, DeleteFlowUseCase: a tenant that has activated a flow
\* keeps an active one while requests come and go.  It is without one only while
\* an activation stands between its updates, after one stopped there, or after
\* the active flow itself was deleted.
AlwaysServed == excused \/ Active # {} \/ \E c \in Callers : At(c, "set")

\* UpdateFlowUseCase, createNewVersion: the graph is validated against one read
\* of the flow and stored after another.  What is stored has been validated as it
\* stands: every stored graph is well formed and has no two nodes of one key.
StoredGraphsWellFormed ==
    \A i \in Ids : IsRow(i) => WellFormed(rows[i].graph) /\ KeysUnique(rows[i].graph)

\* PostgresFlowRepo._load_from_db: the flows and their nodes come from two
\* queries.  A flow that is served without nodes has been deleted in between.
CachedFlowsWhole ==
    \A r \in Replicas : cache[r] # Missing =>
        \A f \in cache[r].flows : f.whole \/ rows[f.id].state = "deleted"

\* PostgresFlowRepo.reload_tenant, runbook "Force reload tenant flow cache": once
\* a reload has reached a replica that was not loading, and until the next write,
\* the replica serves exactly the flows that are active.
ReloadTakesEffect ==
    \A r \in fresh : cache[r] # Missing => cache[r] = Entry({[id |-> i, whole |-> TRUE] : i \in Active})

\* README "activating a new flow", postgres_flow_repo "just let the cache expire
\* in 60s": when the requests stop, both replicas come to serve what is active,
\* whatever became of the reload calls and of the loads that raced them.
CachesConverge ==
    <>[][FALSE]_rows =>
        <>[](\A r \in Replicas : cache[r] # Missing => {f.id : f \in cache[r].flows} = Active)
=============================================================================
