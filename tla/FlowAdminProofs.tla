--------------------------- MODULE FlowAdminProofs ---------------------------
(***************************************************************************)
(* Proofs about FlowAdmin, for any number of requests, rows, replicas and   *)
(* threads, every graph and every edit.                                     *)
(***************************************************************************)
EXTENDS FlowAdmin, FlowGraphProofs, FiniteSetTheorems

-----------------------------------------------------------------------------
(* The inductive invariant *)

Reqs ==
    {Idle}
    \cup [at : {"create"}, name : Names]
    \cup [at : {"update", "reread"}, id : Ids, edit : Edits]
    \cup [at : {"insert"}, name : Names, graph : Graph]
    \cup [at : {"version"}, name : Names, version : Nat \ {0}, graph : Graph]
    \cup [at : {"clear", "set", "erase"}, id : Ids]

ReqTyped == req \in [Callers -> Reqs]

Used(i) == rows[i].state # "unused"

\* Rows are used in the order of their ids, so that a version never exceeds the id
\* of its row; every stored graph has been validated as it stands.
RowsInv ==
    /\ \A i, j \in Ids : i < j /\ Used(j) => Used(i)
    /\ \A i \in Ids : IsRow(i) =>
          rows[i].version <= i /\ WellFormed(rows[i].graph) /\ KeysUnique(rows[i].graph)

Validating(c) == req[c].at \in {"create", "update"}

\* What a request holds between two queries.
Holds(c) ==
    /\ Validating(c) => verdict # "idle"
    /\ At(c, "update") => IsRow(req[c].id) /\ graph = Merge(req[c].edit, rows[req[c].id].graph)
    /\ At(c, "reread") =>
          /\ Used(req[c].id)
          /\ IsRow(req[c].id) => WellFormed(Merge(req[c].edit, rows[req[c].id].graph))
    /\ At(c, "insert") => WellFormed(req[c].graph)
    /\ At(c, "version") =>
          /\ WellFormed(req[c].graph)
          /\ \E i \in Ids : Used(i) /\ req[c].version <= i + 1
    /\ req[c].at \in {"clear", "set", "erase"} => Used(req[c].id)

RequestsInv ==
    /\ \A c \in Callers : Holds(c)
    /\ \A c, d \in Callers : Validating(c) /\ Validating(d) => c = d

\* While activations do not run into each other, one request at most stands between
\* its updates, and then nothing but its own flow is active.
SoleInv ==
    ~mixed =>
       /\ \A i, j \in Active : i = j
       /\ \A c \in Callers : At(c, "set") => Active \subseteq {req[c].id}
       /\ \A c, d \in Callers : At(c, "set") /\ At(d, "set") => c = d

Serving(whole) == {[id |-> i, whole |-> whole] : i \in Active}

\* What a thread has loaded so far are flows that are or were stored.
LoadInv ==
    /\ \A t \in Readers : load[t].at = "nodes" => \A f \in load[t].flows : Used(f.id)
    /\ \A t \in Readers : load[t].at = "store" =>
          \A f \in load[t].flows : f.whole \/ rows[f.id].state = "deleted"
    /\ CachedFlowsWhole

\* At a replica that a reload has reached since the last write, every load that is
\* under way began after that write.
FreshInv ==
    /\ ReloadTakesEffect
    /\ \A t \in Readers : Home(t) \in fresh =>
          /\ load[t].at = "nodes" => load[t].flows = Serving(FALSE)
          /\ load[t].at = "store" => load[t].flows = Serving(TRUE)

TypeInv == TypeOK /\ ReqTyped /\ SearchInv
TableInv == RowsInv /\ RequestsInv
IInv == TypeInv /\ TableInv /\ SoleInv /\ AlwaysServed /\ LoadInv /\ FreshInv

-----------------------------------------------------------------------------
(* Lemmas *)

LEMMA RowTyped ==
    ASSUME TypeOK, NEW i \in Ids, IsRow(i)
    PROVE  /\ rows[i] \in Row
           /\ rows[i].name \in Names /\ rows[i].version \in Nat \ {0}
           /\ rows[i].graph \in Graph /\ rows[i].active \in BOOLEAN
  <1>1. rows[i] \in Row \cup [state : {"unused", "deleted"}]
    BY DEF TypeOK
  <1>2. rows[i] \in Row
    BY <1>1 DEF IsRow
  <1> QED
    BY <1>2, FlowAdminAssumption DEF Row

LEMMA GoTyped ==
    ASSUME ReqTyped, NEW c \in Callers, NEW r \in Reqs, Go(c, r)
    PROVE  /\ ReqTyped'
           /\ req'[c] = r
           /\ \A d \in Callers \ {c} : req'[d] = req[d]
  BY DEF ReqTyped, Go

LEMMA IdleReq == Idle \in Reqs
  BY DEF Reqs

\* What a request is, by where it stands.
LEMMA ReqShape ==
    ASSUME ReqTyped, NEW c \in Callers
    PROVE  /\ req[c] \in Reqs
           /\ At(c, "create") => req[c] \in [at : {"create"}, name : Names]
           /\ req[c].at \in {"update", "reread"} =>
                 req[c] \in [at : {"update", "reread"}, id : Ids, edit : Edits]
           /\ At(c, "insert") => req[c] \in [at : {"insert"}, name : Names, graph : Graph]
           /\ At(c, "version") =>
                 req[c] \in [at : {"version"}, name : Names, version : Nat \ {0}, graph : Graph]
           /\ req[c].at \in {"clear", "set", "erase"} =>
                 req[c] \in [at : {"clear", "set", "erase"}, id : Ids]
           /\ req[c].at \in {"idle", "create", "update", "insert", "reread",
                             "version", "clear", "set", "erase"}
  BY DEF ReqTyped, Reqs, At, Idle

LEMMA MergeTyped ==
    ASSUME NEW d \in Edits, NEW g \in Graph
    PROVE  Merge(d, g) \in Graph
  <1>1. Or(d.entry, g.entry) \in Keys /\ Or(d.nodes, g.nodes) \in Seq(Node)
    BY FlowAdminAssumption DEF Graph, Or
  <1> QED
    BY <1>1 DEF Merge, Graph

\* A new row takes the first free id, is not active, and leaves the others alone.
LEMMA InsertRow ==
    ASSUME TypeOK, RowsInv, NEW n \in Names, NEW v \in Nat \ {0}, NEW g \in Graph,
           v = 1 \/ \E j \in Ids : Used(j) /\ v <= j + 1,
           Insert(n, v, g)
    PROVE  \E i \in Ids :
              /\ ~Used(i) /\ \A j \in Ids : j < i => Used(j)
              /\ rows' \in [Ids -> Row \cup [state : {"unused", "deleted"}]]
              /\ rows'[i] = [state |-> "stored", name |-> n, version |-> v,
                             graph |-> g, active |-> FALSE]
              /\ v <= i
              /\ \A j \in Ids \ {i} : rows'[j] = rows[j]
              /\ Active' = Active
  <1> DEFINE new == [state |-> "stored", name |-> n, version |-> v, graph |-> g, active |-> FALSE]
  <1>1. PICK i \in Free : (\A j \in Free : i <= j) /\ rows' = [rows EXCEPT ![i] = new]
    BY DEF Insert
  <1>2. i \in Ids /\ ~Used(i) /\ i \in Nat /\ i >= 1 /\ i <= MaxRows
    BY FlowAdminAssumption DEF Free, Used, Ids
  <1>3. \A j \in Ids : j < i => Used(j)
    BY <1>1 DEF Free, Used, Ids
  <1>4. v <= i
    <2>1. CASE v = 1
      BY <1>2, <2>1
    <2>2. ASSUME NEW j \in Ids, Used(j), v <= j + 1
          PROVE  v <= i
      <3>1. ~(i < j)
        BY <1>2, <2>2 DEF RowsInv
      <3>2. i # j
        BY <1>2, <2>2
      <3> QED
        BY <1>2, <2>2, <3>1, <3>2, FlowAdminAssumption DEF Ids
    <2> QED
      BY <2>1, <2>2
  <1>5. new \in Row
    BY <1>2, <1>4, FlowAdminAssumption DEF Row
  <1>6. rows \in [Ids -> Row \cup [state : {"unused", "deleted"}]]
    BY DEF TypeOK
  <1> HIDE DEF new
  <1>7. /\ rows' \in [Ids -> Row \cup [state : {"unused", "deleted"}]]
        /\ rows'[i] = new
        /\ \A j \in Ids \ {i} : rows'[j] = rows[j]
    BY <1>1, <1>2, <1>5, <1>6
  <1>8. Active' = Active
    <2>1. i \notin Active
      BY <1>2 DEF Active, IsRow, Used
    <2>2. ~new.active
      BY DEF new
    <2> QED
      BY <1>7, <2>1, <2>2 DEF Active, IsRow
  <1> QED
    BY <1>2, <1>3, <1>4, <1>7, <1>8 DEF new

\* The steps of the requests, one by one: where they lead, and what they do to the
\* rest of the state.
LEMMA FindStep ==
    ASSUME ReqTyped, NEW c \in Callers,
           \/ \E n \in Names, g \in Graphs : CreateFlow(c, n, g)
           \/ \E i \in Ids, d \in Edits : UpdateFind(c, i, d)
           \/ UpdateReread(c)
           \/ \E i \in Ids : ActivateFind(c, i) \/ DeleteFind(c, i)
           \/ Refused(c)
           \/ Accepted(c)
    PROVE  UNCHANGED <<table, engine, history>>
  BY DEF CreateFlow, UpdateFind, UpdateReread, ActivateFind, DeleteFind, Refused, Accepted

-----------------------------------------------------------------------------
(* Type correctness *)

LEMMA RequestTyped ==
    ASSUME TypeInv, TableInv, NEW c \in Callers, Request(c)
    PROVE  ReqTyped'
  <1> USE DEF TypeInv
  <1>0. ASSUME NEW r \in Reqs, Go(c, r)
        PROVE  ReqTyped'
    BY <1>0, GoTyped
  <1>1. ASSUME NEW n \in Names, NEW g \in Graphs, CreateFlow(c, n, g)
        PROVE  ReqTyped'
    <2>1. [at |-> "create", name |-> n] \in Reqs
      BY DEF Reqs
    <2> QED
      BY <1>0, <1>1, <2>1 DEF CreateFlow
  <1>2. ASSUME NEW i \in Ids, NEW d \in Edits, UpdateFind(c, i, d)
        PROVE  ReqTyped'
    <2>1. [at |-> "update", id |-> i, edit |-> d] \in Reqs
      BY DEF Reqs
    <2> QED
      BY <1>0, <1>2, <2>1 DEF UpdateFind
  <1>3. ASSUME NEW i \in Ids, ActivateFind(c, i)
        PROVE  ReqTyped'
    <2>1. [at |-> "clear", id |-> i] \in Reqs
      BY DEF Reqs
    <2> QED
      BY <1>0, <1>3, <2>1 DEF ActivateFind
  <1>4. ASSUME NEW i \in Ids, DeleteFind(c, i)
        PROVE  ReqTyped'
    <2>1. [at |-> "erase", id |-> i] \in Reqs
      BY DEF Reqs
    <2> QED
      BY <1>0, <1>4, <2>1 DEF DeleteFind
  <1>5. CASE CreateInsert(c) \/ UpdateInsert(c) \/ SetActive(c) \/ DeleteRow(c)
             \/ Refused(c) \/ QueryRaises(c)
    <2>1. Go(c, Idle)
      BY <1>5 DEF CreateInsert, UpdateInsert, SetActive, DeleteRow, Refused, QueryRaises, Reply
    <2> QED
      BY <1>0, <2>1, IdleReq
  <1>6. CASE Accepted(c)
    <2>1. graph \in Graph
      BY <1>6 DEF Accepted, SearchInv
    <2>2. CASE At(c, "create")
      <3>1. [at |-> "insert", name |-> req[c].name, graph |-> graph] \in Reqs
        BY <2>1, <2>2, ReqShape DEF Reqs
      <3> QED
        BY <1>0, <1>6, <2>2, <3>1 DEF Accepted
    <2>3. CASE ~At(c, "create")
      <3>1. req[c] \in [at : {"update", "reread"}, id : Ids, edit : Edits]
        BY <1>6, <2>3, ReqShape DEF Accepted, At
      <3>2. [req[c] EXCEPT !.at = "reread"] \in Reqs
        BY <3>1 DEF Reqs
      <3> QED
        BY <1>0, <1>6, <2>3, <3>2 DEF Accepted
    <2> QED
      BY <2>2, <2>3
  <1>7. CASE UpdateReread(c)
    <2> DEFINE old == rows[req[c].id]
               d   == req[c].edit
    <2>1. req[c].id \in Ids /\ d \in Edits
      BY <1>7, ReqShape DEF UpdateReread, At
    <2>2. old.name \in Names /\ old.version \in Nat \ {0} /\ old.graph \in Graph
      BY <1>7, <2>1, RowTyped DEF UpdateReread
    <2>3. Or(d.name, old.name) \in Names /\ old.version + 1 \in Nat \ {0}
      BY <2>1, <2>2, FlowAdminAssumption DEF Or
    <2>4. [at |-> "version", name |-> Or(d.name, old.name),
           version |-> old.version + 1, graph |-> Merge(d, old.graph)] \in Reqs
      BY <2>1, <2>2, <2>3, MergeTyped DEF Reqs
    <2> QED
      BY <1>0, <1>7, <2>4 DEF UpdateReread
  <1>8. CASE Deactivate(c)
    <2>1. req[c] \in [at : {"clear", "set", "erase"}, id : Ids]
      BY <1>8, ReqShape DEF Deactivate, At
    <2>2. [req[c] EXCEPT !.at = "set"] \in Reqs
      BY <2>1 DEF Reqs
    <2> QED
      BY <1>0, <1>8, <2>2 DEF Deactivate
  <1> QED
    BY <1>1, <1>2, <1>3, <1>4, <1>5, <1>6, <1>7, <1>8
       DEF Request, Create, Update, Activate, Delete

\* What TypeOK says of everything but the requests.
RestTyped ==
    /\ rows \in [Ids -> Row \cup [state : {"unused", "deleted"}]]
    /\ reloads \in 0..MaxReloads
    /\ cache \in [Replicas -> {Missing} \cup [at : {"cached"}, flows : SUBSET CachedFlow]]
    /\ load \in [Readers -> {Idle} \cup [at : {"nodes", "store"}, flows : SUBSET CachedFlow]]
    /\ faults \in 0..MaxFaults
    /\ mixed \in BOOLEAN /\ excused \in BOOLEAN
    /\ fresh \subseteq Replicas

LEMMA RestOfType ==
    ASSUME TypeOK
    PROVE  RestTyped
  BY DEF TypeOK, RestTyped

\* An insert by a request that holds a version for it.
LEMMA WritesRow ==
    ASSUME TypeInv, TableInv, NEW c \in Callers, CreateInsert(c) \/ UpdateInsert(c)
    PROVE  \E n \in Names, v \in Nat \ {0}, g \in Graph :
              /\ Insert(n, v, g)
              /\ v = 1 \/ \E j \in Ids : Used(j) /\ v <= j + 1
              /\ WellFormed(g)
  <1> USE DEF TypeInv, TableInv, RequestsInv
  <1>1. CASE CreateInsert(c)
    <2>1. req[c].name \in Names /\ req[c].graph \in Graph /\ Insert(req[c].name, 1, req[c].graph)
      BY <1>1, ReqShape DEF CreateInsert
    <2>2. WellFormed(req[c].graph)
      BY <1>1 DEF CreateInsert, Holds
    <2> QED
      BY <2>1, <2>2
  <1>2. CASE UpdateInsert(c)
    <2>1. /\ req[c].name \in Names /\ req[c].graph \in Graph /\ req[c].version \in Nat \ {0}
          /\ Insert(req[c].name, req[c].version, req[c].graph)
      BY <1>2, ReqShape DEF UpdateInsert
    <2>2. /\ WellFormed(req[c].graph)
          /\ \E j \in Ids : Used(j) /\ req[c].version <= j + 1
      BY <1>2 DEF UpdateInsert, Holds
    <2> QED
      BY <2>1, <2>2
  <1> QED
    BY <1>1, <1>2

LEMMA RequestRest ==
    ASSUME TypeInv, TableInv, NEW c \in Callers, Request(c)
    PROVE  RestTyped'
  <1> USE FlowAdminAssumption
  <1>0. RestTyped
    BY RestOfType DEF TypeInv
  <1>1. CASE UNCHANGED <<table, engine, history>>
    BY <1>0, <1>1 DEF RestTyped, table, engine, history
  <1>2. CASE CreateInsert(c) \/ UpdateInsert(c)
    <2>1. rows' \in [Ids -> Row \cup [state : {"unused", "deleted"}]]
      BY <1>2, WritesRow, InsertRow DEF TypeInv, TableInv
    <2>2. Reply(c) /\ fresh' = {} /\ UNCHANGED <<faults, mixed, excused, cache, load>>
      BY <1>2 DEF CreateInsert, UpdateInsert, Insert
    <2> QED
      BY <1>0, <2>1, <2>2 DEF RestTyped, Reply
  <1>3. CASE Deactivate(c)
    <2>1. \A i \in Active : [rows[i] EXCEPT !.active = FALSE] \in Row
      BY RowTyped DEF TypeInv, Active, Row
    <2>2. rows' \in [Ids -> Row \cup [state : {"unused", "deleted"}]]
      BY <1>0, <1>3, <2>1 DEF Deactivate, RestTyped
    <2> QED
      BY <1>0, <1>3, <2>2 DEF RestTyped, Deactivate, engine
  <1>4. CASE SetActive(c)
    <2> DEFINE i == req[c].id
    <2>1. i \in Ids /\ IsRow(i) /\ rows' = [rows EXCEPT ![i].active = TRUE]
      BY <1>4, ReqShape DEF SetActive, TypeInv, At
    <2> HIDE DEF i
    <2>2. [rows[i] EXCEPT !.active = TRUE] \in Row
      BY <2>1, RowTyped DEF TypeInv, Row
    <2>3. rows' \in [Ids -> Row \cup [state : {"unused", "deleted"}]]
      BY <1>0, <2>1, <2>2 DEF RestTyped
    <2>4. /\ Reply(c) /\ excused' = FALSE /\ fresh' = {}
          /\ UNCHANGED <<faults, cache, load, mixed>>
      BY <1>4 DEF SetActive
    <2>5. reloads' \in 0..MaxReloads
      BY <1>0, <2>4 DEF RestTyped, Reply
    <2>6. mixed' \in BOOLEAN /\ excused' \in BOOLEAN /\ fresh' \subseteq Replicas
      BY <1>0, <2>4 DEF RestTyped
    <2> QED
      BY <1>0, <2>3, <2>4, <2>5, <2>6 DEF RestTyped
  <1>5. CASE DeleteRow(c)
    <2> DEFINE i == req[c].id
    <2>1. i \in Ids /\ IsRow(i) /\ rows' = [rows EXCEPT ![i] = [state |-> "deleted"]]
      BY <1>5, ReqShape DEF DeleteRow, TypeInv, At
    <2> HIDE DEF i
    <2>2. rows' \in [Ids -> Row \cup [state : {"unused", "deleted"}]]
      BY <1>0, <2>1 DEF RestTyped
    <2>3. excused' \in BOOLEAN
      BY <1>5 DEF DeleteRow
    <2> QED
      BY <1>0, <1>5, <2>2, <2>3 DEF RestTyped, DeleteRow, Reply
  <1>6. CASE QueryRaises(c)
    <2>1. excused' \in BOOLEAN
      BY <1>6 DEF QueryRaises
    <2>2. faults' \in 0..MaxFaults
      BY <1>0, <1>6 DEF QueryRaises, RestTyped
    <2> QED
      BY <1>0, <1>6, <2>1, <2>2 DEF RestTyped, QueryRaises, engine
  <1>7. ASSUME \/ \E n \in Names, g \in Graphs : CreateFlow(c, n, g)
               \/ \E i \in Ids, d \in Edits : UpdateFind(c, i, d)
               \/ UpdateReread(c)
               \/ \E i \in Ids : ActivateFind(c, i) \/ DeleteFind(c, i)
               \/ Refused(c)
               \/ Accepted(c)
        PROVE  RestTyped'
    BY <1>1, <1>7, FindStep DEF TypeInv
  <1> QED
    BY <1>2, <1>3, <1>4, <1>5, <1>6, <1>7
       DEF Request, Create, Update, Activate, Delete

LEMMA EngineRest ==
    ASSUME TypeInv,
           \/ \E r \in Replicas : Reload(r) \/ CacheExpires(r)
           \/ ReloadLost
           \/ \E t \in Readers : Get(t)
    PROVE  RestTyped' /\ UNCHANGED <<validator, table, req, mixed, excused>>
  <1> USE FlowAdminAssumption
  <1>0. RestTyped
    BY RestOfType DEF TypeInv
  <1>1. ASSUME NEW r \in Replicas, Reload(r)
        PROVE  RestTyped' /\ UNCHANGED <<validator, table, req, mixed, excused>>
    BY <1>0, <1>1 DEF Reload, RestTyped, table
  <1>2. ASSUME NEW r \in Replicas, CacheExpires(r)
        PROVE  RestTyped' /\ UNCHANGED <<validator, table, req, mixed, excused>>
    BY <1>0, <1>2 DEF CacheExpires, RestTyped, table, history
  <1>3. CASE ReloadLost
    BY <1>0, <1>3 DEF ReloadLost, RestTyped, table, history
  <1>4. ASSUME NEW t \in Readers, SelectFlows(t)
        PROVE  RestTyped' /\ UNCHANGED <<validator, table, req, mixed, excused>>
    <2> DEFINE F == {[id |-> i, whole |-> FALSE] : i \in Active}
    <2>1. F \in SUBSET CachedFlow
      <3>1. \A i \in Active : [id |-> i, whole |-> FALSE] \in CachedFlow
        BY DEF CachedFlow, Active
      <3> QED
        BY <3>1
    <2> HIDE DEF F
    <2>2. load' \in [Readers -> {Idle} \cup [at : {"nodes", "store"}, flows : SUBSET CachedFlow]]
      BY <1>0, <1>4, <2>1 DEF SelectFlows, RestTyped, F
    <2> QED
      BY <1>0, <1>4, <2>2 DEF SelectFlows, RestTyped, table, history
  <1>5. ASSUME NEW t \in Readers, SelectNodes(t)
        PROVE  RestTyped' /\ UNCHANGED <<validator, table, req, mixed, excused>>
    <2> DEFINE F == {[id |-> f.id, whole |-> IsRow(f.id)] : f \in load[t].flows}
    <2>0. load[t].flows \subseteq CachedFlow
      BY <1>0, <1>5 DEF SelectNodes, RestTyped, Idle
    <2>1. F \in SUBSET CachedFlow
      <3>1. \A f \in load[t].flows : [id |-> f.id, whole |-> IsRow(f.id)] \in CachedFlow
        BY <2>0 DEF CachedFlow, IsRow
      <3> QED
        BY <3>1
    <2> HIDE DEF F
    <2>2. load' \in [Readers -> {Idle} \cup [at : {"nodes", "store"}, flows : SUBSET CachedFlow]]
      BY <1>0, <1>5, <2>1 DEF SelectNodes, RestTyped, F
    <2> QED
      BY <1>0, <1>5, <2>2 DEF SelectNodes, RestTyped, table, history
  <1>6. ASSUME NEW t \in Readers, StoreFlows(t)
        PROVE  RestTyped' /\ UNCHANGED <<validator, table, req, mixed, excused>>
    <2>1. load[t].flows \in SUBSET CachedFlow /\ Home(t) \in Replicas
      BY <1>0, <1>6 DEF StoreFlows, RestTyped, Idle
    <2>2. Entry(load[t].flows) \in [at : {"cached"}, flows : SUBSET CachedFlow]
      BY <2>1 DEF Entry
    <2>3. cache' \in [Replicas -> {Missing} \cup [at : {"cached"}, flows : SUBSET CachedFlow]]
      BY <1>0, <1>6, <2>1, <2>2 DEF StoreFlows, RestTyped
    <2> QED
      BY <1>0, <1>6, <2>3 DEF StoreFlows, RestTyped, table, history
  <1>7. ASSUME NEW t \in Readers, LoadRaises(t)
        PROVE  RestTyped' /\ UNCHANGED <<validator, table, req, mixed, excused>>
    BY <1>0, <1>7 DEF LoadRaises, RestTyped, table, history
  <1> QED
    BY <1>1, <1>2, <1>3, <1>4, <1>5, <1>6, <1>7 DEF Get

LEMMA ValidatorStep ==
    ASSUME TypeInv, [Next]_vars
    PROVE  SearchInv'
  <1> USE DEF TypeInv
  <1>1. ASSUME NEW c \in Callers, NEW n \in Names, NEW g \in Graphs, CreateFlow(c, n, g)
        PROVE  SearchInv'
    BY <1>1, ValidateStep, FlowGraphAssumption DEF CreateFlow
  <1>2. ASSUME NEW c \in Callers, NEW i \in Ids, NEW d \in Edits, UpdateFind(c, i, d)
        PROVE  SearchInv'
    <2>1. Merge(d, rows[i].graph) \in Graph
      BY <1>2, RowTyped, MergeTyped DEF UpdateFind
    <2> QED
      BY <1>2, <2>1, ValidateStep DEF UpdateFind
  <1>3. ASSUME NEW c \in Callers, Refused(c) \/ Accepted(c)
        PROVE  SearchInv'
    BY <1>3, AnsweredStep DEF Refused, Accepted
  <1>4. CASE UNCHANGED validator
    BY <1>4, IdleSearch
  <1>5. ASSUME NEW c \in Callers,
               \/ CreateInsert(c) \/ UpdateReread(c) \/ UpdateInsert(c) \/ Deactivate(c)
               \/ SetActive(c) \/ DeleteRow(c) \/ QueryRaises(c)
               \/ \E i \in Ids : ActivateFind(c, i) \/ DeleteFind(c, i)
        PROVE  UNCHANGED validator
    BY <1>5 DEF CreateInsert, UpdateReread, UpdateInsert, Deactivate, SetActive, DeleteRow,
                QueryRaises, ActivateFind, DeleteFind
  <1>6. CASE UNCHANGED vars
    BY <1>4, <1>6 DEF vars
  <1> QED
    BY <1>1, <1>2, <1>3, <1>4, <1>5, <1>6, SearchStep, EngineRest
       DEF Next, Request, Create, Update, Activate, Delete

LEMMA TypeStep ==
    ASSUME TypeInv, TableInv, [Next]_vars
    PROVE  TypeInv'
  <1>1. SearchInv'
    BY ValidatorStep
  <1>2. ReqTyped' /\ RestTyped'
    <2>1. ASSUME UNCHANGED <<table, req, engine, history>>
          PROVE  ReqTyped' /\ RestTyped'
      BY <2>1, RestOfType DEF TypeInv, ReqTyped, RestTyped, table, engine, history
    <2>2. ASSUME UNCHANGED req
          PROVE  ReqTyped'
      BY <2>2 DEF TypeInv, ReqTyped
    <2> QED
      BY <2>1, <2>2, RequestTyped, RequestRest, EngineRest DEF Next, vars
  <1>3. \A c \in Callers : req'[c].at \in {"idle", "create", "update", "insert", "reread",
                                          "version", "clear", "set", "erase"}
    BY <1>2 DEF ReqTyped, Reqs, Idle
  <1> QED
    BY <1>1, <1>2, <1>3 DEF TypeInv, TypeOK, RestTyped

-----------------------------------------------------------------------------
(* The table *)

\* The steps that write no row and leave every request where it is.
LEMMA TableKeeps ==
    ASSUME TableInv, UNCHANGED <<rows, req, validator>>
    PROVE  TableInv'
  <1>1. rows' = rows /\ req' = req /\ graph' = graph /\ verdict' = verdict
    BY DEF validator
  <1>2. \A g : WellFormed(g)' = WellFormed(g) /\ KeysUnique(g)' = KeysUnique(g)
    BY DEF WellFormed, LeadsToAll, ObeysRules, NodeKeys, Closed, Find, KeysUnique
  <1>3. RowsInv'
    BY <1>1, <1>2 DEF TableInv, RowsInv, IsRow, Used
  <1>4. RequestsInv'
    BY <1>1, <1>2 DEF TableInv, RequestsInv, Holds, At, Used, IsRow, Validating, Merge, Or
  <1> QED
    BY <1>3, <1>4 DEF TableInv

\* WellFormed speaks of constants only.
LEMMA SameRules == \A g : WellFormed(g)' = WellFormed(g) /\ KeysUnique(g)' = KeysUnique(g)
  BY DEF WellFormed, LeadsToAll, ObeysRules, NodeKeys, Closed, Find, KeysUnique

\* Rows never become free again, and a stored graph never changes.
Grows ==
    \A i \in Ids : Used(i) => Used(i)' /\ (IsRow(i)' => IsRow(i) /\ rows'[i].graph = rows[i].graph)

\* What a step that writes does to the rows.
LEMMA RowsStep ==
    ASSUME TypeInv, TableInv, NEW c \in Callers,
           CreateInsert(c) \/ UpdateInsert(c) \/ Deactivate(c) \/ SetActive(c) \/ DeleteRow(c)
    PROVE  RowsInv' /\ Grows /\ Quiet
  <1> USE DEF TypeInv, TableInv
  <1>0. \A i \in Ids : i \in Nat
    BY FlowAdminAssumption DEF Ids
  <1>1. CASE CreateInsert(c) \/ UpdateInsert(c)
    <2>1. PICK n \in Names, v \in Nat \ {0}, g \in Graph :
             /\ Insert(n, v, g)
             /\ v = 1 \/ \E j \in Ids : Used(j) /\ v <= j + 1
             /\ WellFormed(g)
      BY <1>1, WritesRow
    <2>2. PICK i \in Ids :
             /\ ~Used(i) /\ \A j \in Ids : j < i => Used(j)
             /\ rows'[i] = [state |-> "stored", name |-> n, version |-> v,
                            graph |-> g, active |-> FALSE]
             /\ v <= i
             /\ \A j \in Ids \ {i} : rows'[j] = rows[j]
      BY <2>1, InsertRow
    <2>3. KeysUnique(g)
      BY <2>1 DEF Insert
    <2>4. Grows
      BY <2>2 DEF Grows, Used, IsRow
    <2>5. \A j, k \in Ids : j < k /\ Used(k)' => Used(j)'
      <3> SUFFICES ASSUME NEW j \in Ids, NEW k \in Ids, j < k, Used(k)'
                   PROVE  Used(j)'
        OBVIOUS
      <3>1. CASE k = i
        BY <1>0, <2>2, <3>1 DEF Used
      <3>2. CASE k # i
        <4>1. Used(k)
          BY <2>2, <3>2 DEF Used
        <4>2. Used(j)
          BY <4>1 DEF RowsInv
        <4> QED
          BY <2>4, <4>2 DEF Grows
      <3> QED
        BY <3>1, <3>2
    <2>6. ASSUME NEW j \in Ids, IsRow(j)'
          PROVE  rows'[j].version <= j /\ WellFormed(rows'[j].graph) /\ KeysUnique(rows'[j].graph)
      <3>1. CASE j = i
        BY <2>1, <2>2, <2>3, <3>1
      <3>2. CASE j # i
        BY <2>2, <2>6, <3>2 DEF RowsInv, IsRow
      <3> QED
        BY <3>1, <3>2
    <2>7. RowsInv'
      BY <2>5, <2>6, SameRules DEF RowsInv
    <2> QED
      BY <1>1, <2>4, <2>7 DEF CreateInsert, UpdateInsert
  <1>2. ASSUME \A i \in Ids :
                  /\ Used(i)' = Used(i)
                  /\ IsRow(i)' => /\ IsRow(i) /\ rows'[i].graph = rows[i].graph
                                  /\ rows'[i].version = rows[i].version
        PROVE  RowsInv' /\ Grows
    <2>1. Grows
      BY <1>2 DEF Grows
    <2>2. \A j, k \in Ids : j < k /\ Used(k)' => Used(j)'
      BY <1>2 DEF RowsInv
    <2>3. ASSUME NEW j \in Ids, IsRow(j)'
          PROVE  rows'[j].version <= j /\ WellFormed(rows'[j].graph) /\ KeysUnique(rows'[j].graph)
      BY <1>2, <2>3 DEF RowsInv
    <2> QED
      BY <2>1, <2>2, <2>3, SameRules DEF RowsInv
  <1>3. rows \in [Ids -> Row \cup [state : {"unused", "deleted"}]]
    BY DEF TypeOK
  <1>4. CASE Deactivate(c)
    <2>1. rows' = [i \in Ids |-> IF i \in Active \ {req[c].id}
                                 THEN [rows[i] EXCEPT !.active = FALSE] ELSE rows[i]]
      BY <1>4 DEF Deactivate
    <2>2. \A i \in Active : rows[i] \in Row
      BY RowTyped DEF Active
    <2>3. ASSUME NEW i \in Ids
          PROVE  /\ Used(i)' = Used(i)
                 /\ IsRow(i)' => /\ IsRow(i) /\ rows'[i].graph = rows[i].graph
                                 /\ rows'[i].version = rows[i].version
      <3>1. CASE i \in Active \ {req[c].id}
        BY <2>1, <2>2, <3>1 DEF Used, IsRow, Row
      <3>2. CASE i \notin Active \ {req[c].id}
        BY <2>1, <3>2 DEF Used, IsRow
      <3> QED
        BY <3>1, <3>2
    <2> QED
      BY <1>2, <1>4, <2>3 DEF Deactivate
  <1>5. CASE SetActive(c)
    <2> DEFINE k == req[c].id
    <2>1. k \in Ids /\ IsRow(k) /\ rows' = [rows EXCEPT ![k].active = TRUE]
      BY <1>5, ReqShape DEF SetActive, At
    <2> HIDE DEF k
    <2>2. rows[k] \in Row
      BY <2>1, RowTyped
    <2>3. ASSUME NEW i \in Ids
          PROVE  /\ Used(i)' = Used(i)
                 /\ IsRow(i)' => /\ IsRow(i) /\ rows'[i].graph = rows[i].graph
                                 /\ rows'[i].version = rows[i].version
      BY <1>3, <2>1, <2>2 DEF Used, IsRow, Row
    <2> QED
      BY <1>2, <1>5, <2>3 DEF SetActive
  <1>6. CASE DeleteRow(c)
    <2> DEFINE k == req[c].id
    <2>1. k \in Ids /\ IsRow(k) /\ rows' = [rows EXCEPT ![k] = [state |-> "deleted"]]
      BY <1>6, ReqShape DEF DeleteRow, At
    <2> HIDE DEF k
    <2>3. ASSUME NEW i \in Ids
          PROVE  /\ Used(i)' = Used(i)
                 /\ IsRow(i)' => /\ IsRow(i) /\ rows'[i].graph = rows[i].graph
                                 /\ rows'[i].version = rows[i].version
      BY <1>3, <2>1 DEF Used, IsRow
    <2> QED
      BY <1>2, <1>6, <2>3 DEF DeleteRow
  <1> QED
    BY <1>1, <1>4, <1>5, <1>6

\* A request that the step leaves where it is.
LEMMA HoldsOther ==
    ASSUME TypeInv, NEW d \in Callers, Holds(d), req'[d] = req[d], Grows,
           Validating(d) => UNCHANGED <<rows, graph>> /\ verdict' # "idle"
    PROVE  Holds(d)'
  <1> USE DEF TypeInv
  <1>1. CASE At(d, "update")
    <2>1. UNCHANGED <<rows, graph>> /\ verdict' # "idle"
      BY <1>1 DEF Validating, At
    <2> QED
      BY <1>1, <2>1 DEF Holds, Validating, At, IsRow, Merge, Or
  <1>2. CASE At(d, "create")
    BY <1>2 DEF Holds, Validating, At
  <1>3. CASE At(d, "reread")
    <2>1. req[d].id \in Ids
      BY <1>3, ReqShape DEF At
    <2>2. /\ Used(req[d].id)
          /\ IsRow(req[d].id) => WellFormed(Merge(req[d].edit, rows[req[d].id].graph))
      BY <1>3 DEF Holds
    <2>3. /\ Used(req[d].id)'
          /\ IsRow(req[d].id)' => /\ IsRow(req[d].id)
                                  /\ rows'[req[d].id].graph = rows[req[d].id].graph
      BY <2>1, <2>2 DEF Grows, Used, IsRow
    <2>4. IsRow(req[d].id)' => WellFormed(Merge(req[d].edit, rows[req[d].id].graph))'
      BY <2>2, <2>3, SameRules DEF Merge, Or
    <2> QED
      BY <1>3, <2>3, <2>4 DEF Holds, At, Validating
  <1>4. CASE At(d, "insert")
    BY <1>4, SameRules DEF Holds, At, Validating
  <1>5. CASE At(d, "version")
    <2>1. PICK i \in Ids : Used(i) /\ req[d].version <= i + 1
      BY <1>5 DEF Holds
    <2>2. Used(i)'
      BY <2>1 DEF Grows
    <2>3. WellFormed(req[d].graph)'
      BY <1>5, SameRules DEF Holds
    <2> QED
      BY <1>5, <2>1, <2>2, <2>3 DEF Holds, At, Validating
  <1>6. CASE req[d].at \in {"clear", "set", "erase"}
    <2>1. req[d].id \in Ids
      BY <1>6, ReqShape
    <2> QED
      BY <1>6, <2>1 DEF Holds, At, Validating, Grows, Used
  <1>7. CASE At(d, "idle")
    BY <1>7 DEF Holds, At, Validating
  <1> QED
    BY <1>1, <1>2, <1>3, <1>4, <1>5, <1>6, <1>7, ReqShape DEF At

\* One request has taken a step: it holds what it should, the others are not
\* validating, or have had nothing changed under them.
LEMMA OneMoved ==
    ASSUME TypeInv, TableInv, NEW c \in Callers, NEW r \in Reqs, Go(c, r), Grows, Holds(c)',
           \/ verdict = "idle"
           \/ Validating(c)
    PROVE  RequestsInv'
  <1> USE DEF TypeInv, TableInv
  <1>1. req'[c] = r /\ \A d \in Callers \ {c} : req'[d] = req[d]
    BY GoTyped
  <1>2. ASSUME NEW d \in Callers \ {c}
        PROVE  ~Validating(d)
    BY DEF RequestsInv, Holds
  <1>3. ASSUME NEW d \in Callers \ {c}
        PROVE  Holds(d)'
    BY <1>1, <1>2, HoldsOther DEF RequestsInv
  <1>4. \A d \in Callers : Validating(d)' => d = c
    BY <1>1, <1>2 DEF Validating
  <1> QED
    BY <1>3, <1>4 DEF RequestsInv

LEMMA RequestsStep ==
    ASSUME TypeInv, TableInv, NEW c \in Callers, Request(c)
    PROVE  RowsInv' /\ RequestsInv'
  <1> USE DEF TypeInv, TableInv
  <1>0. ASSUME UNCHANGED rows
        PROVE  RowsInv' /\ Grows
    BY <1>0, SameRules DEF RowsInv, Grows, Used, IsRow
  <1>g. ASSUME NEW r \in Reqs, Go(c, r)
        PROVE  req'[c] = r
    BY <1>g, GoTyped
  <1>1. ASSUME NEW n \in Names, NEW g \in Graphs, CreateFlow(c, n, g)
        PROVE  RowsInv' /\ RequestsInv'
    <2> DEFINE r == [at |-> "create", name |-> n]
    <2>1. r \in Reqs
      BY DEF Reqs
    <2>2. Go(c, r) /\ verdict = "idle" /\ verdict' = "rules" /\ UNCHANGED rows
      BY <1>1 DEF CreateFlow, Quiet, Validate, table
    <2>3. req'[c] = r
      BY <1>g, <2>1, <2>2
    <2>4. Holds(c)'
      BY <2>2, <2>3 DEF Holds, Validating, At
    <2> QED
      BY <1>0, <2>1, <2>2, <2>4, OneMoved
  <1>2. ASSUME NEW i \in Ids, NEW d \in Edits, UpdateFind(c, i, d)
        PROVE  RowsInv' /\ RequestsInv'
    <2> DEFINE r == [at |-> "update", id |-> i, edit |-> d]
    <2>1. r \in Reqs
      BY DEF Reqs
    <2>2. /\ Go(c, r) /\ verdict = "idle" /\ verdict' = "rules" /\ UNCHANGED rows
          /\ graph' = Merge(d, rows[i].graph) /\ IsRow(i)
      BY <1>2 DEF UpdateFind, Quiet, Validate, table
    <2>3. req'[c] = r
      BY <1>g, <2>1, <2>2
    <2>4. Holds(c)'
      BY <2>2, <2>3 DEF Holds, Validating, At, IsRow, Merge, Or
    <2> QED
      BY <1>0, <2>1, <2>2, <2>4, OneMoved
  <1>3. ASSUME NEW i \in Ids, NEW at \in {"clear", "erase"}, IsRow(i), Quiet, UNCHANGED rows,
               Go(c, [at |-> at, id |-> i])
        PROVE  RowsInv' /\ RequestsInv'
    <2> DEFINE r == [at |-> at, id |-> i]
    <2>1. r \in Reqs
      BY DEF Reqs
    <2>2. req'[c] = r
      BY <1>g, <1>3, <2>1
    <2>3. Holds(c)'
      BY <1>3, <2>2 DEF Holds, Validating, At, Used, IsRow
    <2> QED
      BY <1>0, <1>3, <2>1, <2>3, OneMoved DEF Quiet
  <1>4. ASSUME Go(c, Idle), Grows, RowsInv', Quiet \/ Validating(c)
        PROVE  RowsInv' /\ RequestsInv'
    <2>1. req'[c] = Idle
      BY <1>g, <1>4, IdleReq
    <2>2. Holds(c)'
      BY <2>1 DEF Holds, Validating, At, Idle
    <2> QED
      BY <1>4, <2>2, IdleReq, OneMoved DEF Quiet
  <1>5. CASE Refused(c)
    <2>1. Go(c, Idle) /\ UNCHANGED rows /\ Validating(c)
      BY <1>5 DEF Refused, Validating, table
    <2> QED
      BY <1>0, <1>4, <2>1
  <1>6. CASE QueryRaises(c)
    <2>1. Go(c, Idle) /\ UNCHANGED rows /\ Quiet
      BY <1>6 DEF QueryRaises
    <2> QED
      BY <1>0, <1>4, <2>1
  <1>7. CASE CreateInsert(c) \/ UpdateInsert(c) \/ SetActive(c) \/ DeleteRow(c)
    <2>1. Go(c, Idle)
      BY <1>7 DEF CreateInsert, UpdateInsert, SetActive, DeleteRow, Reply
    <2>2. RowsInv' /\ Grows /\ Quiet
      BY <1>7, RowsStep
    <2> QED
      BY <1>4, <2>1, <2>2
  <1>8. CASE Deactivate(c)
    <2>0. req[c] \in [at : {"clear", "set", "erase"}, id : Ids] /\ req[c].at = "clear"
      BY <1>8, ReqShape DEF Deactivate, At
    <2>1. PICK r \in Reqs : /\ r = [req[c] EXCEPT !.at = "set"]
                            /\ r.at = "set" /\ r.id = req[c].id /\ r.id \in Ids
      <3> DEFINE r == [req[c] EXCEPT !.at = "set"]
      <3>1. r \in Reqs /\ r.at = "set" /\ r.id = req[c].id /\ r.id \in Ids
        BY <2>0 DEF Reqs
      <3> QED
        BY <3>1
    <2>2. Go(c, r) /\ Quiet /\ Grows /\ RowsInv'
      BY <1>8, <2>1, RowsStep DEF Deactivate
    <2>3. req'[c] = r
      BY <1>g, <2>2
    <2>4. Used(r.id)
      BY <2>0, <2>1 DEF RequestsInv, Holds
    <2>5. Used(r.id)'
      BY <2>1, <2>2, <2>4 DEF Grows
    <2>6. Holds(c)'
      BY <2>1, <2>3, <2>5 DEF Holds, Validating, At
    <2> QED
      BY <2>2, <2>6, OneMoved DEF Quiet
  <1>9. CASE Accepted(c)
    <2>1. /\ Validating(c) /\ verdict = "valid" /\ WellFormed(graph) /\ graph \in Graph
          /\ UNCHANGED rows
      BY <1>9 DEF Accepted, Validating, SearchInv, SearchExact, WellFormed, table
    <2>2. CASE At(c, "create")
      <3> DEFINE r == [at |-> "insert", name |-> req[c].name, graph |-> graph]
      <3>1. r \in Reqs
        BY <2>1, <2>2, ReqShape DEF Reqs
      <3>2. Go(c, r)
        BY <1>9, <2>2 DEF Accepted
      <3>3. req'[c] = r
        BY <1>g, <3>1, <3>2
      <3>4. Holds(c)'
        BY <2>1, <3>3, SameRules DEF Holds, Validating, At
      <3> QED
        BY <1>0, <2>1, <3>1, <3>2, <3>4, OneMoved
    <2>3. CASE ~At(c, "create")
      <3>0. /\ At(c, "update")
            /\ req[c] \in [at : {"update", "reread"}, id : Ids, edit : Edits]
        BY <2>1, <2>3, ReqShape DEF Validating, At
      <3>1. PICK r \in Reqs : /\ r = [req[c] EXCEPT !.at = "reread"]
                              /\ r.at = "reread" /\ r.id = req[c].id /\ r.edit = req[c].edit
        <4> DEFINE r == [req[c] EXCEPT !.at = "reread"]
        <4>1. r \in Reqs /\ r.at = "reread" /\ r.id = req[c].id /\ r.edit = req[c].edit
          BY <3>0 DEF Reqs
        <4> QED
          BY <4>1
      <3>2. Go(c, r)
        BY <1>9, <2>3, <3>1 DEF Accepted
      <3>3. req'[c] = r
        BY <1>g, <3>2
      <3>4. IsRow(r.id) /\ WellFormed(Merge(r.edit, rows[r.id].graph))
        BY <2>1, <3>0, <3>1 DEF RequestsInv, Holds
      <3>5. PICK g : g = Merge(r.edit, rows[r.id].graph)
        OBVIOUS
      <3>6. Used(r.id)' /\ WellFormed(g)' /\ g = Merge(r.edit, rows'[r.id].graph)
        BY <2>1, <3>4, <3>5, SameRules DEF Used, IsRow
      <3>7. Holds(c)'
        BY <3>1, <3>3, <3>6 DEF Holds, Validating, At
      <3> QED
        BY <1>0, <2>1, <3>2, <3>7, OneMoved
    <2> QED
      BY <2>2, <2>3
  <1>10. CASE UpdateReread(c)
    <2>1. PICK i \in Ids, d \in Edits : i = req[c].id /\ d = req[c].edit
      BY <1>10, ReqShape DEF UpdateReread, At
    <2>2. At(c, "reread") /\ IsRow(i) /\ Quiet /\ UNCHANGED rows
      BY <1>10, <2>1 DEF UpdateReread, table
    <2>3. rows[i].name \in Names /\ rows[i].version \in Nat \ {0} /\ rows[i].graph \in Graph
      BY <2>2, RowTyped
    <2>4. PICK v \in Nat \ {0}, n \in Names, g \in Graph :
             /\ v = rows[i].version + 1 /\ n = Or(d.name, rows[i].name)
             /\ g = Merge(d, rows[i].graph)
      <3>1. Or(d.name, rows[i].name) \in Names /\ rows[i].version + 1 \in Nat \ {0}
        BY <2>3, FlowAdminAssumption DEF Or
      <3> QED
        BY <2>3, <3>1, MergeTyped
    <2> DEFINE r == [at |-> "version", name |-> n, version |-> v, graph |-> g]
    <2>5. r \in Reqs /\ r.at = "version" /\ r.version = v /\ r.graph = g
      BY DEF Reqs
    <2>6. Go(c, r)
      BY <1>10, <2>1, <2>4 DEF UpdateReread
    <2> HIDE DEF r
    <2>7. req'[c] = r
      BY <1>g, <2>5, <2>6
    <2>8. WellFormed(g)'
      BY <2>1, <2>2, <2>4, SameRules DEF RequestsInv, Holds
    <2>9. v <= i + 1
      BY <2>2, <2>3, <2>4, FlowAdminAssumption DEF RowsInv, Ids
    <2>10. Used(i)'
      BY <2>2 DEF Used, IsRow
    <2>11. Holds(c)'
      BY <2>5, <2>7, <2>8, <2>9, <2>10 DEF Holds, Validating, At
    <2> QED
      BY <1>0, <2>2, <2>5, <2>6, <2>11, OneMoved DEF Quiet
  <1>11. ASSUME NEW i \in Ids, ActivateFind(c, i) \/ DeleteFind(c, i)
         PROVE  RowsInv' /\ RequestsInv'
    <2>1. UNCHANGED rows /\ Quiet /\ IsRow(i)
      BY <1>11 DEF ActivateFind, DeleteFind, table
    <2>2. Go(c, [at |-> "clear", id |-> i]) \/ Go(c, [at |-> "erase", id |-> i])
      BY <1>11 DEF ActivateFind, DeleteFind
    <2> QED
      BY <1>3, <2>1, <2>2
  <1> QED
    BY <1>1, <1>2, <1>5, <1>6, <1>7, <1>8, <1>9, <1>10, <1>11
       DEF Request, Create, Update, Activate, Delete

LEMMA TableStep ==
    ASSUME TypeInv, TableInv, [Next]_vars
    PROVE  TableInv'
  <1>1. CASE Search /\ UNCHANGED <<table, req, engine, history>>
    <2>1. graph' = graph /\ verdict' # "idle" /\ UNCHANGED <<rows, req>>
      BY <1>1 DEF Search, RuleBroken, StartSearch, Visit, SearchDone, table
    <2>2. RowsInv' /\ Grows
      BY <2>1, SameRules DEF TableInv, RowsInv, Grows, Used, IsRow
    <2>3. \A d \in Callers : Holds(d)'
      BY <2>1, <2>2, HoldsOther DEF TableInv, RequestsInv
    <2>4. RequestsInv'
      BY <2>1, <2>3 DEF TableInv, RequestsInv, Validating
    <2> QED
      BY <2>2, <2>4 DEF TableInv
  <1>2. ASSUME UNCHANGED vars \/ UNCHANGED <<validator, table, req, mixed, excused>>
        PROVE  TableInv'
    BY <1>2, TableKeeps DEF vars, table
  <1> QED
    BY <1>1, <1>2, RequestsStep, EngineRest DEF Next, TableInv

-----------------------------------------------------------------------------
(* The active flow *)

\* A step that activates nothing and sends no request in between two updates.
LEMMA SoleKeeps ==
    ASSUME SoleInv, mixed' = mixed, \A i : i \in Active' => i \in Active,
           \A d \in Callers : At(d, "set")' => At(d, "set") /\ req'[d] = req[d]
    PROVE  SoleInv'
  <1> SUFFICES ASSUME ~mixed'
               PROVE  /\ \A i, j \in Active' : i = j
                      /\ \A d \in Callers : At(d, "set")' => Active' \subseteq {req'[d].id}
                      /\ \A d, e \in Callers : At(d, "set")' /\ At(e, "set")' => d = e
    BY DEF SoleInv
  <1>1. \A i, j \in Active' : i = j
    BY DEF SoleInv
  <1>2. ASSUME NEW d \in Callers, At(d, "set")'
        PROVE  Active' \subseteq {req'[d].id}
    BY <1>2 DEF SoleInv
  <1>3. \A d, e \in Callers : At(d, "set")' /\ At(e, "set")' => d = e
    BY DEF SoleInv
  <1> QED
    BY <1>1, <1>2, <1>3

\* The request that moves is not in between two updates, before or after.
LEMMA MovesElsewhere ==
    ASSUME ReqTyped, NEW c \in Callers, NEW r \in Reqs, Go(c, r), r.at # "set"
    PROVE  \A d \in Callers : /\ At(d, "set")' => At(d, "set") /\ req'[d] = req[d]
                              /\ d # c => At(d, "set")' = At(d, "set")
  BY GoTyped DEF At

LEMMA ActiveStep ==
    ASSUME TypeInv, TableInv, SoleInv, AlwaysServed, NEW c \in Callers, Request(c)
    PROVE  SoleInv' /\ AlwaysServed'
  <1> USE DEF TypeInv
  <1>1. ASSUME UNCHANGED <<rows, mixed, excused>>, NEW r \in Reqs, Go(c, r), r.at # "set",
               ~At(c, "set")
        PROVE  SoleInv' /\ AlwaysServed'
    <2>1. \A d \in Callers : /\ At(d, "set")' => At(d, "set") /\ req'[d] = req[d]
                             /\ At(d, "set") => At(d, "set")'
      BY <1>1, MovesElsewhere
    <2>2. Active' = Active
      BY <1>1 DEF Active, IsRow
    <2>3. SoleInv'
      BY <1>1, <2>1, <2>2, SoleKeeps
    <2>4. AlwaysServed'
      BY <1>1, <2>1, <2>2 DEF AlwaysServed
    <2> QED
      BY <2>3, <2>4
  <1>2. ASSUME NEW n \in Names, NEW g \in Graphs, CreateFlow(c, n, g)
        PROVE  SoleInv' /\ AlwaysServed'
    <2>1. [at |-> "create", name |-> n] \in Reqs
      BY DEF Reqs
    <2> QED
      BY <1>1, <1>2, <2>1 DEF CreateFlow, At, table, history
  <1>3. ASSUME NEW i \in Ids, NEW d \in Edits, UpdateFind(c, i, d)
        PROVE  SoleInv' /\ AlwaysServed'
    <2>1. [at |-> "update", id |-> i, edit |-> d] \in Reqs
      BY DEF Reqs
    <2> QED
      BY <1>1, <1>3, <2>1 DEF UpdateFind, At, table, history
  <1>4. ASSUME NEW i \in Ids, ActivateFind(c, i)
        PROVE  SoleInv' /\ AlwaysServed'
    <2>1. [at |-> "clear", id |-> i] \in Reqs
      BY DEF Reqs
    <2> QED
      BY <1>1, <1>4, <2>1 DEF ActivateFind, At, table, history
  <1>5. ASSUME NEW i \in Ids, DeleteFind(c, i)
        PROVE  SoleInv' /\ AlwaysServed'
    <2>1. [at |-> "erase", id |-> i] \in Reqs
      BY DEF Reqs
    <2> QED
      BY <1>1, <1>5, <2>1 DEF DeleteFind, At, table, history
  <1>6. CASE Refused(c)
    BY <1>1, <1>6, IdleReq DEF Refused, At, Idle, table, history
  <1>7. CASE Accepted(c) \/ UpdateReread(c)
    <2>1. req'[c] \in Reqs /\ Go(c, req'[c])
      BY <1>7, RequestTyped DEF Accepted, UpdateReread, ReqTyped, Go
    <2>2. ~At(c, "set") /\ UNCHANGED <<rows, mixed, excused>>
      BY <1>7 DEF Accepted, UpdateReread, At, table, history
    <2>3. req'[c].at # "set"
      <3>1. CASE UpdateReread(c)
        BY <3>1 DEF UpdateReread, Go, ReqTyped
      <3>2. CASE Accepted(c) /\ At(c, "create")
        BY <3>2 DEF Accepted, Go, ReqTyped
      <3>3. CASE Accepted(c) /\ ~At(c, "create")
        <4>1. req[c] \in [at : {"update", "reread"}, id : Ids, edit : Edits]
          BY <3>3, ReqShape DEF Accepted, At
        <4> QED
          BY <3>3, <4>1 DEF Accepted, Go, ReqTyped
      <3> QED
        BY <1>7, <3>1, <3>2, <3>3
    <2> QED
      BY <1>1, <2>1, <2>2, <2>3
  <1>8. CASE CreateInsert(c) \/ UpdateInsert(c)
    <2>1. Active' = Active
      BY <1>8, WritesRow, InsertRow DEF TableInv
    <2>2. UNCHANGED <<mixed, excused>> /\ Go(c, Idle) /\ ~At(c, "set")
      BY <1>8 DEF CreateInsert, UpdateInsert, Insert, Reply, At
    <2>3. \A d \in Callers : /\ At(d, "set")' => At(d, "set") /\ req'[d] = req[d]
                             /\ At(d, "set") => At(d, "set")'
      BY <2>2, IdleReq, MovesElsewhere DEF Idle
    <2>4. SoleInv'
      BY <2>1, <2>2, <2>3, SoleKeeps
    <2>5. AlwaysServed'
      BY <2>1, <2>2, <2>3 DEF AlwaysServed
    <2> QED
      BY <2>4, <2>5
  <1>9. CASE Deactivate(c)
    <2>1. req'[c] = [req[c] EXCEPT !.at = "set"] /\ \A d \in Callers \ {c} : req'[d] = req[d]
      BY <1>9 DEF Deactivate, Go, ReqTyped
    <2>2. req[c] \in [at : {"clear", "set", "erase"}, id : Ids]
      BY <1>9, ReqShape DEF Deactivate, At
    <2>3. req'[c].at = "set" /\ req'[c].id = req[c].id
      BY <2>1, <2>2
    <2>4. \A i \in Active' : i = req[c].id
      <3>1. \A i \in Active : rows[i] \in Row
        BY RowTyped DEF Active
      <3>2. \A i \in Active \ {req[c].id} : ~rows'[i].active
        BY <1>9, <3>1 DEF Deactivate, Active, Row
      <3>3. \A i \in Ids : i \notin Active \ {req[c].id} => rows'[i] = rows[i]
        BY <1>9 DEF Deactivate
      <3> QED
        BY <3>2, <3>3 DEF Active, IsRow
    <2>5. SoleInv'
      <3> SUFFICES ASSUME ~mixed'
                   PROVE  /\ \A i, j \in Active' : i = j
                          /\ \A d \in Callers : At(d, "set")' => Active' \subseteq {req'[d].id}
                          /\ \A d, e \in Callers : At(d, "set")' /\ At(e, "set")' => d = e
        BY DEF SoleInv
      <3>1. \A d \in Callers : At(d, "set")' => d = c
        BY <1>9, <2>1 DEF Deactivate, At
      <3> QED
        BY <2>3, <2>4, <3>1
    <2>6. AlwaysServed'
      BY <2>3 DEF AlwaysServed, At
    <2> QED
      BY <2>5, <2>6
  <1>10. CASE SetActive(c)
    <2>1. PICK k \in Ids : k = req[c].id
      BY <1>10, ReqShape DEF SetActive, At
    <2>2. IsRow(k) /\ rows' = [rows EXCEPT ![k].active = TRUE]
      BY <1>10, <2>1 DEF SetActive
    <2>3. rows[k] \in Row /\ rows \in [Ids -> Row \cup [state : {"unused", "deleted"}]]
      BY <2>2, RowTyped DEF TypeOK
    <2>4. /\ rows'[k] = [rows[k] EXCEPT !.active = TRUE]
          /\ \A i \in Ids \ {k} : rows'[i] = rows[i]
      BY <2>2, <2>3
    <2>5. rows'[k].state = "stored" /\ rows'[k].active
      BY <2>2, <2>3, <2>4 DEF Row, IsRow
    <2>6. k \in Active'
      BY <2>5 DEF Active, IsRow
    <2>7. \A i \in Active' : i = k \/ i \in Active
      BY <2>4 DEF Active, IsRow
    <2>8. \A d \in Callers : At(d, "set")' => At(d, "set") /\ d # c
      BY <1>10, IdleReq, MovesElsewhere, GoTyped DEF SetActive, Reply, Idle, At
    <2>9. SoleInv'
      <3> SUFFICES ASSUME ~mixed'
                   PROVE  /\ \A i, j \in Active' : i = j
                          /\ \A d \in Callers : ~At(d, "set")'
        BY DEF SoleInv
      <3>1. ~mixed /\ At(c, "set")
        BY <1>10 DEF SetActive
      <3>2. Active \subseteq {k}
        BY <2>1, <3>1 DEF SoleInv
      <3>3. \A d \in Callers : ~At(d, "set")'
        BY <2>8, <3>1 DEF SoleInv
      <3> QED
        BY <2>7, <3>2, <3>3
    <2>10. AlwaysServed'
      BY <2>6 DEF AlwaysServed
    <2> QED
      BY <2>9, <2>10
  <1>11. CASE DeleteRow(c)
    <2>1. PICK k \in Ids : k = req[c].id
      BY <1>11, ReqShape DEF DeleteRow, At
    <2>2. IsRow(k) /\ rows' = [rows EXCEPT ![k] = [state |-> "deleted"]]
      BY <1>11, <2>1 DEF DeleteRow
    <2>3. rows'[k].state = "deleted" /\ \A i \in Ids \ {k} : rows'[i] = rows[i]
      BY <2>2 DEF TypeOK
    <2>4. \A i : i \in Active' <=> i \in Active /\ i # k
      BY <2>3 DEF Active, IsRow
    <2>5. Go(c, Idle) /\ ~At(c, "set") /\ mixed' = mixed /\ excused' = (excused \/ rows[k].active)
      BY <1>11, <2>1 DEF DeleteRow, Reply, At
    <2>6. \A d \in Callers : /\ At(d, "set")' => At(d, "set") /\ req'[d] = req[d]
                             /\ At(d, "set") => At(d, "set")'
      BY <2>5, IdleReq, MovesElsewhere DEF Idle
    <2>7. SoleInv'
      BY <2>4, <2>5, <2>6, SoleKeeps
    <2>8. AlwaysServed'
      <3>1. CASE excused
        BY <2>5, <3>1 DEF AlwaysServed
      <3>2. CASE k \in Active
        BY <2>5, <3>2 DEF AlwaysServed, Active
      <3>3. CASE k \notin Active /\ ~excused
        <4>1. Active # {} \/ \E d \in Callers : At(d, "set")
          BY <3>3 DEF AlwaysServed
        <4>2. Active' # {} \/ \E d \in Callers : At(d, "set")'
          BY <2>4, <2>6, <3>3, <4>1
        <4> QED
          BY <4>2 DEF AlwaysServed
      <3> QED
        BY <3>1, <3>2, <3>3
    <2> QED
      BY <2>7, <2>8
  <1>12. CASE QueryRaises(c)
    <2>1. Go(c, Idle) /\ UNCHANGED <<rows, mixed>> /\ excused' = (excused \/ At(c, "set"))
      BY <1>12 DEF QueryRaises
    <2>2. Active' = Active
      BY <2>1 DEF Active, IsRow
    <2>3. \A d \in Callers : /\ At(d, "set")' => At(d, "set") /\ req'[d] = req[d]
                             /\ d # c => At(d, "set")' = At(d, "set")
      BY <2>1, IdleReq, MovesElsewhere DEF Idle
    <2>4. SoleInv'
      BY <2>1, <2>2, <2>3, SoleKeeps
    <2>5. AlwaysServed'
      <3>1. CASE excused \/ At(c, "set")
        BY <2>1, <3>1 DEF AlwaysServed
      <3>2. CASE ~(excused \/ At(c, "set"))
        <4>1. Active # {} \/ \E d \in Callers : At(d, "set") /\ d # c
          BY <3>2 DEF AlwaysServed
        <4> QED
          BY <2>2, <2>3, <4>1 DEF AlwaysServed
      <3> QED
        BY <3>1, <3>2
    <2> QED
      BY <2>4, <2>5
  <1> QED
    BY <1>2, <1>3, <1>4, <1>5, <1>6, <1>7, <1>8, <1>9, <1>10, <1>11, <1>12
       DEF Request, Create, Update, Activate, Delete

-----------------------------------------------------------------------------
(* The caches *)

\* A request either writes rows and ends what the replicas were told, or leaves
\* all of that alone; it never touches the caches and the loads.
LEMMA WriteEndsFresh ==
    ASSUME TypeInv, TableInv, NEW c \in Callers, Request(c)
    PROVE  /\ UNCHANGED <<cache, load>>
           /\ Grows
           /\ fresh' = {} \/ UNCHANGED <<rows, fresh>>
  <1>1. CASE CreateInsert(c) \/ UpdateInsert(c) \/ Deactivate(c) \/ SetActive(c) \/ DeleteRow(c)
    <2>1. UNCHANGED <<cache, load>> /\ fresh' = {}
      BY <1>1 DEF CreateInsert, UpdateInsert, Insert, Deactivate, SetActive, DeleteRow, engine
    <2> QED
      BY <1>1, <2>1, RowsStep
  <1>2. ASSUME UNCHANGED <<rows, cache, load, fresh>>
        PROVE  UNCHANGED <<cache, load>> /\ Grows /\ UNCHANGED <<rows, fresh>>
    BY <1>2 DEF Grows, Used, IsRow
  <1>3. CASE QueryRaises(c)
    BY <1>2, <1>3 DEF QueryRaises, engine
  <1>4. ASSUME \/ \E n \in Names, g \in Graphs : CreateFlow(c, n, g)
               \/ \E i \in Ids, d \in Edits : UpdateFind(c, i, d)
               \/ UpdateReread(c)
               \/ \E i \in Ids : ActivateFind(c, i) \/ DeleteFind(c, i)
               \/ Refused(c)
               \/ Accepted(c)
        PROVE  UNCHANGED <<rows, cache, load, fresh>>
    BY <1>4, FindStep DEF TypeInv, table, engine, history
  <1> QED
    BY <1>1, <1>2, <1>3, <1>4 DEF Request, Create, Update, Activate, Delete

\* Rows change under a load: what was selected is still there or is deleted.
LEMMA LoadsSurvive ==
    ASSUME TypeInv, TypeInv', LoadInv, Grows, UNCHANGED <<cache, load>>
    PROVE  LoadInv'
  <1>1. \A t \in Readers : load[t] # Idle => load[t].flows \subseteq CachedFlow
    BY DEF TypeInv, TypeOK
  <1>2. \A r \in Replicas : cache[r] # Missing => cache[r].flows \subseteq CachedFlow
    BY DEF TypeInv, TypeOK
  <1>3. \A f \in CachedFlow : f.id \in Ids
    BY DEF CachedFlow
  <1>4. \A i \in Ids : rows[i].state = "deleted" => rows'[i].state = "deleted"
    <2> SUFFICES ASSUME NEW i \in Ids, rows[i].state = "deleted"
                 PROVE  rows'[i].state = "deleted"
      OBVIOUS
    <2>1. Used(i)' /\ ~IsRow(i)'
      BY DEF Grows, Used, IsRow
    <2>2. rows'[i] \in Row \cup [state : {"unused", "deleted"}]
      BY DEF TypeInv, TypeOK
    <2> QED
      BY <2>1, <2>2 DEF Used, IsRow, Row
  <1>5. \A t \in Readers : load'[t].at = "nodes" => \A f \in load'[t].flows : Used(f.id)'
    BY <1>1, <1>3 DEF LoadInv, Grows, Idle
  <1>6. \A t \in Readers : load'[t].at = "store" =>
           \A f \in load'[t].flows : f.whole \/ rows'[f.id].state = "deleted"
    BY <1>1, <1>3, <1>4 DEF LoadInv, Idle
  <1>7. CachedFlowsWhole'
    BY <1>2, <1>3, <1>4 DEF LoadInv, CachedFlowsWhole
  <1> QED
    BY <1>5, <1>6, <1>7 DEF LoadInv

LEMMA FreshSurvives ==
    ASSUME FreshInv, UNCHANGED <<cache, load>>, fresh' = {} \/ UNCHANGED <<rows, fresh>>
    PROVE  FreshInv'
  <1>1. CASE fresh' = {}
    BY <1>1 DEF FreshInv, ReloadTakesEffect
  <1>2. CASE UNCHANGED <<rows, fresh>>
    BY <1>2 DEF FreshInv, ReloadTakesEffect, Serving, Active, IsRow
  <1> QED
    BY <1>1, <1>2


\* The steps of the engine leave the rows alone.
LEMMA EngineStep ==
    ASSUME TypeInv, LoadInv, FreshInv,
           \/ \E r \in Replicas : Reload(r) \/ CacheExpires(r)
           \/ ReloadLost
           \/ \E t \in Readers : Get(t)
    PROVE  LoadInv' /\ FreshInv'
  <1> USE FlowAdminAssumption DEF TypeInv
  <1>0. rows' = rows /\ Active' = Active
    BY EngineRest DEF table, Active, IsRow
  <1>t. /\ cache \in [Replicas -> {Missing} \cup [at : {"cached"}, flows : SUBSET CachedFlow]]
        /\ load \in [Readers -> {Idle} \cup [at : {"nodes", "store"}, flows : SUBSET CachedFlow]]
    BY DEF TypeOK
  <1>i. \A f \in CachedFlow : f.id \in Ids
    BY DEF CachedFlow
  <1>s. Serving(FALSE)' = Serving(FALSE) /\ Serving(TRUE)' = Serving(TRUE)
    BY <1>0 DEF Serving
  <1>e. \A S, T : Entry(S) = Entry(T) <=> S = T
    BY DEF Entry
  <1>r. ReloadTakesEffect <=> \A r \in fresh : cache[r] # Missing => cache[r] = Entry(Serving(TRUE))
    BY DEF ReloadTakesEffect, Serving
  <1>p. ReloadTakesEffect' <=>
           \A r \in fresh' : cache'[r] # Missing => cache'[r] = Entry(Serving(TRUE))
    BY <1>0 DEF ReloadTakesEffect, Serving
  <1>d. Idle.at = "idle"
    BY DEF Idle
  \* Entries are dropped, or stay.
  <1>1. ASSUME load' = load,
               \A r \in Replicas : cache'[r] = cache[r] \/ cache'[r] = Missing,
               fresh' \subseteq Replicas,
               \A r \in fresh' \ fresh :
                  cache'[r] = Missing /\ \A t \in Readers : Home(t) = r => load[t] = Idle
        PROVE  LoadInv' /\ FreshInv'
    <2>1. CachedFlowsWhole'
      BY <1>0, <1>1 DEF LoadInv, CachedFlowsWhole
    <2>2. LoadInv'
      BY <1>0, <1>1, <2>1 DEF LoadInv, Used
    <2>3. ReloadTakesEffect'
      BY <1>1, <1>r, <1>p DEF FreshInv
    <2>4. \A t \in Readers : Home(t) \in fresh' =>
             /\ load'[t].at = "nodes" => load'[t].flows = Serving(FALSE)
             /\ load'[t].at = "store" => load'[t].flows = Serving(TRUE)
      BY <1>1, <1>d DEF FreshInv
    <2> QED
      BY <1>s, <2>2, <2>3, <2>4 DEF FreshInv
  <1>2. ASSUME NEW r \in Replicas, Reload(r)
        PROVE  LoadInv' /\ FreshInv'
    <2>1. load' = load /\ \A q \in Replicas : cache'[q] = cache[q] \/ cache'[q] = Missing
      BY <1>2, <1>t DEF Reload
    <2>2. fresh' \subseteq Replicas
      BY <1>2 DEF Reload, TypeOK
    <2>3. \A q \in fresh' \ fresh : q = r /\ \A t \in Readers : Home(t) = r => load[t] = Idle
      BY <1>2 DEF Reload
    <2>4. cache'[r] = Missing
      BY <1>2, <1>t DEF Reload
    <2> QED
      BY <1>1, <2>1, <2>2, <2>3, <2>4
  <1>3. ASSUME NEW r \in Replicas, CacheExpires(r)
        PROVE  LoadInv' /\ FreshInv'
    <2>1. load' = load /\ \A q \in Replicas : cache'[q] = cache[q] \/ cache'[q] = Missing
      BY <1>3, <1>t DEF CacheExpires
    <2>2. fresh' = fresh /\ fresh \subseteq Replicas
      BY <1>3 DEF CacheExpires, TypeOK, history
    <2> QED
      BY <1>1, <2>1, <2>2
  <1>4. CASE ReloadLost
    <2>1. load' = load /\ cache' = cache /\ fresh' = fresh /\ fresh \subseteq Replicas
      BY <1>4 DEF ReloadLost, TypeOK, history
    <2> QED
      BY <1>1, <2>1
  \* A load goes one step on.
  <1>5. ASSUME NEW t \in Readers, UNCHANGED <<cache, fresh>>,
               \A u \in Readers \ {t} : load'[u] = load[u],
               load'[t].at = "nodes" => \A f \in load'[t].flows : Used(f.id),
               load'[t].at = "store" =>
                  \A f \in load'[t].flows : f.whole \/ rows[f.id].state = "deleted",
               Home(t) \in fresh =>
                  /\ load'[t].at = "nodes" => load'[t].flows = Serving(FALSE)
                  /\ load'[t].at = "store" => load'[t].flows = Serving(TRUE)
        PROVE  LoadInv' /\ FreshInv'
    <2>1. CachedFlowsWhole' /\ ReloadTakesEffect'
      BY <1>0, <1>5, <1>r, <1>p DEF LoadInv, CachedFlowsWhole, FreshInv
    <2>2. LoadInv'
      BY <1>0, <1>5, <2>1 DEF LoadInv, Used
    <2>3. \A u \in Readers : Home(u) \in fresh' =>
             /\ load'[u].at = "nodes" => load'[u].flows = Serving(FALSE)
             /\ load'[u].at = "store" => load'[u].flows = Serving(TRUE)
      BY <1>5 DEF FreshInv
    <2> QED
      BY <1>s, <2>1, <2>2, <2>3 DEF FreshInv
  <1>6. ASSUME NEW t \in Readers, SelectFlows(t)
        PROVE  LoadInv' /\ FreshInv'
    <2>1. load'[t].flows = Serving(FALSE) /\ \A u \in Readers \ {t} : load'[u] = load[u]
      BY <1>6, <1>t DEF SelectFlows, Serving
    <2>2. load'[t].at = "store" => Active = {}
      BY <1>6, <1>t DEF SelectFlows
    <2>3. load'[t].at = "store" => Serving(FALSE) = {} /\ Serving(TRUE) = {}
      BY <2>2 DEF Serving
    <2>4. \A f \in Serving(FALSE) : Used(f.id)
      BY DEF Serving, Active, Used, IsRow
    <2>5. UNCHANGED <<cache, fresh>>
      BY <1>6 DEF SelectFlows, history
    <2> QED
      BY <1>5, <2>1, <2>3, <2>4, <2>5
  <1>7. ASSUME NEW t \in Readers, SelectNodes(t)
        PROVE  LoadInv' /\ FreshInv'
    <2> DEFINE F == {[id |-> f.id, whole |-> IsRow(f.id)] : f \in load[t].flows}
    <2>1. load'[t].at = "store" /\ load'[t].flows = F /\ \A u \in Readers \ {t} : load'[u] = load[u]
      BY <1>7, <1>t DEF SelectNodes
    <2>2. load[t].at = "nodes" /\ load[t].flows \subseteq CachedFlow
      BY <1>7, <1>t DEF SelectNodes, Idle
    <2>3. ASSUME NEW f \in load[t].flows
          PROVE  IsRow(f.id) \/ rows[f.id].state = "deleted"
      <3>1. f.id \in Ids /\ Used(f.id)
        BY <1>i, <2>2 DEF LoadInv
      <3>2. rows[f.id] \in Row \cup [state : {"unused", "deleted"}]
        BY <3>1 DEF TypeOK
      <3> QED
        BY <3>1, <3>2 DEF Used, IsRow, Row
    <2>4. \A f \in F : f.whole \/ rows[f.id].state = "deleted"
      BY <2>3
    <2>5. ASSUME Home(t) \in fresh
          PROVE  F = Serving(TRUE)
      <3>1. load[t].flows = Serving(FALSE)
        BY <2>2, <2>5 DEF FreshInv
      <3>2. \A i \in Active : IsRow(i) = TRUE
        BY DEF Active, IsRow
      <3>3. ASSUME NEW f \in F
            PROVE  f \in Serving(TRUE)
        <4>1. PICK e \in load[t].flows : f = [id |-> e.id, whole |-> IsRow(e.id)]
          OBVIOUS
        <4>2. PICK i \in Active : e = [id |-> i, whole |-> FALSE]
          BY <3>1 DEF Serving
        <4>3. e.id = i /\ IsRow(i) = TRUE
          BY <3>2, <4>2
        <4> QED
          BY <4>1, <4>3 DEF Serving
      <3>4. ASSUME NEW f \in Serving(TRUE)
            PROVE  f \in F
        <4>1. PICK i \in Active : f = [id |-> i, whole |-> TRUE]
          BY DEF Serving
        <4>2. PICK e \in load[t].flows : e = [id |-> i, whole |-> FALSE]
          BY <3>1 DEF Serving
        <4>3. e.id = i /\ IsRow(e.id) = TRUE
          BY <3>2, <4>2
        <4>4. f = [id |-> e.id, whole |-> IsRow(e.id)]
          BY <4>1, <4>3
        <4> QED
          BY <4>4
      <3> QED
        BY <3>3, <3>4
    <2>6. UNCHANGED <<cache, fresh>>
      BY <1>7 DEF SelectNodes, history
    <2> HIDE DEF F
    <2> QED
      BY <1>5, <2>1, <2>4, <2>5, <2>6
  <1>8. ASSUME NEW t \in Readers, LoadRaises(t)
        PROVE  LoadInv' /\ FreshInv'
    <2>1. load'[t] = Idle /\ \A u \in Readers \ {t} : load'[u] = load[u]
      BY <1>8, <1>t DEF LoadRaises
    <2>2. UNCHANGED <<cache, fresh>>
      BY <1>8 DEF LoadRaises, history
    <2> QED
      BY <1>5, <1>d, <2>1, <2>2
  <1>9. ASSUME NEW t \in Readers, StoreFlows(t)
        PROVE  LoadInv' /\ FreshInv'
    <2>1. load'[t] = Idle /\ (\A u \in Readers \ {t} : load'[u] = load[u]) /\ fresh' = fresh
      BY <1>9, <1>t DEF StoreFlows, history
    <2>2. /\ Home(t) \in Replicas /\ cache'[Home(t)] = Entry(load[t].flows)
          /\ \A r \in Replicas \ {Home(t)} : cache'[r] = cache[r]
      BY <1>9, <1>t DEF StoreFlows
    <2>3. Entry(load[t].flows).flows = load[t].flows /\ load[t].at = "store"
      BY <1>9 DEF Entry, StoreFlows
    <2>4. CachedFlowsWhole'
      BY <1>0, <2>2, <2>3 DEF LoadInv, CachedFlowsWhole
    <2>5. LoadInv'
      BY <1>0, <2>1, <2>4 DEF LoadInv, Used, Idle
    <2>6. ReloadTakesEffect'
      <3> SUFFICES ASSUME NEW r \in fresh, cache'[r] # Missing
                   PROVE  cache'[r] = Entry(Serving(TRUE))
        BY <1>p, <2>1
      <3>1. r \in Replicas
        BY DEF TypeOK
      <3>2. CASE r = Home(t)
        BY <2>2, <2>3, <3>2 DEF FreshInv
      <3>3. CASE r # Home(t)
        BY <1>r, <2>2, <3>1, <3>3 DEF FreshInv
      <3> QED
        BY <3>2, <3>3
    <2>7. \A u \in Readers : Home(u) \in fresh' =>
             /\ load'[u].at = "nodes" => load'[u].flows = Serving(FALSE)
             /\ load'[u].at = "store" => load'[u].flows = Serving(TRUE)
      BY <1>d, <2>1 DEF FreshInv
    <2> QED
      BY <1>s, <2>5, <2>6, <2>7 DEF FreshInv
  <1> QED
    BY <1>2, <1>3, <1>4, <1>6, <1>7, <1>8, <1>9 DEF Get

-----------------------------------------------------------------------------
(* The theorems *)

LEMMA InitInv == Init => IInv
  <1> SUFFICES ASSUME Init
               PROVE  IInv
    OBVIOUS
  <1> USE FlowAdminAssumption DEF Init, IsRow, Used, At, Idle, Missing
  <1>1. TypeOK
    <2>1. rows \in [Ids -> Row \cup [state : {"unused", "deleted"}]]
      OBVIOUS
    <2>2. cache \in [Replicas -> {Missing} \cup [at : {"cached"}, flows : SUBSET CachedFlow]]
      OBVIOUS
    <2>3. load \in [Readers -> {Idle} \cup [at : {"nodes", "store"}, flows : SUBSET CachedFlow]]
      OBVIOUS
    <2>4. reloads \in 0..MaxReloads /\ faults \in 0..MaxFaults
      OBVIOUS
    <2>5. \A c \in Callers : req[c].at = "idle"
      OBVIOUS
    <2> QED
      BY <2>1, <2>2, <2>3, <2>4, <2>5 DEF TypeOK
  <1>2. ReqTyped
    BY DEF ReqTyped, Reqs
  <1>3. SearchInv
    BY InitSearch
  <1>4. Active = {}
    BY DEF Active
  <1>5. RowsInv
    BY DEF RowsInv
  <1>6. RequestsInv
    BY DEF RequestsInv, Holds, Validating
  <1>7. SoleInv /\ AlwaysServed
    BY <1>4 DEF SoleInv, AlwaysServed
  <1>8. LoadInv /\ FreshInv
    BY DEF LoadInv, FreshInv, CachedFlowsWhole, ReloadTakesEffect
  <1> QED
    BY <1>1, <1>2, <1>3, <1>5, <1>6, <1>7, <1>8 DEF IInv, TypeInv, TableInv

LEMMA NextInv ==
    ASSUME IInv, [Next]_vars
    PROVE  IInv'
  <1> USE DEF IInv
  <1>1. TypeInv' /\ TableInv'
    BY TypeStep, TableStep
  <1>2. ASSUME NEW c \in Callers, Request(c)
        PROVE  SoleInv' /\ AlwaysServed' /\ LoadInv' /\ FreshInv'
    BY <1>1, <1>2, ActiveStep, WriteEndsFresh, LoadsSurvive, FreshSurvives
  <1>3. ASSUME UNCHANGED <<rows, req, mixed, excused>>
        PROVE  SoleInv' /\ AlwaysServed'
    BY <1>3 DEF SoleInv, AlwaysServed, Active, IsRow, At
  <1>4. ASSUME UNCHANGED <<rows, cache, load, fresh>>
        PROVE  LoadInv' /\ FreshInv'
    <2>1. Grows
      BY <1>4 DEF Grows, Used, IsRow
    <2> QED
      BY <1>1, <1>4, <2>1, LoadsSurvive, FreshSurvives
  <1>5. CASE Search /\ UNCHANGED <<table, req, engine, history>>
    BY <1>1, <1>3, <1>4, <1>5 DEF table, engine, history
  <1>6. CASE \/ \E r \in Replicas : Reload(r) \/ CacheExpires(r)
             \/ ReloadLost
             \/ \E t \in Readers : Get(t)
    BY <1>1, <1>3, <1>6, EngineRest, EngineStep DEF table
  <1>7. CASE UNCHANGED vars
    BY <1>1, <1>3, <1>4, <1>7 DEF vars, table, engine, history
  <1> QED
    BY <1>1, <1>2, <1>5, <1>6, <1>7 DEF Next

LEMMA Invariant == Spec => []IInv
  BY InitInv, NextInv, PTL DEF Spec

\* Every state of the flows, of the requests and of the engine's caches has its
\* type: a version, for one, never exceeds the id of its row.
THEOREM TypeCorrect == Spec => []TypeOK
  <1>1. IInv => TypeOK
    BY DEF IInv, TypeInv
  <1> QED
    BY <1>1, Invariant, PTL

\* ActivateFlowUseCase: a tenant has one active flow at most, whatever fails and
\* however many requests interleave, unless activations ran into each other.
THEOREM OneActiveFlow == Spec => []SoleActive
  <1>1. IInv => SoleActive
    <2> SUFFICES ASSUME IInv, ~mixed
                 PROVE  Cardinality(Active) <= 1
      BY DEF SoleActive
    <2>1. \A i, j \in Active : i = j
      BY DEF IInv, SoleInv
    <2>2. CASE Active = {}
      BY <2>2, FS_EmptySet
    <2>3. CASE Active # {}
      <3>1. PICK i : Active = {i}
        BY <2>1, <2>3
      <3> QED
        BY <3>1, FS_Singleton
    <2> QED
      BY <2>2, <2>3
  <1> QED
    BY <1>1, Invariant, PTL

\* ActivateFlowUseCase, DeleteFlowUseCase: a tenant that has activated a flow keeps
\* one, but between the updates of an activation, after one that stopped there, or
\* after the active flow was deleted.
THEOREM Served == Spec => []AlwaysServed
  <1>1. IInv => AlwaysServed
    BY DEF IInv
  <1> QED
    BY <1>1, Invariant, PTL

\* UpdateFlowUseCase, createNewVersion: what is stored has been validated as it
\* stands, although it is merged from a second read of the flow.
THEOREM StoredWellFormed == Spec => []StoredGraphsWellFormed
  <1>1. IInv => StoredGraphsWellFormed
    BY DEF IInv, TableInv, RowsInv, StoredGraphsWellFormed
  <1> QED
    BY <1>1, Invariant, PTL

\* PostgresFlowRepo._load_from_db: a flow served without its nodes was deleted
\* between the two queries.
THEOREM CachedWhole == Spec => []CachedFlowsWhole
  <1>1. IInv => CachedFlowsWhole
    BY DEF IInv, LoadInv
  <1> QED
    BY <1>1, Invariant, PTL

\* PostgresFlowRepo.reload_tenant: a replica that a reload has reached while it was
\* not loading serves exactly the active flows until the next write.
THEOREM ReloadWorks == Spec => []ReloadTakesEffect
  <1>1. IInv => ReloadTakesEffect
    BY DEF IInv, FreshInv
  <1> QED
    BY <1>1, Invariant, PTL

\* FlowGraphValidator.validate, as the use cases call it: whatever requests come
\* and go, the search is exact about the graph it was asked about.
THEOREM AnswersExact == Spec => []SearchExact
  <1>1. IInv => SearchExact
    BY DEF IInv, TypeInv, SearchInv
  <1> QED
    BY <1>1, Invariant, PTL
=============================================================================
