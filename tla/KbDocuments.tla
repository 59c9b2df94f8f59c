----------------------------- MODULE KbDocuments -----------------------------
(***************************************************************************)
(* The life of a knowledge-base document: the upload and delete requests of *)
(* tenant-api (application/kb), which touch MinIO, Postgres and the Redis   *)
(* stream one after the other, and the rag-indexer worker                   *)
(* (rag_indexer/consumer.py, application/index_document.py), which follows  *)
(* the stream and keeps the vectors in ChromaDB.                            *)
(*                                                                          *)
(* Requests interleave with each other and with the worker at every call to *)
(* a store.  There is one worker: docker-compose.yml runs rag-indexer       *)
(* without replicas.  A document stands for one upload request, its file,   *)
(* its row and its vectors; the content is abstracted to whether any text   *)
(* comes out of it.                                                         *)
(*                                                                          *)
(* Left out is the MAXLEN ~ 10000 of RedisIndexingQueue's XADD: a worker    *)
(* ten thousand jobs behind would lose the oldest ones, and their documents *)
(* would stay pending, or their vectors in place, for good.                 *)
(***************************************************************************)
EXTENDS Integers, FiniteSets, Sequences

CONSTANTS
    Docs,           \* upload requests of one tenant
    Blank,          \* documents without any text
    Callers,        \* DELETE requests
    None,           \* no document, no job
    MaxDocuments,   \* maxDocuments, the quota
    MaxRetries,     \* _MAX_RETRIES
    ReadCount,      \* _READ_COUNT, entries per XREADGROUP
    MaxFaults       \* bound: failing calls and crashes

ASSUME KbAssumption ==
    /\ Blank \subseteq Docs
    /\ None \notin Docs \cup Nat
    /\ MaxDocuments \in Nat /\ MaxFaults \in Nat
    /\ MaxRetries \in Nat \ {0} /\ ReadCount \in Nat \ {0}

VARIABLES
    up,         \* where each upload request stands
    del,        \* each DELETE request: its document and where it stands
    files,      \* MinIO: the documents whose file is stored
    row,        \* Postgres: the status column, "absent" before and "deleted" after
    jobs,       \* the stream indexing:{tenant}
    delivered,  \* how many entries the group has delivered
    pel,        \* the group's pending entries list
    vectors,    \* ChromaDB: the documents with chunks in the collection
    pc,         \* where the worker stands
    cur,        \* the entry it processes
    batch,      \* the entries it has read and not yet started
    faults,     \* how many calls have failed
    purged      \* history: documents whose vectors a delete job removed

requests == <<up, del>>
stream   == <<jobs, delivered, pel>>
worker   == <<pc, cur, batch>>
vars     == <<requests, files, row, stream, vectors, worker, faults, purged>>

Job    == [doc : Docs, type : {"index", "delete"}]
Idle   == [doc |-> None, at |-> "idle"]
Rows   == {d \in Docs : row[d] \notin {"absent", "deleted"}}
Doc    == jobs[cur].doc

TypeOK ==
    /\ up \in [Docs -> {"new", "counted", "stored", "created", "done", "failed"}]
    /\ del \in [Callers -> {Idle} \cup
                   [doc : Docs, at : {"found", "erased", "removed", "done"}]]
    /\ files \subseteq Docs
    /\ row \in [Docs -> {"absent", "pending", "indexing", "indexed", "failed", "deleted"}]
    /\ jobs \in Seq(Job)
    /\ delivered \in 0..Len(jobs)
    /\ pel \subseteq 1..delivered
    /\ vectors \subseteq Docs
    /\ pc \in {"next", "purge", "status", "mark", "extract", "upsert", "indexed",
               "fail", "ack"}
    /\ cur \in (1..delivered) \cup {None}
    /\ cur = None <=> pc = "next"
    /\ batch \subseteq 1..delivered
    /\ faults \in 0..MaxFaults
    /\ purged \subseteq Docs

Init ==
    /\ up = [d \in Docs |-> "new"]
    /\ del = [k \in Callers |-> Idle]
    /\ files = {}
    /\ row = [d \in Docs |-> "absent"]
    /\ jobs = <<>>
    /\ delivered = 0
    /\ pel = {}
    /\ vectors = {}
    /\ pc = "next" /\ cur = None /\ batch = {}
    /\ faults = 0
    /\ purged = {}

Fault   == faults < MaxFaults /\ faults' = faults + 1
NoFault == UNCHANGED faults

\* At most one job per upload and one per row that is deleted.
MaxJobs == 2 * Cardinality(Docs)

-----------------------------------------------------------------------------
(* POST /kb/documents: UploadDocumentUseCase *)

UploadTo(d, step) == up' = [up EXCEPT ![d] = step]

\* countByTenant: within the quota, or refused.
UploadCount(d) ==
    /\ up[d] = "new"
    /\ UploadTo(d, IF Cardinality(Rows) < MaxDocuments THEN "counted" ELSE "failed")
    /\ UNCHANGED <<del, files, row, stream, vectors, worker, faults, purged>>

UploadFile(d) ==
    /\ up[d] = "counted"
    /\ files' = files \cup {d}
    /\ UploadTo(d, "stored")
    /\ UNCHANGED <<del, row, stream, vectors, worker, faults, purged>>

UploadRow(d) ==
    /\ up[d] = "stored"
    /\ row' = [row EXCEPT ![d] = "pending"]
    /\ UploadTo(d, "created")
    /\ UNCHANGED <<del, files, stream, vectors, worker, faults, purged>>

\* XADD; nothing is trimmed.
UploadEnqueue(d) ==
    /\ up[d] = "created"
    /\ jobs' = Append(jobs, [doc |-> d, type |-> "index"])
    /\ UploadTo(d, "done")
    /\ UNCHANGED <<del, files, row, delivered, pel, vectors, worker, faults, purged>>

\* A call raises, or the process dies: what was done so far stays.
UploadFails(d) ==
    /\ up[d] \in {"counted", "stored", "created"}
    /\ Fault
    /\ UploadTo(d, "failed")
    /\ UNCHANGED <<del, files, row, stream, vectors, worker, purged>>

-----------------------------------------------------------------------------
(* DELETE /kb/documents/:id: DeleteDocumentUseCase *)

DeleteTo(k, step) == del' = [del EXCEPT ![k].at = step]

DeleteFind(k) ==
    /\ del[k] = Idle
    /\ \E d \in Rows : del' = [del EXCEPT ![k] = [doc |-> d, at |-> "found"]]
    /\ UNCHANGED <<up, files, row, stream, vectors, worker, faults, purged>>

\* (mutant) the file stays in MinIO
DeleteFile_Keeps(k) ==
    /\ del[k].at = "found"
    /\ DeleteTo(k, "erased")
    /\ UNCHANGED <<up, files, row, stream, vectors, worker, faults, purged>>

DeleteFile(k) ==
    /\ del[k].at = "found"
    /\ files' = files \ {del[k].doc}
    /\ DeleteTo(k, "erased")
    /\ UNCHANGED <<up, row, stream, vectors, worker, faults, purged>>

\* The row is deleted; Prisma raises when another request was faster.
DeleteRow(k) ==
    /\ del[k].at = "erased"
    /\ IF del[k].doc \in Rows
          THEN /\ row' = [row EXCEPT ![del[k].doc] = "deleted"]
               /\ DeleteTo(k, "removed")
          ELSE /\ DeleteTo(k, "done")
               /\ UNCHANGED row
    /\ UNCHANGED <<up, files, stream, vectors, worker, faults, purged>>

DeleteEnqueue(k) ==
    /\ del[k].at = "removed"
    /\ jobs' = Append(jobs, [doc |-> del[k].doc, type |-> "delete"])
    /\ DeleteTo(k, "done")
    /\ UNCHANGED <<up, files, row, delivered, pel, vectors, worker, faults, purged>>

DeleteFails(k) ==
    /\ del[k].at \notin {"idle", "done"}
    /\ Fault
    /\ DeleteTo(k, "done")
    /\ UNCHANGED <<up, files, row, stream, vectors, worker, purged>>

-----------------------------------------------------------------------------
(* The worker: IndexingConsumer and IndexDocumentUseCase *)

\* (mutant) the batch size is not cut down to what the stream holds
Readable_Unclamped == ReadCount

\* How many entries one XREADGROUP ">" hands out.
Readable ==
    IF Len(jobs) - delivered < ReadCount THEN Len(jobs) - delivered ELSE ReadCount

\* XREADGROUP.
ReadJobs ==
    /\ pc = "next" /\ batch = {}
    /\ delivered < Len(jobs)
    /\ delivered' = delivered + Readable
    /\ batch' = (delivered + 1)..(delivered + Readable)
    /\ pel' = pel \cup batch'
    /\ UNCHANGED <<requests, files, row, jobs, vectors, pc, cur, faults, purged>>

\* (mutant) _tick never sweeps
Sweep_Never == FALSE

\* XAUTOCLAIM: some pending entries have been idle for ten minutes.
Sweep ==
    /\ pc = "next" /\ batch = {}
    /\ batch' \in (SUBSET pel) \ {{}}
    /\ UNCHANGED <<requests, files, row, stream, vectors, pc, cur, faults, purged>>

WorkerTo(step) == pc' = step /\ UNCHANGED <<cur, batch>>

\* _process_message returns; the entry stays pending unless it was acknowledged.
Done == pc' = "next" /\ cur' = None /\ UNCHANGED batch

TakeJob ==
    /\ pc = "next"
    /\ \E e \in batch :
        /\ \A f \in batch : e <= f
        /\ cur' = e
        /\ batch' = batch \ {e}
        /\ pc' = IF jobs[e].type = "delete" THEN "purge" ELSE "status"
    /\ UNCHANGED <<requests, files, row, stream, vectors, faults, purged>>

\* A delete job: delete_by_document hides every failure, and the job is done.
Purge ==
    /\ pc = "purge"
    /\ \/ vectors' = vectors \ {Doc} /\ purged' = purged \cup {Doc} /\ NoFault
       \/ Fault /\ UNCHANGED <<vectors, purged>>
    /\ WorkerTo("ack")
    /\ UNCHANGED <<requests, files, row, stream>>

\* execute() skips a document that is indexed already.
CheckStatus ==
    /\ pc = "status"
    /\ WorkerTo(IF row[Doc] = "indexed" THEN "ack" ELSE "mark")
    /\ UNCHANGED <<requests, files, row, stream, vectors, faults, purged>>

\* get_status raises outside the try block: no status is written.
StatusRaises ==
    /\ pc = "status"
    /\ Fault
    /\ Done
    /\ UNCHANGED <<requests, files, row, stream, vectors, purged>>

\* An UPDATE of the status column; it changes nothing when the row is gone.
Update(status) == row' = [row EXCEPT ![Doc] = IF Doc \in Rows THEN status ELSE @]

MarkIndexing ==
    /\ pc = "mark"
    /\ Update("indexing")
    /\ WorkerTo("extract")
    /\ UNCHANGED <<requests, files, stream, vectors, faults, purged>>

\* Download, text extraction, chunking and embedding: nothing is written.  The
\* download raises when the file has been deleted.
Extract ==
    /\ pc = "extract"
    /\ WorkerTo(CASE Doc \notin files -> "fail"
                  [] Doc \in Blank    -> "indexed"
                  [] OTHER            -> "upsert")
    /\ UNCHANGED <<requests, files, row, stream, vectors, faults, purged>>

\* (mutant) upsert hides its failures, as delete_by_document does
Upsert_Skipped ==
    /\ pc = "upsert"
    /\ \/ vectors' = vectors \cup {Doc} /\ NoFault
       \/ Fault /\ UNCHANGED vectors
    /\ WorkerTo("indexed")
    /\ UNCHANGED <<requests, files, row, stream, purged>>

Upsert ==
    /\ pc = "upsert"
    /\ vectors' = vectors \cup {Doc}
    /\ WorkerTo("indexed")
    /\ UNCHANGED <<requests, files, row, stream, faults, purged>>

SetIndexed ==
    /\ pc = "indexed"
    /\ Update("indexed")
    /\ WorkerTo("ack")
    /\ UNCHANGED <<requests, files, stream, vectors, faults, purged>>

\* A step of _run raises, or the alarm goes off; the failing call may have
\* taken effect.
RunRaises ==
    /\ Fault
    /\ \/ pc \in {"mark", "extract"} /\ UNCHANGED <<row, vectors>>
       \/ /\ pc = "upsert"
          /\ vectors' \in {vectors, vectors \cup {Doc}}
          /\ UNCHANGED row
       \/ /\ pc = "indexed"
          /\ Update("indexed") \/ UNCHANGED row
          /\ UNCHANGED vectors
    /\ WorkerTo("fail")
    /\ UNCHANGED <<requests, files, stream, purged>>

\* The "_retry_count" of a stream entry: no code writes the field.
RetryCount(e) == 0

\* set_failed, which may fail; beyond MaxRetries the entry is acknowledged.
SetFailed ==
    /\ pc = "fail"
    /\ \/ Update("failed") /\ NoFault
       \/ Fault /\ UNCHANGED row
    /\ IF RetryCount(cur) >= MaxRetries THEN WorkerTo("ack") ELSE Done
    /\ UNCHANGED <<requests, files, stream, vectors, purged>>

\* XACK; a failing call is logged only.
AckJob ==
    /\ pc = "ack"
    /\ \/ pel' = pel \ {cur} /\ NoFault
       \/ Fault /\ UNCHANGED pel
    /\ Done
    /\ UNCHANGED <<requests, files, row, jobs, delivered, vectors, purged>>

\* The worker dies and is restarted.
CrashWorker ==
    /\ cur # None \/ batch # {}
    /\ Fault
    /\ pc' = "next" /\ cur' = None /\ batch' = {}
    /\ UNCHANGED <<requests, files, row, stream, vectors, purged>>

-----------------------------------------------------------------------------
Upload(d) ==
    \/ UploadCount(d) \/ UploadFile(d) \/ UploadRow(d) \/ UploadEnqueue(d)
    \/ UploadFails(d)

Delete(k) ==
    \/ DeleteFind(k) \/ DeleteFile(k) \/ DeleteRow(k) \/ DeleteEnqueue(k)
    \/ DeleteFails(k)

Work ==
    \/ ReadJobs \/ Sweep \/ TakeJob
    \/ Purge
    \/ CheckStatus \/ StatusRaises \/ MarkIndexing \/ Extract
    \/ Upsert \/ SetIndexed \/ RunRaises \/ SetFailed
    \/ AckJob

Next ==
    \/ \E d \in Docs : Upload(d)
    \/ \E k \in Callers : Delete(k)
    \/ Work
    \/ CrashWorker

Spec == Init /\ [][Next]_vars

\* The worker's loop keeps running, and its sweep, a step of every minute, comes
\* round to every pending entry.
FairSpec ==
    /\ Spec
    /\ WF_vars(Work)
    /\ SF_vars(ReadJobs)
    /\ \A e \in 1..MaxJobs : SF_vars(Sweep /\ e \in batch')

-----------------------------------------------------------------------------
(* Properties *)

\* Deleted for good: once a delete job has removed the vectors of a document,
\* no retried, late or interrupted index job brings them back.
\* (Storage before row before job in DeleteDocumentUseCase, one worker.)
NoResurrection == purged \cap vectors = {}

\* A document that the list shows as indexed can be found: its vectors are in
\* the collection, unless there was no text in it.
IndexedIsSearchable ==
    \A d \in Docs \ Blank : row[d] = "indexed" => d \in vectors

\* Every enqueued document comes to a status, however often the worker dies on
\* the way, unless it is deleted.
JobsSettle ==
    \A d \in Docs :
        up[d] = "done" ~> row[d] \in {"indexed", "failed", "deleted"}

-----------------------------------------------------------------------------
(* What the comments say, and the code does not do *)

\* Something is still under way to remove the vectors of document d.
BeingDeleted(d) ==
    \/ \E k \in Callers : del[k].doc = d /\ del[k].at # "done"
    \/ \E e \in 1..Len(jobs) :
          /\ jobs[e] = [doc |-> d, type |-> "delete"]
          /\ e > delivered \/ e \in pel

\* The retriever of flow-engine searches the whole collection of the tenant.
Queryable(d) == d \in vectors

\* DeleteDocumentUseCase: orphaned vectors cannot be queried.
OrphansNotQueryable ==
    \A d \in Docs : row[d] = "deleted" /\ ~BeingDeleted(d) => ~Queryable(d)

\* consumer.py: an entry that keeps failing is acknowledged in the end, when
\* its retries are used up.
PoisonIsAcked ==
    \A e \in 1..MaxJobs : e \in pel ~> e \notin pel
=============================================================================
