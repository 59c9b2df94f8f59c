-------------------------- MODULE KbDocumentsProofs --------------------------
(***************************************************************************)
(* Proofs about KbDocuments, for any number of documents, requests, jobs    *)
(* and faults.                                                              *)
(***************************************************************************)
EXTENDS KbDocuments, TLAPS

-----------------------------------------------------------------------------
(* The inductive invariant *)

\* A row appears after its file and before its job; a row that is deleted has lost
\* its file before, and gets a delete job only afterwards.
StoresInv ==
    /\ \A d \in Docs : up[d] \in {"new", "counted", "stored"} => row[d] = "absent"
    /\ \A d \in Docs : row[d] = "deleted" => d \notin files
    /\ \A k \in Callers : del[k].at # "idle" => row[del[k].doc] # "absent"
    /\ \A k \in Callers : del[k].at \in {"erased", "removed"} => del[k].doc \notin files
    /\ \A k \in Callers : del[k].at = "removed" => row[del[k].doc] = "deleted"
    /\ \A e \in 1..Len(jobs) : jobs[e].type = "delete" => row[jobs[e].doc] = "deleted"

\* What the worker knows of the entry it processes.
WorkerInv ==
    /\ pc = "purge" => jobs[cur].type = "delete"
    /\ pc = "upsert" => Doc \notin purged
    /\ pc = "indexed" => Doc \in vectors \cup Blank

PurgedInv == \A d \in purged : row[d] = "deleted"

IInv == TypeOK /\ StoresInv /\ WorkerInv /\ PurgedInv /\ NoResurrection /\ IndexedIsSearchable

-----------------------------------------------------------------------------
(* Lemmas *)

\* The worker's entry has been delivered, and its job does not change.
LEMMA CurrentJob ==
    ASSUME TypeOK, pc # "next"
    PROVE  /\ cur \in 1..delivered /\ cur \in 1..Len(jobs)
           /\ Doc \in Docs /\ jobs[cur].type \in {"index", "delete"}
  <1>1. cur \in 1..delivered /\ cur \in 1..Len(jobs)
    BY KbAssumption DEF TypeOK
  <1>2. jobs[cur] \in Job
    BY <1>1 DEF TypeOK
  <1> QED
    BY <1>1, <1>2 DEF Doc, Job

LEMMA EnqueueJob ==
    ASSUME TypeOK, NEW j \in Job, jobs' = Append(jobs, j)
    PROVE  /\ jobs' \in Seq(Job) /\ Len(jobs') = Len(jobs) + 1
           /\ \A e \in 1..Len(jobs) : jobs'[e] = jobs[e]
           /\ jobs'[Len(jobs) + 1] = j
           /\ \A e \in 1..Len(jobs') : e \in 1..Len(jobs) \/ e = Len(jobs) + 1
           /\ delivered \in 0..Len(jobs')
  BY KbAssumption DEF TypeOK

\* A status is written to a row that is there.
LEMMA StatusUpdate ==
    ASSUME TypeOK, pc # "next", NEW s \in {"indexing", "indexed", "failed"}, Update(s)
    PROVE  /\ row' \in [Docs -> {"absent", "pending", "indexing", "indexed", "failed", "deleted"}]
           /\ \A d \in Docs \ {Doc} : row'[d] = row[d]
           /\ row[Doc] \in {"absent", "deleted"} => row'[Doc] = row[Doc]
           /\ row[Doc] \notin {"absent", "deleted"} => row'[Doc] = s
  <1>1. Doc \in Docs
    BY CurrentJob
  <1>2. row \in [Docs -> {"absent", "pending", "indexing", "indexed", "failed", "deleted"}]
    BY DEF TypeOK
  <1>3. PICK d \in Docs : d = Doc
    BY <1>1
  <1>4. row' = [row EXCEPT ![d] = IF d \in Rows THEN s ELSE row[d]]
    BY <1>3 DEF Update
  <1> QED
    BY <1>2, <1>3, <1>4 DEF Rows

\* Every step of a request keeps the type, and a deleted row stays deleted.
LEMMA UploadStep ==
    ASSUME IInv, NEW d \in Docs, Upload(d)
    PROVE  IInv'
  <1> USE KbAssumption DEF IInv
  <1>1. CASE UploadCount(d)
    BY <1>1 DEF UploadCount, UploadTo, TypeOK, StoresInv, WorkerInv, PurgedInv, NoResurrection,
                IndexedIsSearchable, Doc, stream, worker
  <1>2. CASE UploadFile(d)
    BY <1>2 DEF UploadFile, UploadTo, TypeOK, StoresInv, WorkerInv, PurgedInv, NoResurrection,
                IndexedIsSearchable, Doc, stream, worker
  <1>3. CASE UploadRow(d)
    BY <1>3 DEF UploadRow, UploadTo, TypeOK, StoresInv, WorkerInv, PurgedInv, NoResurrection,
                IndexedIsSearchable, Doc, stream, worker
  <1>4. CASE UploadEnqueue(d)
    <2>1. [doc |-> d, type |-> "index"] \in Job
      BY DEF Job
    <2>2. /\ jobs' \in Seq(Job) /\ \A e \in 1..Len(jobs') : e \in 1..Len(jobs) \/ e = Len(jobs) + 1
          /\ delivered \in 0..Len(jobs')
          /\ \A e \in 1..Len(jobs) : jobs'[e] = jobs[e]
          /\ jobs'[Len(jobs) + 1].type = "index"
      BY <1>4, <2>1, EnqueueJob DEF UploadEnqueue
    <2>3. TypeOK'
      BY <1>4, <2>2 DEF UploadEnqueue, UploadTo, TypeOK, worker
    <2>4. StoresInv'
      BY <1>4, <2>2 DEF UploadEnqueue, UploadTo, TypeOK, StoresInv
    <2>5. WorkerInv'
      BY <1>4, <2>2, CurrentJob DEF UploadEnqueue, WorkerInv, Doc, worker
    <2> QED
      BY <1>4, <2>3, <2>4, <2>5 DEF UploadEnqueue, PurgedInv, NoResurrection, IndexedIsSearchable
  <1>5. CASE UploadFails(d)
    BY <1>5 DEF UploadFails, UploadTo, Fault, TypeOK, StoresInv, WorkerInv, PurgedInv,
                NoResurrection, IndexedIsSearchable, Doc, stream, worker
  <1> QED
    BY <1>1, <1>2, <1>3, <1>4, <1>5 DEF Upload

LEMMA DeleteStep ==
    ASSUME IInv, NEW k \in Callers, Delete(k)
    PROVE  IInv'
  <1> USE KbAssumption DEF IInv
  <1>1. CASE DeleteFind(k)
    <2>1. PICK d \in Rows : del' = [del EXCEPT ![k] = [doc |-> d, at |-> "found"]]
      BY <1>1 DEF DeleteFind
    <2>2. d \in Docs /\ row[d] # "absent"
      BY DEF Rows
    <2> QED
      BY <1>1, <2>1, <2>2 DEF DeleteFind, Idle, TypeOK, StoresInv, WorkerInv, PurgedInv,
            NoResurrection, IndexedIsSearchable, Doc, stream, worker
  <1>0. ASSUME NEW at \in {"erased", "removed", "done"}, DeleteTo(k, at), del[k].at # "idle"
        PROVE  /\ del' \in [Callers -> {Idle} \cup
                               [doc : Docs, at : {"found", "erased", "removed", "done"}]]
               /\ del'[k].at = at /\ del'[k].doc = del[k].doc /\ del[k].doc \in Docs
               /\ \A j \in Callers \ {k} : del'[j] = del[j]
    <2>1. del[k] \in [doc : Docs, at : {"found", "erased", "removed", "done"}]
      BY <1>0 DEF TypeOK, Idle
    <2> QED
      BY <1>0, <2>1 DEF TypeOK, DeleteTo
  <1>2. CASE DeleteFile(k)
    <2>1. /\ del' \in [Callers -> {Idle} \cup
                               [doc : Docs, at : {"found", "erased", "removed", "done"}]]
          /\ del'[k].at = "erased" /\ del'[k].doc = del[k].doc /\ del[k].doc \in Docs
          /\ \A j \in Callers \ {k} : del'[j] = del[j]
      BY <1>0, <1>2 DEF DeleteFile
    <2>2. TypeOK'
      BY <1>2, <2>1 DEF DeleteFile, TypeOK, stream, worker
    <2>3. StoresInv'
      BY <1>2, <2>1 DEF DeleteFile, StoresInv, stream
    <2> QED
      BY <1>2, <2>2, <2>3 DEF DeleteFile, WorkerInv, PurgedInv, NoResurrection,
            IndexedIsSearchable, Doc, stream, worker
  <1>3. CASE DeleteRow(k) /\ del[k].doc \in Rows
    <2>1. /\ del' \in [Callers -> {Idle} \cup
                               [doc : Docs, at : {"found", "erased", "removed", "done"}]]
          /\ del'[k].at = "removed" /\ del'[k].doc = del[k].doc /\ del[k].doc \in Docs
          /\ \A j \in Callers \ {k} : del'[j] = del[j]
      BY <1>0, <1>3 DEF DeleteRow
    <2>2. PICK d \in Docs : d = del[k].doc
      BY <2>1
    <2>3. row' = [row EXCEPT ![d] = "deleted"] /\ row[d] # "absent" /\ d \notin files
      BY <1>3, <2>2 DEF DeleteRow, Rows, StoresInv
    <2>4. row'[d] = "deleted" /\ \A c \in Docs \ {d} : row'[c] = row[c]
      BY <2>3 DEF TypeOK
    <2>5. TypeOK'
      BY <1>3, <2>1, <2>3 DEF DeleteRow, TypeOK, stream, worker
    <2>6. StoresInv'
      <3>1. \A e \in 1..Len(jobs) : jobs[e].doc \in Docs
        <4>1. \A e \in 1..Len(jobs) : jobs[e] \in Job
          BY DEF TypeOK
        <4> QED
          BY <4>1 DEF Job
      <3>2. \A j \in Callers : del[j].at # "idle" => del[j].doc \in Docs
        BY DEF TypeOK, Idle
      <3> QED
        BY <1>3, <2>1, <2>2, <2>3, <2>4, <3>1, <3>2 DEF DeleteRow, StoresInv, stream
    <2>7. PurgedInv'
      BY <1>3, <2>4 DEF DeleteRow, PurgedInv, TypeOK
    <2> QED
      BY <1>3, <2>4, <2>5, <2>6, <2>7 DEF DeleteRow, WorkerInv, NoResurrection,
            IndexedIsSearchable, Doc, stream, worker
  <1>4. ASSUME DeleteTo(k, "done"), del[k].at # "idle", UNCHANGED <<up, files, row, stream>>
        PROVE  StoresInv'
    BY <1>0, <1>4 DEF StoresInv, stream
  <1>5. CASE DeleteRow(k) /\ del[k].doc \notin Rows
    <2>1. StoresInv' /\ DeleteTo(k, "done") /\ del[k].at # "idle"
      BY <1>4, <1>5 DEF DeleteRow
    <2>2. TypeOK'
      BY <1>0, <1>5, <2>1 DEF DeleteRow, TypeOK, stream, worker
    <2> QED
      BY <1>5, <2>1, <2>2 DEF DeleteRow, WorkerInv, PurgedInv, NoResurrection,
            IndexedIsSearchable, Doc, stream, worker
  <1>6. CASE DeleteFails(k)
    <2>1. StoresInv' /\ DeleteTo(k, "done") /\ del[k].at # "idle"
      BY <1>4, <1>6 DEF DeleteFails
    <2>2. faults' \in 0..MaxFaults
      BY <1>6 DEF DeleteFails, Fault, TypeOK
    <2>3. TypeOK'
      BY <1>0, <1>6, <2>1, <2>2 DEF DeleteFails, TypeOK, stream, worker
    <2> QED
      BY <1>6, <2>1, <2>3 DEF DeleteFails, WorkerInv, PurgedInv, NoResurrection,
            IndexedIsSearchable, Doc, stream, worker
  <1>7. CASE DeleteEnqueue(k)
    <2>1. /\ del' \in [Callers -> {Idle} \cup
                               [doc : Docs, at : {"found", "erased", "removed", "done"}]]
          /\ del'[k].at = "done" /\ del'[k].doc = del[k].doc /\ del[k].doc \in Docs
          /\ \A j \in Callers \ {k} : del'[j] = del[j]
      BY <1>0, <1>7 DEF DeleteEnqueue
    <2> DEFINE j == [doc |-> del[k].doc, type |-> "delete"]
    <2>2. j \in Job /\ row[j.doc] = "deleted"
      BY <1>7, <2>1 DEF DeleteEnqueue, StoresInv, Job
    <2> HIDE DEF j
    <2>3. /\ jobs' \in Seq(Job) /\ \A e \in 1..Len(jobs') : e \in 1..Len(jobs) \/ e = Len(jobs) + 1
          /\ delivered \in 0..Len(jobs')
          /\ \A e \in 1..Len(jobs) : jobs'[e] = jobs[e]
          /\ jobs'[Len(jobs) + 1] = j
      BY <1>7, <2>2, EnqueueJob DEF DeleteEnqueue, j
    <2>4. TypeOK'
      BY <1>7, <2>1, <2>3 DEF DeleteEnqueue, TypeOK, worker
    <2>5. StoresInv'
      BY <1>7, <2>1, <2>2, <2>3 DEF DeleteEnqueue, StoresInv
    <2>6. WorkerInv'
      BY <1>7, <2>3, CurrentJob DEF DeleteEnqueue, WorkerInv, Doc, worker
    <2> QED
      BY <1>7, <2>4, <2>5, <2>6 DEF DeleteEnqueue, PurgedInv, NoResurrection, IndexedIsSearchable
  <1> QED
    BY <1>1, <1>2, <1>3, <1>5, <1>6, <1>7 DEF Delete

\* The steps of the worker that touch no store: reading, sweeping, dying.
LEMMA QueueStep ==
    ASSUME IInv, ReadJobs \/ Sweep \/ TakeJob \/ CrashWorker
    PROVE  IInv'
  <1> USE KbAssumption DEF IInv
  <1>0. ASSUME UNCHANGED <<requests, files, row, jobs, vectors, purged>>, TypeOK', WorkerInv'
        PROVE  IInv'
    BY <1>0 DEF requests, StoresInv, PurgedInv, NoResurrection, IndexedIsSearchable
  <1>1. CASE ReadJobs
    <2>1. Readable \in Nat /\ delivered + Readable <= Len(jobs)
      BY <1>1 DEF ReadJobs, Readable, TypeOK
    <2>2. /\ delivered' \in 0..Len(jobs) /\ delivered <= delivered'
          /\ batch' \subseteq 1..delivered'
      BY <1>1, <2>1 DEF ReadJobs, TypeOK
    <2>3. pel' \subseteq 1..delivered'
      <3>1. pel \subseteq 1..delivered /\ pel' = pel \cup batch'
        BY <1>1 DEF ReadJobs, TypeOK
      <3>2. 1..delivered \subseteq 1..delivered'
        BY <2>2 DEF TypeOK
      <3> QED
        BY <2>2, <3>1, <3>2
    <2>4. TypeOK'
      BY <1>1, <2>2, <2>3 DEF ReadJobs, TypeOK, requests
    <2>5. WorkerInv'
      BY <1>1 DEF ReadJobs, WorkerInv
    <2> QED
      BY <1>0, <1>1, <2>4, <2>5 DEF ReadJobs
  <1>2. CASE Sweep
    <2>1. TypeOK' /\ WorkerInv'
      BY <1>2 DEF Sweep, TypeOK, WorkerInv, requests, stream
    <2> QED
      BY <1>0, <1>2, <2>1 DEF Sweep, stream
  <1>3. CASE TakeJob
    <2>1. PICK e \in batch : /\ cur' = e /\ batch' = batch \ {e}
                             /\ pc' = IF jobs[e].type = "delete" THEN "purge" ELSE "status"
      BY <1>3 DEF TakeJob
    <2>2. e \in 1..delivered /\ e # None
      BY DEF TypeOK
    <2>3. TypeOK'
      BY <1>3, <2>1, <2>2 DEF TakeJob, TypeOK, requests, stream
    <2>4. WorkerInv'
      BY <1>3, <2>1 DEF TakeJob, WorkerInv, stream
    <2> QED
      BY <1>0, <1>3, <2>3, <2>4 DEF TakeJob, stream
  <1>4. CASE CrashWorker
    <2>1. TypeOK' /\ WorkerInv'
      BY <1>4 DEF CrashWorker, Fault, TypeOK, WorkerInv, requests, stream
    <2> QED
      BY <1>0, <1>4, <2>1 DEF CrashWorker, stream
  <1> QED
    BY <1>1, <1>2, <1>3, <1>4

\* Where the worker goes next, its entry kept.
LEMMA Goes ==
    ASSUME TypeOK, pc # "next", NEW s \in {"status", "mark", "extract", "upsert", "indexed",
                                           "fail", "ack"},
           WorkerTo(s) \/ Done, UNCHANGED stream
    PROVE  /\ pc' \in {s, "next"}
           /\ cur' \in (1..delivered) \cup {None}
           /\ cur' = None <=> pc' = "next"
           /\ batch' \subseteq 1..delivered
           /\ jobs' = jobs /\ delivered' = delivered /\ pel' = pel
           /\ pc' # "next" => cur' = cur /\ Doc' = Doc
  BY CurrentJob, KbAssumption DEF WorkerTo, Done, TypeOK, Doc, stream

\* A step of an index job, after which the worker goes to s or gives the entry up.
Moves(s) ==
    /\ pc # "next"
    /\ WorkerTo(s) \/ Done
    /\ s = "upsert" => Doc \in files
    /\ s = "indexed" => Doc \in vectors' \cup Blank
    /\ vectors' = vectors \/ (Doc \notin purged /\ vectors' = vectors \cup {Doc})
    /\ \/ row' = row
       \/ \E v \in {"indexing", "indexed", "failed"} :
             Update(v) /\ (v = "indexed" => pc = "indexed")
    /\ UNCHANGED <<requests, files, stream, purged>>
    /\ faults' \in 0..MaxFaults

LEMMA MovesStep ==
    ASSUME IInv, NEW s \in {"mark", "extract", "upsert", "indexed", "fail", "ack"}, Moves(s)
    PROVE  IInv'
  <1> USE KbAssumption DEF IInv
  <1>1. Doc \in Docs
    BY CurrentJob DEF Moves
  <1>2. /\ pc' \in {s, "next"}
        /\ cur' \in (1..delivered) \cup {None}
        /\ cur' = None <=> pc' = "next"
        /\ batch' \subseteq 1..delivered
        /\ jobs' = jobs /\ delivered' = delivered /\ pel' = pel
        /\ pc' # "next" => cur' = cur /\ Doc' = Doc
    BY Goes DEF Moves
  <1>3. /\ row' \in [Docs -> {"absent", "pending", "indexing", "indexed", "failed", "deleted"}]
        /\ \A d \in Docs : row[d] = "absent" <=> row'[d] = "absent"
        /\ \A d \in Docs : row[d] = "deleted" <=> row'[d] = "deleted"
        /\ \A d \in Docs : row'[d] = "indexed" => row[d] = "indexed" \/ (d = Doc /\ pc = "indexed")
    <2>1. CASE row' = row
      BY <2>1 DEF TypeOK
    <2>2. ASSUME NEW v \in {"indexing", "indexed", "failed"}, Update(v),
                 v = "indexed" => pc = "indexed"
          PROVE  /\ row' \in [Docs -> {"absent", "pending", "indexing", "indexed",
                                      "failed", "deleted"}]
                 /\ \A d \in Docs : row[d] = "absent" <=> row'[d] = "absent"
                 /\ \A d \in Docs : row[d] = "deleted" <=> row'[d] = "deleted"
                 /\ \A d \in Docs :
                       row'[d] = "indexed" => row[d] = "indexed" \/ (d = Doc /\ pc = "indexed")
      BY <1>1, <2>2, StatusUpdate DEF Moves
    <2> QED
      BY <2>1, <2>2 DEF Moves
  <1>4. vectors' \subseteq Docs /\ vectors \subseteq vectors'
    BY <1>1 DEF Moves, TypeOK
  <1>5. TypeOK'
    BY <1>2, <1>3, <1>4 DEF Moves, TypeOK, requests
  <1>6. StoresInv'
    <2>1. \A e \in 1..Len(jobs) : jobs[e] \in Job
      BY DEF TypeOK
    <2>2. \A e \in 1..Len(jobs) : jobs[e].doc \in Docs
      BY <2>1 DEF Job
    <2>3. \A k \in Callers : del[k].at # "idle" => del[k].doc \in Docs
      BY DEF TypeOK, Idle
    <2> QED
      BY <1>2, <1>3, <2>2, <2>3 DEF Moves, StoresInv, requests
  <1>7. WorkerInv'
    <2>1. Doc \in files => Doc \notin purged
      BY <1>1 DEF StoresInv, PurgedInv
    <2> QED
      BY <1>2, <2>1 DEF Moves, WorkerInv
  <1>8. PurgedInv' /\ NoResurrection'
    BY <1>3 DEF Moves, PurgedInv, NoResurrection, TypeOK
  <1>9. IndexedIsSearchable'
    BY <1>3, <1>4 DEF IndexedIsSearchable, WorkerInv
  <1> QED
    BY <1>5, <1>6, <1>7, <1>8, <1>9

LEMMA IndexStep ==
    ASSUME IInv, \/ CheckStatus \/ StatusRaises \/ MarkIndexing \/ Extract \/ Upsert
                 \/ SetIndexed \/ RunRaises \/ SetFailed
    PROVE  IInv'
  <1>f. faults \in 0..MaxFaults /\ (Fault => faults' \in 0..MaxFaults)
    BY KbAssumption DEF IInv, TypeOK, Fault
  <1>1. CASE CheckStatus
    <2>1. Moves("ack") \/ Moves("mark")
      BY <1>1, <1>f DEF CheckStatus, Moves
    <2> QED
      BY <2>1, MovesStep
  <1>2. CASE StatusRaises
    <2>1. Moves("ack")
      BY <1>2, <1>f DEF StatusRaises, Moves
    <2> QED
      BY <2>1, MovesStep
  <1>3. CASE MarkIndexing
    <2>1. Moves("extract")
      BY <1>3, <1>f DEF MarkIndexing, Moves
    <2> QED
      BY <2>1, MovesStep
  <1>4. CASE Extract
    <2>1. Moves("fail") \/ Moves("indexed") \/ Moves("upsert")
      BY <1>4, <1>f DEF Extract, Moves
    <2> QED
      BY <2>1, MovesStep
  <1>5. CASE Upsert
    <2>1. Moves("indexed")
      BY <1>5, <1>f DEF Upsert, Moves, IInv, WorkerInv
    <2> QED
      BY <2>1, MovesStep
  <1>6. CASE SetIndexed
    <2>1. Moves("ack")
      BY <1>6, <1>f DEF SetIndexed, Moves
    <2> QED
      BY <2>1, MovesStep
  <1>7. CASE RunRaises
    <2>1. Moves("fail")
      BY <1>7, <1>f DEF RunRaises, Moves, IInv, WorkerInv
    <2> QED
      BY <2>1, MovesStep
  <1>8. CASE SetFailed
    <2>1. Moves("ack")
      BY <1>8, <1>f DEF SetFailed, NoFault, Moves
    <2> QED
      BY <2>1, MovesStep
  <1> QED
    BY <1>1, <1>2, <1>3, <1>4, <1>5, <1>6, <1>7, <1>8

LEMMA PurgeStep ==
    ASSUME IInv, Purge \/ AckJob
    PROVE  IInv'
  <1> USE KbAssumption DEF IInv
  <1>1. CASE Purge
    <2>1. cur \in 1..Len(jobs) /\ Doc \in Docs /\ row[Doc] = "deleted"
      BY <1>1, CurrentJob DEF Purge, WorkerInv, StoresInv, Doc
    <2>2. /\ cur' = cur /\ batch' = batch /\ pc' = "ack" /\ jobs' = jobs
          /\ vectors' \subseteq vectors /\ \A d \in vectors \ vectors' : d = Doc
          /\ purged' \subseteq purged \cup {Doc} /\ purged \subseteq purged'
          /\ purged' \cap vectors' = {}
          /\ faults' \in 0..MaxFaults
      BY <1>1 DEF Purge, WorkerTo, Fault, NoFault, TypeOK, NoResurrection, stream
    <2>3. TypeOK'
      BY <1>1, <2>1, <2>2 DEF Purge, TypeOK, requests, stream
    <2>4. StoresInv' /\ WorkerInv' /\ PurgedInv' /\ NoResurrection' /\ IndexedIsSearchable'
      BY <1>1, <2>1, <2>2 DEF Purge, StoresInv, WorkerInv, PurgedInv, NoResurrection,
                              IndexedIsSearchable, requests
    <2> QED
      BY <2>3, <2>4
  <1>2. CASE AckJob
    <2>1. TypeOK'
      <3>1. pel' \subseteq 1..delivered /\ faults' \in 0..MaxFaults
        <4>1. pel' = pel \ {cur} \/ pel' = pel
          BY <1>2 DEF AckJob
        <4>2. faults' = faults \/ (faults < MaxFaults /\ faults' = faults + 1)
          BY <1>2 DEF AckJob, Fault, NoFault
        <4>3. pel' \subseteq 1..delivered
          BY <4>1 DEF TypeOK
        <4>4. faults' \in 0..MaxFaults
          BY <4>2 DEF TypeOK
        <4> QED
          BY <4>3, <4>4
      <3>2. pc' = "next" /\ cur' = None /\ batch' = batch
        BY <1>2 DEF AckJob, Done
      <3> QED
        BY <1>2, <3>1, <3>2 DEF AckJob, TypeOK, requests
    <2>2. StoresInv' /\ WorkerInv'
      BY <1>2 DEF AckJob, Done, StoresInv, WorkerInv, requests
    <2> QED
      BY <1>2, <2>1, <2>2 DEF AckJob, PurgedInv, NoResurrection, IndexedIsSearchable
  <1> QED
    BY <1>1, <1>2

-----------------------------------------------------------------------------
(* The theorems *)

LEMMA InitInv == Init => IInv
  BY KbAssumption DEF Init, IInv, TypeOK, StoresInv, WorkerInv, PurgedInv, NoResurrection,
                      IndexedIsSearchable, Idle

LEMMA NextInv ==
    ASSUME IInv, [Next]_vars
    PROVE  IInv'
  <1>1. CASE UNCHANGED vars
    BY <1>1 DEF vars, requests, stream, worker, IInv, TypeOK, StoresInv, WorkerInv, PurgedInv,
                NoResurrection, IndexedIsSearchable, Doc
  <1> QED
    BY <1>1, UploadStep, DeleteStep, QueueStep, IndexStep, PurgeStep DEF Next, Work

LEMMA Invariant == Spec => []IInv
  BY InitInv, NextInv, PTL DEF Spec

\* Every state of the four stores, the requests and the worker has its type: what
\* the worker holds has been delivered, and it holds an entry unless it is idle.
THEOREM TypeCorrect == Spec => []TypeOK
  <1>1. IInv => TypeOK
    BY DEF IInv
  <1> QED
    BY <1>1, Invariant, PTL

\* DeleteDocumentUseCase, IndexDocumentUseCase: once a delete job has removed the
\* vectors of a document, no late, repeated or interrupted index job restores them.
THEOREM DeletedForGood == Spec => []NoResurrection
  <1>1. IInv => NoResurrection
    BY DEF IInv
  <1> QED
    BY <1>1, Invariant, PTL

\* IndexDocumentUseCase._run: a document whose status is indexed has its vectors in
\* the collection, unless there was no text in it.
THEOREM Searchable == Spec => []IndexedIsSearchable
  <1>1. IInv => IndexedIsSearchable
    BY DEF IInv
  <1> QED
    BY <1>1, Invariant, PTL

-----------------------------------------------------------------------------
(* What it takes to orphan vectors *)

\* The delete job of document d is still to be enqueued, read or acknowledged.
Doomed(d) ==
    \/ \E k \in Callers : del[k].doc = d /\ del[k].at = "removed"
    \/ \E e \in 1..Len(jobs) :
          jobs[e] = [doc |-> d, type |-> "delete"] /\ (e > delivered \/ e \in pel)

\* As long as nothing has failed, a deleted document loses its vectors or has
\* lost them, and the worker acknowledges a delete job after they are gone.
FateInv ==
    faults = 0 =>
        /\ \A d \in Docs : row[d] = "deleted" => Doomed(d) \/ d \in purged
        /\ pc \in {"status", "mark", "extract", "upsert", "indexed", "fail"} =>
              jobs[cur].type # "delete"
        /\ pc = "ack" /\ jobs[cur].type = "delete" => Doc \in purged

\* A step that keeps the requests, the jobs and what is pending keeps the fate of
\* every document.
LEMMA FateKept ==
    ASSUME TypeOK, NEW d \in Docs, Doomed(d),
           \A k \in Callers : del[k].at = "removed" => del'[k] = del[k],
           Len(jobs') \in Nat, Len(jobs) <= Len(jobs'),
           \A e \in 1..Len(jobs) :
              /\ jobs'[e] = jobs[e]
              /\ e > delivered \/ e \in pel => e > delivered' \/ e \in pel'
    PROVE  Doomed(d)'
  <1>1. CASE \E k \in Callers : del[k].doc = d /\ del[k].at = "removed"
    BY <1>1 DEF Doomed
  <1>2. CASE \E e \in 1..Len(jobs) :
                /\ jobs[e] = [doc |-> d, type |-> "delete"]
                /\ e > delivered \/ e \in pel
    <2>1. Len(jobs) \in Nat
      BY DEF TypeOK
    <2> QED
      BY <1>2, <2>1 DEF Doomed
  <1> QED
    BY <1>1, <1>2 DEF Doomed

\* The steps of a request keep the fate of every document: the row goes before
\* the job comes, and the request knows.
LEMMA RequestFate ==
    ASSUME IInv, FateInv, faults = 0, faults' = 0,
           (\E d \in Docs : Upload(d)) \/ (\E k \in Callers : Delete(k))
    PROVE  FateInv'
  <1> USE KbAssumption DEF IInv
  <1>1. /\ UNCHANGED <<pc, cur, delivered, pel, purged>>
        /\ jobs' = jobs \/ \E j \in Job : jobs' = Append(jobs, j)
    <2>1. ASSUME NEW d \in Docs, Upload(d)
          PROVE  /\ UNCHANGED <<pc, cur, delivered, pel, purged>>
                 /\ jobs' = jobs \/ \E j \in Job : jobs' = Append(jobs, j)
      <3>1. [doc |-> d, type |-> "index"] \in Job
        BY DEF Job
      <3> QED
        BY <2>1, <3>1 DEF Upload, UploadCount, UploadFile, UploadRow, UploadEnqueue,
                          UploadFails, stream, worker
    <2>2. ASSUME NEW k \in Callers, Delete(k)
          PROVE  /\ UNCHANGED <<pc, cur, delivered, pel, purged>>
                 /\ jobs' = jobs \/ \E j \in Job : jobs' = Append(jobs, j)
      <3>1. del[k].at = "removed" => [doc |-> del[k].doc, type |-> "delete"] \in Job
        BY DEF TypeOK, Idle, Job
      <3> QED
        BY <2>2, <3>1 DEF Delete, DeleteFind, DeleteFile, DeleteRow, DeleteEnqueue,
                          DeleteFails, stream, worker
    <2> QED
      BY <2>1, <2>2
  <1>2. /\ Len(jobs) \in Nat /\ Len(jobs') \in Nat /\ Len(jobs) <= Len(jobs')
        /\ \A e \in 1..Len(jobs) : jobs'[e] = jobs[e]
    BY <1>1, EnqueueJob DEF TypeOK
  <1>3. pc # "next" => jobs'[cur] = jobs[cur] /\ Doc' = Doc
    BY <1>1, <1>2, CurrentJob DEF Doc
  <1>4. SUFFICES ASSUME NEW d \in Docs, row'[d] = "deleted"
                 PROVE  Doomed(d)' \/ d \in purged'
    BY <1>1, <1>3 DEF FateInv
  <1>5. ASSUME row[d] = "deleted", \A k \in Callers : del[k].at = "removed" => del'[k] = del[k]
        PROVE  Doomed(d)' \/ d \in purged'
    <2>1. Doomed(d) \/ d \in purged
      BY <1>5 DEF FateInv
    <2> QED
      BY <1>1, <1>2, <1>5, <2>1, FateKept
  <1>6. ASSUME NEW c \in Docs, Upload(c)
        PROVE  Doomed(d)' \/ d \in purged'
    <2>1. del' = del /\ row[d] = "deleted"
      BY <1>4, <1>6 DEF Upload, UploadCount, UploadFile, UploadRow, UploadEnqueue,
                        UploadFails, TypeOK
    <2> QED
      BY <1>5, <2>1
  <1>7. ASSUME NEW k \in Callers, Delete(k)
        PROVE  Doomed(d)' \/ d \in purged'
    <2>1. CASE DeleteFind(k) \/ DeleteFile(k)
      <3>1. row' = row /\ del[k].at # "removed"
        BY <2>1 DEF DeleteFind, DeleteFile, Idle
      <3>2. \A i \in Callers \ {k} : del'[i] = del[i]
        BY <2>1 DEF DeleteFind, DeleteFile, DeleteTo, TypeOK
      <3> QED
        BY <1>4, <1>5, <3>1, <3>2
    <2>2. CASE DeleteRow(k)
      <3>1. /\ del[k] \in [doc : Docs, at : {"found", "erased", "removed", "done"}]
            /\ del[k].at = "erased"
        BY <2>2 DEF DeleteRow, TypeOK, Idle
      <3>2. \A i \in Callers \ {k} : del'[i] = del[i]
        BY <2>2 DEF DeleteRow, DeleteTo, TypeOK
      <3>3. CASE row[d] = "deleted"
        BY <1>5, <3>1, <3>2, <3>3
      <3>4. CASE row[d] # "deleted"
        <4>1. del[k].doc = d /\ DeleteTo(k, "removed")
          BY <1>4, <2>2, <3>1, <3>4 DEF DeleteRow, TypeOK
        <4>2. del'[k].doc = d /\ del'[k].at = "removed"
          BY <3>1, <4>1 DEF DeleteTo, TypeOK
        <4> QED
          BY <4>2 DEF Doomed
      <3> QED
        BY <3>3, <3>4
    <2>3. CASE DeleteEnqueue(k)
      <3>1. /\ del[k] \in [doc : Docs, at : {"found", "erased", "removed", "done"}]
            /\ del[k].at = "removed" /\ row' = row
            /\ jobs' = Append(jobs, [doc |-> del[k].doc, type |-> "delete"])
        BY <2>3 DEF DeleteEnqueue, TypeOK, Idle
      <3>2. \A i \in Callers \ {k} : del'[i] = del[i]
        BY <2>3 DEF DeleteEnqueue, DeleteTo, TypeOK
      <3>3. CASE del[k].doc = d
        <4>1. [doc |-> d, type |-> "delete"] \in Job
          BY DEF Job
        <4>2. Len(jobs') = Len(jobs) + 1 /\ jobs'[Len(jobs) + 1] = [doc |-> d, type |-> "delete"]
          BY <3>1, <3>3, <4>1, EnqueueJob
        <4>3. Len(jobs) + 1 > delivered /\ delivered' = delivered
          BY <1>1 DEF TypeOK
        <4>4. PICK e \in 1..Len(jobs') : e = Len(jobs) + 1
          BY <1>2, <4>2
        <4> QED
          BY <4>2, <4>3, <4>4 DEF Doomed
      <3>4. CASE del[k].doc # d
        <4>1. Doomed(d) \/ d \in purged
          BY <1>4, <3>1 DEF FateInv
        <4>2. CASE d \in purged
          BY <1>1, <4>2
        <4>3. CASE \E i \in Callers : del[i].doc = d /\ del[i].at = "removed"
          BY <3>2, <3>4, <4>3 DEF Doomed
        <4>4. CASE \E e \in 1..Len(jobs) :
                      /\ jobs[e] = [doc |-> d, type |-> "delete"]
                      /\ e > delivered \/ e \in pel
          BY <1>1, <1>2, <4>4 DEF Doomed
        <4> QED
          BY <4>1, <4>2, <4>3, <4>4 DEF Doomed
      <3> QED
        BY <3>3, <3>4
    <2>4. ~DeleteFails(k)
      BY DEF DeleteFails, Fault
    <2> QED
      BY <1>7, <2>1, <2>2, <2>3, <2>4 DEF Delete
  <1> QED
    BY <1>6, <1>7

\* The steps of the worker keep the fate of every document: a delete job is
\* acknowledged when the vectors are gone.
LEMMA WorkerFate ==
    ASSUME IInv, FateInv, faults = 0, faults' = 0, Work \/ CrashWorker
    PROVE  FateInv'
  <1> USE KbAssumption DEF IInv
  <1>1. /\ UNCHANGED <<del, jobs>> /\ purged \subseteq purged'
        /\ Len(jobs) \in Nat
    BY DEF Work, CrashWorker, ReadJobs, Sweep, TakeJob, Purge, CheckStatus, StatusRaises,
           MarkIndexing, Extract, Upsert, SetIndexed, RunRaises, SetFailed, AckJob,
           requests, stream, TypeOK
  <1>2. \A d \in Docs : row'[d] = "deleted" => row[d] = "deleted"
    <2>1. CASE UNCHANGED row
      BY <2>1
    <2>2. ASSUME NEW s \in {"indexing", "indexed", "failed"}, Update(s), pc # "next"
          PROVE  \A d \in Docs : row'[d] = "deleted" => row[d] = "deleted"
      BY <2>2, StatusUpdate DEF TypeOK
    <2> QED
      BY <2>1, <2>2 DEF Work, CrashWorker, ReadJobs, Sweep, TakeJob, Purge, CheckStatus,
           StatusRaises, MarkIndexing, Extract, Upsert, SetIndexed, RunRaises, SetFailed, AckJob
  <1>3. \A d \in Docs : row[d] = "deleted" => Doomed(d) \/ d \in purged
    BY DEF FateInv
  <1>4. /\ pc \in {"status", "mark", "extract", "upsert", "indexed", "fail"} =>
              jobs[cur].type # "delete"
        /\ pc = "ack" /\ jobs[cur].type = "delete" => Doc \in purged
    BY DEF FateInv
  <1>5. CASE ReadJobs \/ Sweep \/ TakeJob
    <2>1. \A e \in 1..Len(jobs) :
             e > delivered \/ e \in pel => e > delivered' \/ e \in pel'
      <3>1. CASE ReadJobs
        <4>1. Readable \in Nat
          BY <3>1 DEF ReadJobs, Readable, TypeOK
        <4> QED
          BY <3>1, <4>1 DEF ReadJobs, TypeOK
      <3>2. CASE Sweep \/ TakeJob
        BY <3>2 DEF Sweep, TakeJob, stream
      <3> QED
        BY <1>5, <3>1, <3>2
    <2>2. /\ pc' = "next" \/ pc' = IF jobs'[cur'].type = "delete" THEN "purge" ELSE "status"
      BY <1>1, <1>5 DEF ReadJobs, Sweep, TakeJob
    <2>3. \A d \in Docs : Doomed(d) => Doomed(d)'
      BY <1>1, <2>1, FateKept
    <2> QED
      BY <1>1, <1>2, <1>3, <2>2, <2>3 DEF FateInv
  <1>6. CASE Purge
    <2>1. /\ purged' = purged \cup {Doc} /\ cur' = cur /\ UNCHANGED <<delivered, pel>>
          /\ pc' = "ack"
      BY <1>6 DEF Purge, Fault, WorkerTo, stream
    <2>2. \A d \in Docs : Doomed(d) => Doomed(d)'
      BY <1>1, <2>1, FateKept
    <2>3. Doc' = Doc
      BY <1>1, <2>1 DEF Doc
    <2> QED
      BY <1>1, <1>2, <1>3, <2>1, <2>2, <2>3 DEF FateInv
  <1>7. CASE CheckStatus \/ MarkIndexing \/ Extract \/ Upsert \/ SetIndexed \/ SetFailed
    <2>1. /\ UNCHANGED <<delivered, pel>>
          /\ pc \in {"status", "mark", "extract", "upsert", "indexed", "fail"}
      BY <1>7 DEF CheckStatus, MarkIndexing, Extract, Upsert, SetIndexed, SetFailed, stream
    <2>2. \/ cur' = cur /\ pc' # "purge"
          \/ pc' = "next"
      BY <1>7 DEF CheckStatus, MarkIndexing, Extract, Upsert, SetIndexed, SetFailed,
                  WorkerTo, Done
    <2>3. \A d \in Docs : Doomed(d) => Doomed(d)'
      BY <1>1, <2>1, FateKept
    <2> QED
      BY <1>1, <1>2, <1>3, <1>4, <2>1, <2>2, <2>3 DEF FateInv
  <1>8. CASE AckJob
    <2>1. /\ pel' = pel \ {cur} /\ delivered' = delivered /\ pc = "ack" /\ pc' = "next"
      BY <1>8 DEF AckJob, Fault, Done
    <2>2. ASSUME NEW d \in Docs, Doomed(d)
          PROVE  Doomed(d)' \/ d \in purged
      <3>1. CASE \E k \in Callers : del[k].doc = d /\ del[k].at = "removed"
        BY <1>1, <3>1 DEF Doomed
      <3>2. ASSUME NEW e \in 1..Len(jobs), jobs[e] = [doc |-> d, type |-> "delete"],
                   e > delivered \/ e \in pel
            PROVE  Doomed(d)' \/ d \in purged
        <4>1. CASE e = cur
          BY <1>4, <2>1, <3>2, <4>1 DEF Doc
        <4>2. CASE e # cur
          BY <1>1, <2>1, <3>2, <4>2 DEF Doomed
        <4> QED
          BY <4>1, <4>2
      <3> QED
        BY <2>2, <3>1, <3>2 DEF Doomed
    <2> QED
      BY <1>1, <1>2, <1>3, <2>1, <2>2 DEF FateInv
  <1>9. ~StatusRaises /\ ~RunRaises /\ ~CrashWorker
    BY DEF StatusRaises, RunRaises, CrashWorker, Fault
  <1> QED
    BY <1>5, <1>6, <1>7, <1>8, <1>9 DEF Work

\* DeleteDocumentUseCase is right about fair weather: vectors of a deleted
\* document that nothing is going to remove are there only after a call has
\* failed or a process has died.  No order of uploads, deletes, sweeps and index
\* jobs is enough.
THEOREM OrphanTakesFault == Spec => [](faults = 0 => OrphansNotQueryable)
  <1>1. Init => FateInv
    BY DEF Init, FateInv
  <1>2. IInv /\ IInv' /\ FateInv /\ [Next]_vars => FateInv'
    <2> SUFFICES ASSUME IInv, IInv', FateInv, [Next]_vars, faults' = 0
                 PROVE  FateInv'
      BY DEF FateInv
    <2>1. faults = 0
      <3>1. faults \in Nat
        BY DEF IInv, TypeOK
      <3>2. faults' = faults \/ faults' = faults + 1
        BY DEF Next, Work, CrashWorker, ReadJobs, Sweep, TakeJob, Purge, CheckStatus,
           StatusRaises, MarkIndexing, Extract, Upsert, SetIndexed, RunRaises, SetFailed, AckJob,
           Upload, UploadCount, UploadFile, UploadRow, UploadEnqueue, UploadFails,
           Delete, DeleteFind, DeleteFile, DeleteRow, DeleteEnqueue, DeleteFails,
           Fault, NoFault, vars
      <3> QED
        BY <3>1, <3>2
    <2>2. CASE UNCHANGED vars
      BY <2>2 DEF vars, requests, stream, worker, FateInv, Doomed, Doc
    <2> QED
      BY <2>1, <2>2, RequestFate, WorkerFate DEF Next
  <1>3. IInv /\ FateInv => (faults = 0 => OrphansNotQueryable)
    <2> SUFFICES ASSUME IInv, FateInv, faults = 0, NEW d \in Docs,
                        row[d] = "deleted", ~BeingDeleted(d)
                 PROVE  d \notin vectors
      BY DEF OrphansNotQueryable, Queryable
    <2>1. ~Doomed(d)
      BY DEF Doomed, BeingDeleted
    <2>2. d \in purged
      BY <2>1 DEF FateInv
    <2> QED
      BY <2>2 DEF IInv, NoResurrection
  <1> QED
    BY <1>1, <1>2, <1>3, Invariant, PTL DEF Spec
=============================================================================
