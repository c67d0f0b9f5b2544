----------------------------- MODULE AnalysisJobs -----------------------------
(***************************************************************************)
(* The life of an analysis job in the backend: upload_capture, the worker  *)
(* thread of run_pipeline_task, the in-memory job store, the three read    *)
(* endpoints of api/routes/analysis.py, and a restart of the server.       *)
(*                                                                         *)
(* Handlers are coroutines of one event loop and are interrupted only at   *)
(* an await; the worker runs in a thread and is interleaved with them at   *)
(* every access to the store.  What the pipeline computes is not the       *)
(* subject here: a report is known by the job it was made for.             *)
(***************************************************************************)
EXTENDS Naturals, FiniteSets

CONSTANTS Ids,         \* analysis ids (uuid4: never drawn twice)
          MaxChunks,   \* max_upload_bytes, in read buffers
          MaxWorkers,  \* threads that run background tasks
          MaxRestarts, \* server restarts considered
          None         \* no report, no request, no reply

ASSUME JobsAssumption ==
    /\ MaxChunks \in Nat \ {0} /\ MaxWorkers \in Nat \ {0} /\ MaxRestarts \in Nat
    /\ None \notin Ids

VARIABLES
    upload,    \* id -> the request that brings the capture
    disk,      \* ids whose capture is in UPLOAD_DIR
    jobs,      \* JobStore._jobs: id -> [status, report]
    worker,    \* id -> where its run_pipeline_task is
    handler,   \* the read request the event loop is in
    reply,     \* the answer given last
    restarts

vars == <<upload, disk, jobs, worker, handler, reply, restarts>>

Phases == {"none", "receiving", "raised", "refused", "cancelled", "accepted", "lost"}
\* By which clause of upload_capture they are caught.
Errors == {"PCAPValidationError", "HTTPException", "Exception"}

Statuses == {"queued", "processing", "completed", "failed"}
Terminal == {"completed", "failed"}
Running  == {"dissecting", "reassembling", "analysing", "storing", "publishing",
             "confirming"}
WorkerPlaces == {"none", "waiting", "done"} \cup Running

Stored(id) == id \in DOMAIN jobs
-------------------------------------------------------------------------------
\* upload_capture.  Each await of file.read lets other work in; between a raise and the
\* clause that catches it there is none.

Free == handler = None /\ \A i \in Ids : upload[i].phase # "raised"

BeginUpload(id) ==
    /\ Free
    /\ upload[id].phase = "none"
    /\ upload' = [upload EXCEPT ![id].phase = "receiving"]
    /\ disk' = disk \cup {id}
    /\ UNCHANGED <<jobs, worker, handler, reply, restarts>>

\* The chunk fits; it may complete a header that passes inspection.
ReceiveChunk(id) ==
    /\ Free
    /\ upload[id].phase = "receiving" /\ upload[id].chunks < MaxChunks
    /\ \E inspected \in {upload[id].inspected, TRUE} :
          upload' = [upload EXCEPT ![id].chunks = @ + 1, ![id].inspected = inspected]
    /\ UNCHANGED <<disk, jobs, worker, handler, reply, restarts>>

Raise(id, error) ==
    /\ Free
    /\ upload[id].phase = "receiving"
    /\ upload' = [upload EXCEPT ![id].phase = "raised", ![id].error = error]
    /\ UNCHANGED <<jobs, worker, handler, reply, restarts>>

\* A chunk above the limit: the capture is unlinked before the answer is raised.
ExceedLimit(id) ==
    /\ Raise(id, "HTTPException")
    /\ upload[id].chunks = MaxChunks
    /\ disk' = disk \ {id}

\* inspect_capture_header refuses a header that is there, or at the end of the file the
\* part of one, or none.
RefuseHeader(id) ==
    /\ Raise(id, "PCAPValidationError")
    /\ ~upload[id].inspected
    /\ UNCHANGED disk

\* open, read or write fails.
FailIO(id) ==
    /\ Raise(id, "Exception")
    /\ UNCHANGED disk

\* The task of the request is cancelled while it waits for a chunk: CancelledError is no
\* Exception, and none of the three clauses catches it.
CancelUpload(id) ==
    /\ Free
    /\ upload[id].phase = "receiving"
    /\ upload' = [upload EXCEPT ![id].phase = "cancelled"]
    /\ UNCHANGED <<disk, jobs, worker, handler, reply, restarts>>

Refuse(id, error) ==
    /\ upload[id].phase = "raised" /\ upload[id].error = error
    /\ upload' = [upload EXCEPT ![id].phase = "refused"]
    /\ UNCHANGED <<jobs, worker, handler, reply, restarts>>

CatchValidationError(id) ==
    /\ Refuse(id, "PCAPValidationError")
    /\ disk' = disk \ {id}

CatchHTTPException(id) ==
    /\ Refuse(id, "HTTPException")
    /\ disk' = disk \ {id}

\* Mutant: a failed write is answered, and what was written stays.
MutantCatchException(id) ==
    /\ Refuse(id, "Exception")
    /\ UNCHANGED disk

CatchException(id) ==
    /\ Refuse(id, "Exception")
    /\ disk' = disk \ {id}

\* The end of the file: the job is stored before the answer that names it, and
\* the background task starts behind the answer.  (A file of no bytes is refused by its
\* header; the check of its length behind the clauses is never reached.)
AcceptUpload(id) ==
    /\ Free
    /\ upload[id].phase = "receiving"
    /\ upload[id].chunks > 0 /\ upload[id].inspected
    /\ upload' = [upload EXCEPT ![id].phase = "accepted"]
    /\ jobs' = [i \in DOMAIN jobs \cup {id} |->
                   IF i = id THEN [status |-> "queued", report |-> None] ELSE jobs[i]]
    /\ worker' = [worker EXCEPT ![id] = "waiting"]
    /\ UNCHANGED <<disk, handler, reply, restarts>>
-------------------------------------------------------------------------------
\* run_pipeline_task, cut where it touches the store.

Move(id, from, to) ==
    /\ worker[id] = from
    /\ worker' = [worker EXCEPT ![id] = to]
    /\ UNCHANGED <<upload, disk, handler, reply, restarts>>

\* update_status and set_report do nothing for a job that is not there.
SetStatus(id, status) ==
    jobs' = IF Stored(id) THEN [jobs EXCEPT ![id].status = status] ELSE jobs

\* A thread is free and the job is looked up.
StartPipeline(id) ==
    /\ Cardinality({i \in Ids : worker[i] \in Running}) < MaxWorkers
    /\ Move(id, "waiting", IF Stored(id) THEN "dissecting" ELSE "done")
    /\ UNCHANGED jobs

\* TShark delivered packets; only now is the job marked as being processed.
FinishDissection(id) ==
    /\ Move(id, "dissecting", "reassembling")
    /\ SetStatus(id, "processing")

FinishReassembly(id) ==
    /\ Move(id, "reassembling", "analysing")
    /\ UNCHANGED jobs

\* Classification, TLS, certificates, posture, ML: no access to the store.
FinishAnalysis(id) ==
    /\ Move(id, "analysing", "storing")
    /\ UNCHANGED jobs

\* Mutant: a failing stage returns without a status.
MutantFailSilently(id) ==
    /\ \E from \in {"dissecting", "reassembling", "analysing"} : Move(id, from, "done")
    /\ UNCHANGED jobs

\* Mutant: what goes wrong behind set_report fails the job too.
MutantFailLate(id) ==
    /\ \E from \in {"dissecting", "reassembling", "analysing", "confirming"} :
          Move(id, from, "done")
    /\ SetStatus(id, "failed")

\* Dissection raised or gave no packet, reassembly raised, or anything of the
\* analysis reached the outer except.
FailPipeline(id) ==
    /\ \E from \in {"dissecting", "reassembling", "analysing"} : Move(id, from, "done")
    /\ SetStatus(id, "failed")

\* set_report writes the report, then the status.
StoreReport(id) ==
    /\ Move(id, "storing", "publishing")
    /\ jobs' = IF Stored(id) THEN [jobs EXCEPT ![id].report = id] ELSE jobs

PublishReport(id) ==
    /\ Move(id, "publishing", "confirming")
    /\ SetStatus(id, "completed")

\* The update_status behind set_report.
ConfirmCompleted(id) ==
    /\ Move(id, "confirming", "done")
    /\ SetStatus(id, "completed")

WorkerStep(id) ==
    \/ StartPipeline(id) \/ FinishDissection(id) \/ FinishReassembly(id)
    \/ FinishAnalysis(id) \/ FailPipeline(id) \/ StoreReport(id)
    \/ PublishReport(id) \/ ConfirmCompleted(id)
-------------------------------------------------------------------------------
\* The read endpoints.

Answer(kind, id, code, body) ==
    /\ handler' = None
    /\ reply' = [kind |-> kind, id |-> id, code |-> code, body |-> body]
    /\ UNCHANGED <<upload, disk, jobs, worker, restarts>>

GetJob(id) ==
    /\ Free
    /\ Answer("job", id, IF Stored(id) THEN 200 ELSE 404, None)

\* get_analysis_report reads the status first ...
BeginGetReport(id) ==
    /\ Free
    /\ Stored(id)
    /\ handler' = [id |-> id, status |-> jobs[id].status]
    /\ UNCHANGED <<upload, disk, jobs, worker, reply, restarts>>

GetUnknownReport(id) ==
    /\ Free
    /\ ~Stored(id)
    /\ Answer("report", id, 404, None)

\* ... and then, if that was COMPLETED, the report.
FinishGetReport ==
    /\ handler # None
    /\ LET id    == handler.id
           ready == handler.status = "completed" /\ jobs[id].report # None
       IN  Answer("report", id, IF ready THEN 200 ELSE 409,
                  IF ready THEN jobs[id].report ELSE None)

\* Mutant: a job is enough.
MutantGetPdf(id) ==
    /\ Free
    /\ Answer("pdf", id, IF Stored(id) THEN 200 ELSE 404,
              IF Stored(id) THEN jobs[id].report ELSE None)

\* export_report_pdf looks at the report alone.
GetPdf(id) ==
    /\ Free
    /\ LET ready == Stored(id) /\ jobs[id].report # None
       IN  Answer("pdf", id, IF ready THEN 200 ELSE 404,
                  IF ready THEN jobs[id].report ELSE None)
-------------------------------------------------------------------------------
\* The process ends and is started again: the store, the threads and the
\* requests are gone, the files stay.
Restart ==
    /\ restarts < MaxRestarts
    /\ restarts' = restarts + 1
    /\ jobs' = [i \in {} |-> None]
    /\ worker' = [i \in Ids |-> IF worker[i] = "none" THEN "none" ELSE "done"]
    /\ upload' = [i \in Ids |-> IF upload[i].phase \in {"receiving", "raised"}
                                THEN [upload[i] EXCEPT !.phase = "lost"] ELSE upload[i]]
    /\ handler' = None
    /\ UNCHANGED <<disk, reply>>

Init ==
    /\ upload = [i \in Ids |-> [phase |-> "none", chunks |-> 0, inspected |-> FALSE,
                              error |-> None]]
    /\ disk = {}
    /\ jobs = [i \in {} |-> None]
    /\ worker = [i \in Ids |-> "none"]
    /\ handler = None
    /\ reply = None
    /\ restarts = 0

UploadStep(id) ==
    \/ BeginUpload(id) \/ ReceiveChunk(id) \/ AcceptUpload(id) \/ CancelUpload(id)
    \/ ExceedLimit(id) \/ RefuseHeader(id) \/ FailIO(id)
    \/ CatchValidationError(id) \/ CatchHTTPException(id) \/ CatchException(id)

ReadStep(id) ==
    GetJob(id) \/ BeginGetReport(id) \/ GetUnknownReport(id) \/ GetPdf(id)

Next ==
    \/ \E id \in Ids : UploadStep(id) \/ WorkerStep(id) \/ ReadStep(id)
    \/ FinishGetReport
    \/ Restart

Spec == Init /\ [][Next]_vars

\* A handler ends, a thread runs (the watchdog bounds TShark, every other stage
\* is a finite computation), and the pool hands a free thread to each task.
Fairness ==
    /\ WF_vars(FinishGetReport)
    /\ \A id \in Ids : SF_vars(WorkerStep(id))

FairSpec == Spec /\ Fairness
-------------------------------------------------------------------------------
TypeOK ==
    /\ upload \in [Ids -> [phase : Phases, chunks : 0 .. MaxChunks, inspected : BOOLEAN,
                           error : Errors \cup {None}]]
    /\ disk \subseteq Ids
    /\ DOMAIN jobs \subseteq Ids
    /\ \A i \in DOMAIN jobs : jobs[i] \in [status : Statuses, report : Ids \cup {None}]
    /\ worker \in [Ids -> WorkerPlaces]
    /\ handler = None \/ handler \in [id : Ids, status : Statuses]
    /\ reply = None \/ reply \in [kind : {"job", "report", "pdf"}, id : Ids,
                                  code : {200, 404, 409}, body : Ids \cup {None}]
    /\ restarts \in 0 .. MaxRestarts

\* Every answer that carries a report or its PDF carries the one of the capture
\* asked for (get_analysis_report and export_report_pdf).
ServesOwnReport ==
    reply # None /\ reply.kind \in {"report", "pdf"} => (reply.code = 200) = (reply.body = reply.id)

\* A pipeline that has not got past dissection finds the capture on disk; an upload that
\* was answered with an error, by whichever of the exits of upload_capture
\* (analysis.py:1160-1215), leaves neither a file nor a job; and a file without a job is
\* one of an upload in progress, or cut off by a restart or a cancellation.
CaptureOnDisk ==
    \A i \in Ids :
        /\ worker[i] \in {"waiting", "dissecting"} => i \in disk
        /\ upload[i].phase = "refused" => i \notin disk /\ ~Stored(i)
        /\ i \in disk /\ ~Stored(i) =>
              \/ upload[i].phase \in {"receiving", "raised", "lost", "cancelled"}
              \/ upload[i].phase = "accepted" /\ restarts > 0

\* A job is never given up: a stored job that is not at its end is in the hands of
\* a worker, so no exit of run_pipeline_task forgets to set a final status.
NoJobAbandoned ==
    \A i \in DOMAIN jobs :
        jobs[i].status \notin Terminal => worker[i] \in Running \cup {"waiting"}

\* What a client is told of a job.
Told(i) == IF Stored(i) THEN jobs[i].status
           ELSE IF upload[i].phase = "accepted" THEN "lost" ELSE "unused"

BoardNow == [i \in Ids |-> Told(i)]

Board == INSTANCE JobBoard WITH board <- BoardNow

\* The statuses a client can read go queued, processing, completed or failed and
\* never back, and each accepted job reaches its end unless the server restarts.
JobsAreABoard == Board!FairSpec
===============================================================================
