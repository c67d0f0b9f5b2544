-------------------------- MODULE AnalysisJobsProofs --------------------------
(***************************************************************************)
(* Proofs about AnalysisJobs for every set of ids and every bound: answers *)
(* carry the report of the job asked for, files and jobs are not given up, *)
(* and the service implements the safety part of JobBoard.  The invariant  *)
(* ties the place of a worker to the status that clients read.             *)
(***************************************************************************)
EXTENDS AnalysisJobs, TLAPS

Jobs    == [status : Statuses, report : Ids \cup {None}]
Uploads == [phase : Phases, chunks : 0 .. MaxChunks, inspected : BOOLEAN,
            error : Errors \cup {None}]

\* The store, the uploads and the workers have their types.
StateOK ==
    /\ upload \in [Ids -> Uploads]
    /\ DOMAIN jobs \subseteq Ids /\ jobs \in [DOMAIN jobs -> Jobs]
    /\ worker \in [Ids -> WorkerPlaces]
    /\ disk \subseteq Ids /\ restarts \in Nat

\* A job exists since its upload was accepted, and its report is its own.
JobsOfUploads ==
    \A i \in DOMAIN jobs : upload[i].phase = "accepted" /\ jobs[i].report \in {i, None}

\* A worker that is not at its end has a job with the status of the worker's place.
StatusFits ==
    \A i \in Ids :
        /\ worker[i] # "none" => upload[i].phase = "accepted"
        /\ worker[i] \in Running \cup {"waiting"} => Stored(i)
        /\ Stored(i) =>
              /\ worker[i] # "none"
              /\ worker[i] \in {"waiting", "dissecting"} => jobs[i].status = "queued"
              /\ worker[i] \in {"reassembling", "analysing", "storing", "publishing"} =>
                    jobs[i].status = "processing"
              /\ worker[i] \in {"confirming"} => jobs[i].status = "completed"
              /\ worker[i] = "done" => jobs[i].status \in Terminal

\* A capture is on disk from the beginning of its upload, and a job as long as the process
\* lives from its acceptance; there is nothing on disk of an upload that has not begun.
FilesOfUploads ==
    \A i \in Ids :
        /\ upload[i].phase \in {"receiving", "accepted"} => i \in disk
        /\ upload[i].phase = "accepted" => Stored(i) \/ restarts > 0
        /\ upload[i].phase \in {"none", "refused"} => i \notin disk
        /\ upload[i].phase = "raised" => upload[i].error \in Errors

\* The report handler has found its job.
HandlerIsStored == handler # None => handler.id \in DOMAIN jobs

\* The invariant: its parts hold together, none alone.
IInv ==
    /\ StateOK /\ JobsOfUploads /\ StatusFits /\ FilesOfUploads /\ HandlerIsStored
    /\ CaptureOnDisk /\ ServesOwnReport

\* A service that starts with no analysis has nothing to account for.
LEMMA InitIInv == Init => IInv
<1> USE JobsAssumption DEF Init
<1>1. Init => StateOK
  BY DEF StateOK, Jobs, Uploads, WorkerPlaces, Phases
<1>2. Init => JobsOfUploads /\ StatusFits /\ FilesOfUploads /\ HandlerIsStored
  BY DEF JobsOfUploads, StatusFits, FilesOfUploads, HandlerIsStored, Stored, Running
<1>3. Init => CaptureOnDisk /\ ServesOwnReport
  BY DEF CaptureOnDisk, ServesOwnReport
<1> QED
  BY <1>1, <1>2, <1>3 DEF IInv

\* A step of an upload that neither accepts it nor begins it moves its phase and at most
\* deletes its file: what then has to hold of the new phase.
LEMMA UploadMovesOn ==
    ASSUME IInv, NEW id \in Ids, NEW record \in Uploads,
           upload[id].phase \in {"none", "receiving", "raised"},
           upload' = [upload EXCEPT ![id] = record],
           record.phase \in {"receiving", "raised", "refused", "cancelled"},
           \/ disk' = disk \cup {id} /\ record.phase # "refused"
           \/ disk' = disk \ {id} /\ record.phase # "receiving",
           record.phase = "raised" => record.error \in Errors,
           UNCHANGED <<jobs, worker, handler, reply, restarts>>
    PROVE  IInv'
<1> USE DEF IInv, StateOK
<1>1. /\ upload'[id] = record
      /\ \A i \in Ids : i # id => upload'[i] = upload[i]
      /\ id \notin DOMAIN jobs /\ worker[id] = "none"
  BY DEF JobsOfUploads, StatusFits
<1>2. StateOK'
  BY <1>1
<1>3. (JobsOfUploads /\ StatusFits /\ HandlerIsStored /\ ServesOwnReport)'
  BY <1>1 DEF JobsOfUploads, StatusFits, HandlerIsStored, ServesOwnReport, Stored
<1>4. FilesOfUploads'
  BY <1>1 DEF FilesOfUploads, Stored
<1>5. CaptureOnDisk'
  BY <1>1 DEF CaptureOnDisk, Stored
<1> QED
  BY <1>2, <1>3, <1>4, <1>5

\* What a step of an upload preserves.
LEMMA UploadPreserves ==
    ASSUME IInv, NEW id \in Ids, UploadStep(id)
    PROVE  IInv'
<1> USE JobsAssumption
<1>0. upload[id] \in Uploads /\ upload \in [Ids -> Uploads] /\ disk \subseteq Ids
  BY DEF IInv, StateOK
<1>1. CASE BeginUpload(id)
  <2>1. PICK record \in Uploads : /\ upload' = [upload EXCEPT ![id] = record]
                                  /\ record.phase = "receiving"
    <3>1. [upload[id] EXCEPT !.phase = "receiving"] \in Uploads
      BY <1>0 DEF Uploads, Phases
    <3> QED BY <1>0, <1>1, <3>1 DEF BeginUpload, Uploads
  <2> QED
    BY <1>1, <2>1, UploadMovesOn DEF BeginUpload
<1>2. CASE ReceiveChunk(id)
  <2>1. PICK record \in Uploads : /\ upload' = [upload EXCEPT ![id] = record]
                                  /\ record.phase = "receiving"
    <3>1. PICK b \in BOOLEAN :
             upload' = [upload EXCEPT ![id].chunks = @ + 1, ![id].inspected = b]
      BY <1>2, <1>0 DEF ReceiveChunk, Uploads
    <3> DEFINE r == [upload[id] EXCEPT !.chunks = @ + 1, !.inspected = b]
    <3>2. upload[id].chunks + 1 \in 0 .. MaxChunks /\ upload[id].phase = "receiving"
      BY <1>0, <1>2 DEF ReceiveChunk, Uploads
    <3>4. r \in Uploads /\ r.phase = "receiving"
      BY <1>0, <3>2 DEF Uploads
    <3>3. upload' = [upload EXCEPT ![id] = r]
      BY <1>0, <3>1
    <3> QED BY <3>3, <3>4
  <2>2. /\ upload[id].phase = "receiving" /\ disk' = disk \cup {id}
        /\ UNCHANGED <<jobs, worker, handler, reply, restarts>>
    BY <1>0, <1>2 DEF ReceiveChunk, IInv, FilesOfUploads
  <2> QED
    BY <2>1, <2>2, UploadMovesOn
<1>3. CASE CancelUpload(id)
  <2>1. [upload[id] EXCEPT !.phase = "cancelled"] \in Uploads
    BY <1>0 DEF Uploads, Phases
  <2>2. upload' = [upload EXCEPT ![id] = [upload[id] EXCEPT !.phase = "cancelled"]]
    BY <1>0, <1>3 DEF CancelUpload
  <2>3. /\ upload[id].phase = "receiving" /\ disk' = disk \cup {id}
        /\ UNCHANGED <<jobs, worker, handler, reply, restarts>>
    BY <1>0, <1>3 DEF CancelUpload, IInv, FilesOfUploads
  <2>4. [upload[id] EXCEPT !.phase = "cancelled"].phase = "cancelled"
    BY <1>0 DEF Uploads
  <2> QED
    BY <2>1, <2>2, <2>3, <2>4, UploadMovesOn
<1>4. CASE ExceedLimit(id) \/ RefuseHeader(id) \/ FailIO(id)
  <2>1. PICK error \in Errors : Raise(id, error)
    BY <1>4 DEF ExceedLimit, RefuseHeader, FailIO, Errors
  <2>2. [upload[id] EXCEPT !.phase = "raised", !.error = error] \in Uploads
    BY <1>0 DEF Uploads, Phases
  <2>3. upload' = [upload EXCEPT ![id] =
                     [upload[id] EXCEPT !.phase = "raised", !.error = error]]
    BY <1>0, <2>1 DEF Raise
  <2>4. /\ upload[id].phase = "receiving"
        /\ UNCHANGED <<jobs, worker, handler, reply, restarts>>
    BY <2>1 DEF Raise
  <2>5. disk' = disk \cup {id} \/ disk' = disk \ {id}
    BY <1>0, <1>4, <2>4 DEF ExceedLimit, RefuseHeader, FailIO, IInv, FilesOfUploads
  <2> DEFINE r == [upload[id] EXCEPT !.phase = "raised", !.error = error]
  <2>6. r.phase = "raised" /\ r.error \in Errors
    BY <1>0 DEF Uploads
  <2> QED
    BY <2>2, <2>3, <2>4, <2>5, <2>6, UploadMovesOn
<1>5. CASE CatchValidationError(id) \/ CatchHTTPException(id) \/ CatchException(id)
  <2>1. PICK error \in Errors : Refuse(id, error)
    BY <1>5 DEF CatchValidationError, CatchHTTPException, CatchException, Errors
  <2>2. [upload[id] EXCEPT !.phase = "refused"] \in Uploads
    BY <1>0 DEF Uploads, Phases
  <2>3. upload' = [upload EXCEPT ![id] = [upload[id] EXCEPT !.phase = "refused"]]
    BY <1>0, <2>1 DEF Refuse
  <2>4. disk' = disk \ {id}
    BY <1>5 DEF CatchValidationError, CatchHTTPException, CatchException
  <2>5. /\ upload[id].phase = "raised"
        /\ UNCHANGED <<jobs, worker, handler, reply, restarts>>
    BY <2>1 DEF Refuse
  <2>6. [upload[id] EXCEPT !.phase = "refused"].phase = "refused"
    BY <1>0 DEF Uploads
  <2> QED
    BY <2>2, <2>3, <2>4, <2>5, <2>6, UploadMovesOn
<1>6. CASE AcceptUpload(id)
  <2> USE <1>6 DEF AcceptUpload, IInv, StateOK, Uploads, Jobs
  <2>1. StateOK' BY DEF Statuses, WorkerPlaces, Phases
  <2>2. JobsOfUploads' BY DEF JobsOfUploads
  <2>3. StatusFits' BY DEF StatusFits, Stored, Running
  <2>4. (HandlerIsStored /\ ServesOwnReport)' BY DEF HandlerIsStored, ServesOwnReport
  <2>5. FilesOfUploads' BY DEF FilesOfUploads, Stored
  <2>6. CaptureOnDisk' BY DEF CaptureOnDisk, FilesOfUploads, Stored
  <2> QED BY <2>1, <2>2, <2>3, <2>4, <2>5, <2>6
<1> QED
  BY <1>1, <1>2, <1>3, <1>4, <1>5, <1>6 DEF UploadStep

\* A worker moves on and at most writes a report of its own or a status that fits its
\* new place.
LEMMA WorkerPreserves ==
    ASSUME IInv, NEW id \in Ids, WorkerStep(id)
    PROVE  IInv'
<1> USE DEF IInv, StateOK
<1>1. PICK from \in WorkerPlaces, to \in WorkerPlaces : Move(id, from, to)
  BY DEF WorkerStep, StartPipeline, FinishDissection, FinishReassembly, FinishAnalysis,
         FailPipeline, StoreReport, PublishReport, ConfirmCompleted, WorkerPlaces, Running
<1>2. /\ worker[id] = from /\ worker' = [worker EXCEPT ![id] = to]
      /\ UNCHANGED <<upload, disk, handler, reply, restarts>>
  BY <1>1 DEF Move
<1>3. /\ DOMAIN jobs' = DOMAIN jobs
      /\ \A i \in DOMAIN jobs : i # id => jobs'[i] = jobs[i]
      /\ jobs' \in [DOMAIN jobs -> Jobs]
      /\ id \in DOMAIN jobs => jobs'[id].report \in {id, None}
  BY DEF WorkerStep, StartPipeline, FinishDissection, FinishReassembly, FinishAnalysis,
         FailPipeline, StoreReport, PublishReport, ConfirmCompleted, SetStatus, Stored,
         Jobs, Statuses, JobsOfUploads
<1>4. StateOK'
  BY <1>2, <1>3
<1>5. JobsOfUploads'
  BY <1>2, <1>3 DEF JobsOfUploads
<1>6. StatusFits'
  <2>1. \A i \in Ids : i # id => worker'[i] = worker[i]
    BY <1>2
  <2>2. /\ to \in Running => Stored(id)
        /\ Stored(id) =>
              /\ to \notin {"none", "waiting"}
              /\ to = "dissecting" => jobs'[id].status = "queued"
              /\ to \in {"reassembling", "analysing", "storing", "publishing"} =>
                    jobs'[id].status = "processing"
              /\ to = "confirming" => jobs'[id].status = "completed"
              /\ to = "done" => jobs'[id].status \in Terminal
        /\ from # "none" /\ to # "waiting"
    BY <1>2 DEF WorkerStep, StartPipeline, FinishDissection, FinishReassembly,
         FinishAnalysis, FailPipeline, StoreReport, PublishReport, ConfirmCompleted,
         SetStatus, Stored, StatusFits, Move, Running, Terminal, Jobs
  <2>3. worker'[id] = to
    BY <1>2
  <2> QED
    BY <1>2, <1>3, <2>1, <2>2, <2>3 DEF StatusFits, Stored
<1>7. (FilesOfUploads /\ HandlerIsStored /\ ServesOwnReport)'
  BY <1>2, <1>3 DEF FilesOfUploads, HandlerIsStored, ServesOwnReport, Stored
<1>8. CaptureOnDisk'
  BY <1>2, <1>3, <1>6, <1>7 DEF CaptureOnDisk, StatusFits, FilesOfUploads, Stored
<1> QED
  BY <1>4, <1>5, <1>6, <1>7, <1>8

\* The read endpoints change nothing but their own request and answer.
LEMMA ReadPreserves ==
    ASSUME IInv, (\E id \in Ids : ReadStep(id)) \/ FinishGetReport
    PROVE  IInv'
<1> USE JobsAssumption DEF IInv, StateOK, JobsOfUploads
<1>1. UNCHANGED <<upload, disk, jobs, worker, restarts>>
  BY DEF ReadStep, FinishGetReport, GetJob, BeginGetReport, GetUnknownReport, GetPdf, Answer
<1>2. (StateOK /\ JobsOfUploads /\ StatusFits /\ FilesOfUploads /\ CaptureOnDisk)'
  BY <1>1 DEF StatusFits, FilesOfUploads, CaptureOnDisk, Stored
<1>3. HandlerIsStored'
  BY <1>1 DEF HandlerIsStored, ReadStep, FinishGetReport, GetJob, BeginGetReport,
         GetUnknownReport, GetPdf, Answer, Stored
<1>4. ServesOwnReport'
  <2>1. CASE \E id \in Ids : ReadStep(id)
    BY <2>1 DEF ServesOwnReport, ReadStep, GetJob, BeginGetReport, GetUnknownReport,
         GetPdf, Answer, Stored
  <2>2. CASE FinishGetReport
    BY <2>2 DEF ServesOwnReport, FinishGetReport, Answer, HandlerIsStored
  <2> QED
    BY <2>1, <2>2
<1> QED
  BY <1>2, <1>3, <1>4

\* A restart empties the store and stops the workers with it.
LEMMA RestartPreserves ==
    ASSUME IInv, Restart
    PROVE  IInv'
<1> USE DEF IInv, StateOK, Restart
<1>1. /\ \A i \in Ids : worker'[i] = IF worker[i] = "none" THEN "none" ELSE "done"
      /\ DOMAIN jobs' = {}
      /\ \A i \in Ids : upload'[i].phase = IF upload[i].phase \in {"receiving", "raised"}
                                           THEN "lost" ELSE upload[i].phase
      /\ restarts' > 0 /\ restarts' \in Nat
  <2>1. \A i \in Ids : worker'[i] = IF worker[i] = "none" THEN "none" ELSE "done"
    OBVIOUS
  <2>2. \A i \in Ids : upload'[i].phase = IF upload[i].phase \in {"receiving", "raised"}
                                          THEN "lost" ELSE upload[i].phase
    BY DEF Uploads
  <2>3. DOMAIN jobs' = {} /\ restarts' > 0 /\ restarts' \in Nat
    OBVIOUS
  <2> QED
    BY <2>1, <2>2, <2>3
<1>2. StateOK'
  <2>1. upload' \in [Ids -> Uploads]
    <3>1. ASSUME NEW record \in Uploads PROVE [record EXCEPT !.phase = "lost"] \in Uploads
      BY DEF Uploads, Phases
    <3> QED BY <3>1
  <2>2. worker' \in [Ids -> WorkerPlaces]
    BY DEF WorkerPlaces
  <2> QED
    BY <1>1, <2>1, <2>2
<1>3. (JobsOfUploads /\ HandlerIsStored /\ ServesOwnReport)'
  BY <1>1 DEF JobsOfUploads, HandlerIsStored, ServesOwnReport
<1>4. StatusFits'
  BY <1>1 DEF StatusFits, Stored, Running
<1>5. (FilesOfUploads /\ CaptureOnDisk)'
  BY <1>1 DEF FilesOfUploads, CaptureOnDisk, Stored, Uploads, Phases
<1> QED
  BY <1>2, <1>3, <1>4, <1>5

\* In every reachable state of the service the upload, the jobs, the results and the files
\* of every analysis fit each other, through any interleaving and any number of restarts.
THEOREM Invariance == Spec => []IInv
<1>1. IInv /\ [Next]_vars => IInv'
  <2> SUFFICES ASSUME IInv, [Next]_vars PROVE IInv'
    OBVIOUS
  <2>1. CASE UNCHANGED vars
    BY <2>1 DEF vars, IInv, StateOK, JobsOfUploads, StatusFits, FilesOfUploads,
         HandlerIsStored, CaptureOnDisk, ServesOwnReport, Stored
  <2>2. CASE Next
    BY <2>2, UploadPreserves, WorkerPreserves, ReadPreserves, RestartPreserves DEF Next
  <2> QED
    BY <2>1, <2>2
<1> QED
  BY InitIInv, <1>1, PTL DEF Spec

\* Whatever is asked, and whatever workers and restarts do meanwhile, a report or PDF
\* that is served is the one of the analysis asked for (analysis.py:1257-1290).
THEOREM OwnReport == Spec => []ServesOwnReport
<1>1. IInv => ServesOwnReport
  BY DEF IInv
<1> QED
  BY Invariance, <1>1, PTL

\* The capture is there as long as a pipeline may read it; no exit of upload_capture that
\* answers with an error leaves a file or a job; and what is left without a job was cut
\* off, by a restart or a cancellation.
THEOREM CaptureKept == Spec => []CaptureOnDisk
<1>1. IInv => CaptureOnDisk
  BY DEF IInv
<1> QED
  BY Invariance, <1>1, PTL

\* No exit of run_pipeline_task leaves a job in the store without a final status.
THEOREM NoneAbandoned == Spec => []NoJobAbandoned
<1>1. IInv => NoJobAbandoned
  BY DEF IInv, StateOK, StatusFits, NoJobAbandoned, Stored, WorkerPlaces
<1> QED
  BY Invariance, <1>1, PTL

\* A step that changes what is told of one job only.
LEMMA OneIsTold ==
    ASSUME IInv, NEW id \in Ids,
           \A i \in Ids : i # id => Told(i)' = Told(i)
    PROVE  BoardNow' = [BoardNow EXCEPT ![id] = Told(id)']
  BY DEF BoardNow

\* A step of an upload is a step of the board, or none that the board shows.
LEMMA UploadIsBoardStep ==
    ASSUME IInv, NEW id \in Ids, UploadStep(id)
    PROVE  [Board!Next]_BoardNow
<1> USE DEF IInv, StateOK
<1>1. CASE ~AcceptUpload(id)
  <2>1. jobs' = jobs
    BY <1>1 DEF UploadStep, BeginUpload, ReceiveChunk, CancelUpload, ExceedLimit,
         RefuseHeader, FailIO, Raise, CatchValidationError, CatchHTTPException,
         CatchException, Refuse
  <2>2. \A i \in Ids : (upload'[i].phase = "accepted") = (upload[i].phase = "accepted")
    <3>1. CASE BeginUpload(id) \/ ReceiveChunk(id) \/ CancelUpload(id)
      BY <3>1 DEF BeginUpload, ReceiveChunk, CancelUpload, Uploads
    <3>2. CASE ExceedLimit(id) \/ RefuseHeader(id) \/ FailIO(id)
      BY <3>2 DEF ExceedLimit, RefuseHeader, FailIO, Raise, Uploads
    <3>3. CASE CatchValidationError(id) \/ CatchHTTPException(id) \/ CatchException(id)
      BY <3>3 DEF CatchValidationError, CatchHTTPException, CatchException, Refuse, Uploads
    <3> QED
      BY <1>1, <3>1, <3>2, <3>3 DEF UploadStep
  <2> QED
    BY <2>1, <2>2 DEF BoardNow, Told, Stored
<1>2. CASE AcceptUpload(id)
  <2>1. \A i \in Ids : i # id => Told(i)' = Told(i)
    BY <1>2 DEF AcceptUpload, Told, Stored
  <2>2. Told(id) = "unused" /\ Told(id)' = "queued"
    BY <1>2 DEF AcceptUpload, Told, Stored, JobsOfUploads
  <2>3. BoardNow' = [BoardNow EXCEPT ![id] = "queued"] /\ BoardNow[id] = "unused"
    BY <2>1, <2>2, OneIsTold DEF BoardNow
  <2> QED
    BY <2>3 DEF Board!Next, Board!Accept, BoardNow, Told
<1> QED
  BY <1>1, <1>2 DEF UploadStep

\* So is a step of the worker of an analysis.
LEMMA WorkerIsBoardStep ==
    ASSUME IInv, NEW id \in Ids, WorkerStep(id)
    PROVE  [Board!Next]_BoardNow
<1> USE DEF IInv, StateOK
<1>1. \A i \in Ids : i # id => Told(i)' = Told(i)
  BY DEF WorkerStep, StartPipeline, FinishDissection, FinishReassembly, FinishAnalysis,
         FailPipeline, StoreReport, PublishReport, ConfirmCompleted, SetStatus, Move, Told,
         Stored
<1>2. \/ Told(id)' = Told(id)
      \/ Told(id) = "queued" /\ Told(id)' = "processing"
      \/ Told(id) = "processing" /\ Told(id)' = "completed"
      \/ Told(id) \in {"queued", "processing"} /\ Told(id)' = "failed"
  <2>1. CASE ~Stored(id)
    BY <2>1 DEF WorkerStep, StartPipeline, FinishDissection, FinishReassembly,
         FinishAnalysis, FailPipeline, StoreReport, PublishReport, ConfirmCompleted,
         SetStatus, Move, Told, Stored
  <2>2. CASE Stored(id)
    BY <2>2 DEF WorkerStep, StartPipeline, FinishDissection, FinishReassembly,
         FinishAnalysis, FailPipeline, StoreReport, PublishReport, ConfirmCompleted,
         SetStatus, Move, Told, Stored, StatusFits, Jobs
  <2> QED
    BY <2>1, <2>2
<1>3. BoardNow' = [BoardNow EXCEPT ![id] = Told(id)'] /\ BoardNow[id] = Told(id)
  BY <1>1, OneIsTold DEF BoardNow
<1>4. CASE Told(id)' = Told(id)
  BY <1>3, <1>4 DEF BoardNow
<1>5. CASE Told(id)' # Told(id)
  <2>1. Board!Start(id) \/ Board!Complete(id) \/ Board!Fail(id)
    BY <1>2, <1>3, <1>5 DEF Board!Start, Board!Complete, Board!Fail
  <2> QED
    BY <2>1 DEF Board!Next, Board!Work
<1> QED
  BY <1>4, <1>5

\* A restart of the service is what the board calls Forget.
LEMMA RestartIsForget ==
    ASSUME IInv, Restart
    PROVE  Board!Forget
<1> USE DEF IInv, StateOK
<1>1. \A i \in Ids :
         Told(i)' = IF Told(i) \in Board!Known THEN "lost" ELSE Told(i)
  BY DEF Restart, Told, Stored, Board!Known, Uploads, Jobs, Statuses, JobsOfUploads
<1> QED
  BY <1>1 DEF Board!Forget, BoardNow

\* Clients see a JobBoard: a job goes from queued to its end and never back, and nothing
\* but a restart makes the service forget it (run_pipeline_task, JobStore).
THEOREM ServiceIsABoard == Spec => Board!Spec
<1>1. Init => Board!Init
  BY DEF Init, Board!Init, BoardNow, Told, Stored
<1>2. IInv /\ [Next]_vars => [Board!Next]_BoardNow
  <2> SUFFICES ASSUME IInv, [Next]_vars PROVE [Board!Next]_BoardNow
    OBVIOUS
  <2>1. ASSUME NEW id \in Ids, UploadStep(id) \/ WorkerStep(id)
        PROVE  [Board!Next]_BoardNow
    BY <2>1, UploadIsBoardStep, WorkerIsBoardStep
  <2>2. CASE (\E id \in Ids : ReadStep(id)) \/ FinishGetReport
    BY <2>2 DEF ReadStep, FinishGetReport, GetJob, BeginGetReport, GetUnknownReport, GetPdf,
         Answer, BoardNow, Told, Stored
  <2>3. CASE Restart
    BY <2>3, RestartIsForget DEF Board!Next
  <2>4. CASE UNCHANGED vars
    BY <2>4 DEF vars, BoardNow, Told, Stored
  <2> QED
    BY <2>1, <2>2, <2>3, <2>4 DEF Next
<1> QED
  BY <1>1, <1>2, Invariance, PTL DEF Spec, Board!Spec
===============================================================================
