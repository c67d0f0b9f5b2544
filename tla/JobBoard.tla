------------------------------- MODULE JobBoard -------------------------------
(***************************************************************************)
(* What the job service promises its clients: an upload that was accepted  *)
(* is queued, is worked on, and ends as completed or failed, for good, and *)
(* only the end of the process can make it forget the job.  AnalysisJobs   *)
(* implements this; ReportPolling is a client of it.                       *)
(***************************************************************************)
EXTENDS Naturals

CONSTANT Ids

VARIABLE board  \* id -> what a client that asks now is told

Known == {"queued", "processing", "completed", "failed"}

Init == board = [i \in Ids |-> "unused"]

Accept(i) == board[i] = "unused" /\ board' = [board EXCEPT ![i] = "queued"]

Start(i) == board[i] = "queued" /\ board' = [board EXCEPT ![i] = "processing"]

Complete(i) == board[i] = "processing" /\ board' = [board EXCEPT ![i] = "completed"]

Fail(i) == board[i] \in {"queued", "processing"} /\ board' = [board EXCEPT ![i] = "failed"]

Forget == board' = [i \in Ids |-> IF board[i] \in Known THEN "lost" ELSE board[i]]

Work(i) == Start(i) \/ Complete(i) \/ Fail(i)

Next == Forget \/ \E i \in Ids : Accept(i) \/ Work(i)

Spec == Init /\ [][Next]_board

\* The answer to a request for the report: 200, 409 or 404.
Answer(i) == CASE board[i] = "completed" -> "report"
               [] board[i] \in Known \ {"completed"} -> "not ready"
               [] OTHER -> "unknown id"

FairSpec == Spec /\ \A i \in Ids : WF_board(Work(i))
===============================================================================
