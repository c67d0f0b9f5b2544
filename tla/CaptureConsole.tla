----------------------------- MODULE CaptureConsole -----------------------------
(***************************************************************************)
(* CaptureConsole.jsx: the panel that uploads a capture and follows its    *)
(* job.  A timer asks for the job's status whether or not the answer       *)
(* before has come, so that answers overtake each other; and neither an    *)
(* upload nor a question is recalled when the panel leaves the page: its   *)
(* answer still sets the active id, which all pages read.  The server is a *)
(* JobBoard.                                                               *)
(***************************************************************************)
EXTENDS JobBoard

CONSTANTS Slots,  \* bound: questions on their way at a time
          None    \* no id, no status, no question: none of Ids

VARIABLES
    posts,         \* uploads on their way: [id, here]; here: the panel is still on the page
    uploadResult,  \* the state of the panel: the id of its upload ...
    jobStatus,     \* ... and what it knows of its job
    seen,          \* both, as the effect saw them last
    interval,      \* the id the timer asks about
    requests,      \* questions by slot: [id, here, own, answer]; own: the timer still runs
    storage,       \* active_analysis_id
    told           \* history: uploads whose end has reached the panel

panel == <<uploadResult, jobStatus, seen>>
vars == <<board, posts, panel, interval, requests, storage, told>>

Over == {"completed", "failed"}

ConsoleTypeOK ==
    /\ board \in [Ids -> Known \cup {"unused", "lost"}]
    /\ posts \subseteq [id : Ids, here : BOOLEAN]
    /\ {uploadResult, interval, storage} \subseteq Ids \cup {None}
    /\ jobStatus \in Known \cup {None}
    /\ requests \in [Slots -> {None} \cup [id : Ids, here : BOOLEAN, own : BOOLEAN,
                                           answer : Known \cup {None, "error"}]]
    /\ told \subseteq Ids

uploading == \E p \in posts : p.here

\* The form with its buttons is on the panel; else the progress of the analysis.
FormShown == uploadResult = None /\ ~uploading

\* A click finds the page rendered and its effects run.
Rendered == seen = <<uploadResult, jobStatus>>
-------------------------------------------------------------------------------
\* clearAnalysisState, as far as the active id goes.
ClearActive == storage' = None

\* handleUpload and handleDemoPcap: only the latter resets the status first.
BeginUpload(id) ==
    /\ Rendered /\ FormShown
    /\ board[id] = "unused" /\ \A p \in posts : p.id # id
    /\ posts' = posts \cup {[id |-> id, here |-> TRUE]}
    /\ jobStatus' \in {jobStatus, None}
    /\ ClearActive
    /\ UNCHANGED <<board, uploadResult, seen, interval, requests, told>>

UploadAnswered(p) ==
    /\ board[p.id] # "unused"
    /\ posts' = posts \ {p}
    /\ IF p.here THEN uploadResult' = p.id /\ jobStatus' = "queued"
                 ELSE UNCHANGED <<uploadResult, jobStatus>>
    /\ storage' = p.id
    /\ UNCHANGED <<board, seen, interval, requests, told>>

\* Refused, or lost on its way or on the way back.
UploadFails(p) ==
    /\ posts' = posts \ {p}
    /\ UNCHANGED <<board, panel, interval, requests, storage, told>>

RetryShown == jobStatus = "failed"

\* handleReset: the cross beside the file, and "Try Another Capture".
Reset ==
    /\ Rendered /\ (FormShown \/ RetryShown)
    /\ uploadResult' = None /\ jobStatus' = None
    /\ ClearActive
    /\ UNCHANGED <<board, posts, seen, interval, requests, told>>

Abandoned(r) == IF r = None THEN None ELSE [r EXCEPT !.own = FALSE]
-------------------------------------------------------------------------------
\* Mutant: the timer is set for a job that is queued only.
MutantFollowed == IF jobStatus = "queued" THEN uploadResult ELSE None

\* The job the effect sets a timer for.
Followed == IF jobStatus \in Over THEN None ELSE uploadResult

\* React runs the effect after a render in which the upload or the status differs: it
\* clears the timer it had set.
RunEffect ==
    /\ seen # <<uploadResult, jobStatus>>
    /\ seen' = <<uploadResult, jobStatus>>
    /\ interval' = Followed
    /\ requests' = [s \in Slots |-> Abandoned(requests[s])]
    /\ UNCHANGED <<board, posts, uploadResult, jobStatus, storage, told>>

Tick(s) ==
    /\ interval # None /\ requests[s] = None
    /\ requests' = [requests EXCEPT ![s] =
                       [id |-> interval, here |-> TRUE, own |-> TRUE, answer |-> None]]
    /\ UNCHANGED <<board, posts, panel, interval, storage, told>>

Reads(s, answers) ==
    /\ requests[s] # None /\ requests[s].answer = None
    /\ \E answer \in answers : requests' = [requests EXCEPT ![s] = [@ EXCEPT !.answer = answer]]
    /\ UNCHANGED <<board, posts, panel, interval, storage, told>>

\* The server reads the job; the answer travels back.
ServerReads(s) == requests[s] # None /\ Reads(s, Known \cap {board[requests[s].id]})

\* There is no such job, or a failure on the way: the panel logs it.
ServerFails(s) == Reads(s, {"error"})

\* clearInterval: of no effect on a timer set since.
Stops(r) == r.own /\ r.answer \in Over

\* setJobStatus does nothing to a panel that has left the page.
Receive(s) ==
    LET r == requests[s]
    IN  /\ r # None /\ r.answer # None
        /\ jobStatus' = IF r.here /\ r.answer # "error" THEN r.answer ELSE jobStatus
        /\ storage' = IF r.answer = "completed" THEN r.id ELSE storage
        /\ interval' = IF Stops(r) THEN None ELSE interval
        /\ requests' = [requests EXCEPT ![s] = None]
        /\ told' = IF r.here /\ r.answer \in Over THEN told \cup {r.id} ELSE told
        /\ UNCHANGED <<board, posts, uploadResult, seen>>

\* The user goes to another page; when they come back it is to a new panel.
Leave ==
    /\ posts' = {[p EXCEPT !.here = FALSE] : p \in posts}
    /\ uploadResult' = None /\ jobStatus' = None /\ seen' = <<None, None>> /\ interval' = None
    /\ requests' = [s \in Slots |-> IF requests[s] = None THEN None
                                    ELSE [requests[s] EXCEPT !.here = FALSE, !.own = FALSE]]
    /\ UNCHANGED <<board, storage, told>>
-------------------------------------------------------------------------------
ServerMoves(A) == A /\ UNCHANGED <<posts, panel, interval, requests, storage, told>>

ConsoleInit ==
    /\ Init
    /\ posts = {} /\ uploadResult = None /\ jobStatus = None /\ seen = <<None, None>>
    /\ interval = None /\ requests = [s \in Slots |-> None]
    /\ storage = None /\ told = {}

ConsoleNext ==
    \/ \E id \in Ids : BeginUpload(id)
    \/ \E p \in posts : UploadAnswered(p) \/ UploadFails(p) \/ ServerMoves(Accept(p.id))
    \/ \E s \in Slots : Tick(s) \/ ServerReads(s) \/ ServerFails(s) \/ Receive(s)
    \/ Reset \/ RunEffect \/ Leave
    \/ ServerMoves(Forget)
    \/ \E id \in Ids : ServerMoves(Work(id))

ConsoleSpec == ConsoleInit /\ [][ConsoleNext]_vars

\* Timers fire, React runs its effects, what was asked is answered or fails, and not
\* every question fails.
ConsoleFairness ==
    /\ WF_vars(RunEffect)
    /\ \A s \in Slots :
          /\ WF_vars(Tick(s)) /\ WF_vars(Receive(s))
          /\ WF_vars(ServerReads(s) \/ ServerFails(s)) /\ SF_vars(ServerReads(s))
-------------------------------------------------------------------------------
\* The end of an analysis reaches the panel that waits for it, however answers overtake
\* each other or fail, unless the panel shows an end already: a late answer about a capture
\* given up before can make it.
OutcomeIsTold ==
    \A i \in Ids :
        (uploadResult = i /\ board[i] \in Over)
            ~> (i \in told \/ uploadResult # i \/ jobStatus \in Over \/ board[i] = "lost")
===============================================================================
