---------------------------- MODULE ReportPolling -----------------------------
(***************************************************************************)
(* AnalysisContext.jsx: the browser's side of an analysis.  fetchReport is *)
(* an asynchronous loop; a newer call cancels the older one only by a flag *)
(* which the older one reads when its request or its timer comes back.     *)
(* The active id is in localStorage, which all tabs share, and is copied   *)
(* to the provider's state by events; an effect follows that state.        *)
(* The server is a JobBoard.                                               *)
(***************************************************************************)
EXTENDS JobBoard, FiniteSets

CONSTANTS MAX_ATTEMPTS,    \* requests of one fetchReport
          NetworkAttempts, \* attempts below which a lost answer is retried
          MaxFetches,      \* bound: calls of fetchReport with an id
          None             \* no id, no report, no error, no poll

Errors == {"not found", "timed out", "failed to load"}

\* None is none of the values it stands in for.
ASSUME PollingAssumption ==
    /\ MAX_ATTEMPTS \in Nat \ {0} /\ NetworkAttempts \in Nat /\ MaxFetches \in Nat
    /\ None \notin Ids \cup Nat \cup Errors

VARIABLES
    storage,     \* localStorage's active_analysis_id
    notified,    \* an event of another tab's change is still to be delivered
    analysisId,  \* the provider's state
    followed,    \* the id the effect has run for
    polls,       \* the calls of fetchReport with an id, by number
    active,      \* activePollingRef.current
    wanted,      \* the id of the latest fetchReport
    view         \* report, loading and error

pageVars == <<storage, notified, analysisId, followed>>
vars == <<board, storage, notified, analysisId, followed, polls, active, wanted, view>>

Blank   == [report |-> None, loading |-> FALSE, error |-> None]
Loading == [Blank EXCEPT !.loading = TRUE]
Answers == {"report", "not ready", "unknown id", "network error", "server error"}
Places  == {"top", "asking", "waiting", "over"} \cup Answers

\* Ids the page can come to hold: those an upload returned.
Uploaded == {i \in Ids : board[i] # "unused"}
-------------------------------------------------------------------------------
\* Mutant: the loop before is left alone.
MutantCancelActive == polls
CancelActive ==
    IF active = None THEN polls ELSE [polls EXCEPT ![active].cancelled = TRUE]

FetchReport(id) ==
    /\ wanted' = id
    /\ IF id = None
       THEN polls' = CancelActive /\ view' = Blank /\ UNCHANGED active
       ELSE LET n == Cardinality(DOMAIN polls) + 1
            IN  /\ n <= MaxFetches
                /\ polls' = [p \in 1 .. n |-> IF p < n THEN CancelActive[p]
                               ELSE [id |-> id, cancelled |-> FALSE, attempts |-> 0,
                                     at |-> "top"]]
                /\ active' = n
                /\ view' = Loading

\* A step of call p that leaves it at a place.
Goto(p, from, to) ==
    polls[p].at = from /\ polls' = [polls EXCEPT ![p].at = to]

\* Mutant: a cancelled call still sets the state.
MutantUnless(p, newView) == view' = newView

\* What call p does to the view, unless it was cancelled while it waited.
Unless(p, newView) ==
    view' = IF polls[p].cancelled THEN view ELSE newView

Continues(p) == ~polls[p].cancelled /\ polls[p].attempts < MAX_ATTEMPTS

\* Mutant: the attempts are not counted.
MutantAttempt(p) ==
    /\ polls[p].at = "top" /\ Continues(p)
    /\ polls' = [polls EXCEPT ![p].at = "asking"]
    /\ UNCHANGED <<board, pageVars, active, wanted, view>>

\* The head of the loop, into the request ...
Attempt(p) ==
    /\ polls[p].at = "top" /\ Continues(p)
    /\ polls' = [polls EXCEPT ![p].at = "asking", ![p].attempts = @ + 1]
    /\ UNCHANGED <<board, pageVars, active, wanted, view>>

\* ... or out of it.
LeaveLoop(p) ==
    /\ ~Continues(p)
    /\ Goto(p, "top", "over")
    /\ Unless(p, [Blank EXCEPT !.error = "timed out"])
    /\ UNCHANGED <<board, pageVars, active, wanted>>

\* The server reads the job; the answer then travels, or is lost.
ServerAnswers(p) ==
    /\ \E answer \in {Answer(polls[p].id), "network error", "server error"} :
          Goto(p, "asking", answer)
    /\ UNCHANGED <<board, pageVars, active, wanted, view>>

ReceiveReport(p) ==
    /\ Goto(p, "report", "over")
    /\ Unless(p, [Blank EXCEPT !.report = polls[p].id])
    /\ UNCHANGED <<board, pageVars, active, wanted>>

\* Mutant: an analysis that is not ready is not found.
MutantReceiveNotFound(p) ==
    /\ \E answer \in {"unknown id", "not ready"} : Goto(p, answer, "over")
    /\ Unless(p, [Blank EXCEPT !.error = "not found"])
    /\ UNCHANGED <<board, pageVars, active, wanted>>

ReceiveNotFound(p) ==
    /\ Goto(p, "unknown id", "over")
    /\ Unless(p, [Blank EXCEPT !.error = "not found"])
    /\ UNCHANGED <<board, pageVars, active, wanted>>

Retries(p) ==
    \/ polls[p].at = "not ready"
    \/ polls[p].at = "network error" /\ polls[p].attempts < NetworkAttempts

ReceiveNotYet(p) ==
    /\ Retries(p)
    /\ Goto(p, polls[p].at, IF polls[p].cancelled THEN "over" ELSE "waiting")
    /\ UNCHANGED <<board, pageVars, active, wanted, view>>

ReceiveError(p) ==
    /\ ~Retries(p)
    /\ \E answer \in {"network error", "server error"} : Goto(p, answer, "over")
    /\ Unless(p, [Blank EXCEPT !.error = "failed to load"])
    /\ UNCHANGED <<board, pageVars, active, wanted>>

\* setTimeout(POLL_INTERVAL_MS)
TimerFires(p) ==
    /\ Goto(p, "waiting", "top")
    /\ UNCHANGED <<board, pageVars, active, wanted, view>>

PollStep(p) ==
    \/ Attempt(p) \/ LeaveLoop(p) \/ ServerAnswers(p) \/ ReceiveReport(p)
    \/ ReceiveNotFound(p) \/ ReceiveNotYet(p) \/ ReceiveError(p) \/ TimerFires(p)
-------------------------------------------------------------------------------
\* setActiveAnalysisId, after an upload or in the settings: the event is handled
\* before the call returns.
SetActive(id) ==
    /\ storage' = id /\ analysisId' = id
    /\ UNCHANGED <<board, notified, followed, polls, active, wanted, view>>

\* React runs the effect of the provider some time after the state changed: its
\* cleanup cancels, fetchReport starts.
RunEffect ==
    /\ analysisId # followed
    /\ followed' = analysisId
    /\ FetchReport(analysisId)
    /\ UNCHANGED <<board, storage, notified, analysisId>>

Reload ==
    /\ FetchReport(storage)
    /\ UNCHANGED <<board, pageVars>>

\* Mutant: clear does not cancel.
MutantClearAnalysis ==
    /\ storage' = None /\ analysisId' = None
    /\ view' = Blank
    /\ UNCHANGED <<board, notified, followed, polls, active, wanted>>

ClearAnalysis ==
    /\ storage' = None /\ analysisId' = None
    /\ polls' = CancelActive
    /\ view' = Blank
    /\ UNCHANGED <<board, notified, followed, active, wanted>>

\* Another tab uploads, or is opened (which removes the id, App.jsx:20-31).
OtherTabSets(id) ==
    /\ storage # id
    /\ storage' = id /\ notified' = TRUE
    /\ UNCHANGED <<board, analysisId, followed, polls, active, wanted, view>>

StorageEvent ==
    /\ notified
    /\ notified' = FALSE
    /\ analysisId' = storage
    /\ UNCHANGED <<board, storage, followed, polls, active, wanted, view>>

\* A step of the server, seen from here.
ServerMoves(A) == A /\ UNCHANGED <<pageVars, polls, active, wanted, view>>

PageInit ==
    /\ storage = None /\ notified = FALSE /\ analysisId = None /\ followed = None
    /\ polls = [p \in {} |-> None] /\ active = None /\ wanted = None
    /\ view = Blank

PollInit == Init /\ PageInit

PollNext ==
    \/ \E p \in DOMAIN polls : PollStep(p)
    \/ \E id \in Uploaded : SetActive(id)
    \/ \E id \in Uploaded \cup {None} : OtherTabSets(id)
    \/ StorageEvent \/ RunEffect \/ Reload \/ ClearAnalysis
    \/ ServerMoves(Forget)
    \/ \E id \in Ids : ServerMoves(Accept(id)) \/ ServerMoves(Work(id))

PollSpec == PollInit /\ [][PollNext]_vars

\* Every request is answered or fails, timers fire, React runs its effects.
PollFairness ==
    /\ WF_vars(RunEffect) /\ WF_vars(StorageEvent)
    /\ \A p \in 1 .. MaxFetches : WF_vars(p \in DOMAIN polls /\ PollStep(p))

FairPollSpec == PollSpec /\ PollFairness
-------------------------------------------------------------------------------
PollTypeOK ==
    /\ board \in [Ids -> Known \cup {"unused", "lost"}]
    /\ {storage, analysisId, followed, wanted} \subseteq Ids \cup {None}
    /\ notified \in BOOLEAN
    /\ DOMAIN polls = 1 .. Cardinality(DOMAIN polls)
    /\ Cardinality(DOMAIN polls) <= MaxFetches
    /\ \A p \in DOMAIN polls :
          polls[p] \in [id : Ids, cancelled : BOOLEAN, attempts : 0 .. MAX_ATTEMPTS,
                        at : Places]
    /\ active \in DOMAIN polls \cup {None}
    /\ view \in [report : Ids \cup {None}, loading : BOOLEAN, error : Errors \cup {None}]

Alive(p) == ~polls[p].cancelled /\ polls[p].at # "over"

\* The report on the page is the one of the latest fetchReport, whatever answers of
\* earlier calls come in after it started (AnalysisContext.jsx:53-74, 86, 94).
NoStaleReport == view.report # None => view.report = wanted

\* At most one polling loop is at work, the latest: an id change, a reload and a clear
\* each stop the one before.  The page shows that it loads just while there is one.
OnePollerAtWork ==
    /\ \A p \in DOMAIN polls : Alive(p) => p = active /\ polls[p].id = wanted
    /\ view.loading <=> \E p \in DOMAIN polls : Alive(p)

\* The page says an analysis is not there only when the server has lost it: an
\* answer about another id, or one from before the upload, never says so.
NotFoundIsTrue == view.error = "not found" => wanted # None /\ board[wanted] = "lost"

\* A page that shows an outcome keeps it until the next fetchReport or clear: a late
\* answer of any loop changes nothing.
OutcomeStays ==
    [][view' # view /\ ~view.loading => view' \in {Blank, Loading}]_vars

\* The page does not load for ever: the loop's attempts are bounded.
LoadingEnds == view.loading ~> ~view.loading
===============================================================================
