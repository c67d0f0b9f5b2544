------------------------------ MODULE AnalysisPage ------------------------------
(***************************************************************************)
(* One tab of the browser: the panel of CaptureConsole.jsx and the         *)
(* provider of AnalysisContext.jsx follow the same job, each on its own.   *)
(* They meet in the active id: an upload clears it and with it the         *)
(* provider's call, its answer sets it, and each answer that says          *)
(* completed sets it again, also one for a panel that has left the page.   *)
(***************************************************************************)
EXTENDS ReportPolling

CONSTANT Slots  \* bound: questions of the panel on their way at a time

VARIABLES posts, uploadResult, jobStatus, seen, interval, requests, told

Console == INSTANCE CaptureConsole

panelVars == <<posts, uploadResult, jobStatus, seen, interval, requests, told>>

\* A step of the panel that the provider does not see.
Alone(A) ==
    A /\ UNCHANGED <<storage, notified, analysisId, followed, polls, active, wanted, view>>

\* Mutant: the answer stores the id, but the provider's state is left alone.
MutantReceive(s) ==
    /\ Console!Receive(s)
    /\ UNCHANGED <<notified, analysisId, followed, polls, active, wanted, view>>

Receive(s) ==
    /\ Console!Receive(s)
    /\ IF requests[s].answer = "completed" THEN SetActive(requests[s].id) ELSE Alone(TRUE)

ConsoleStep ==
    \/ \E id \in Ids : Console!BeginUpload(id) /\ ClearAnalysis
    \/ Console!Reset /\ ClearAnalysis
    \/ \E p \in posts :
          \/ Console!UploadAnswered(p) /\ SetActive(p.id)
          \/ Alone(Console!UploadFails(p))
    \/ \E s \in Slots :
          \/ Alone(Console!Tick(s)) \/ Receive(s)
          \/ Alone(Console!ServerReads(s)) \/ Alone(Console!ServerFails(s))
    \/ Alone(Console!RunEffect) \/ Alone(Console!Leave)

ProviderStep ==
    /\ (\E p \in DOMAIN polls : PollStep(p)) \/ RunEffect \/ Reload
    /\ UNCHANGED panelVars

ServerStep ==
    /\ \/ ServerMoves(Forget)
       \/ \E p \in posts : ServerMoves(Accept(p.id))
       \/ \E id \in Ids : ServerMoves(Work(id))
    /\ UNCHANGED panelVars

AllInit == PollInit /\ Console!ConsoleInit

AllNext == ConsoleStep \/ ProviderStep \/ ServerStep

AllSpec == AllInit /\ [][AllNext]_<<vars, panelVars>>

\* Each part owes what it owes alone: no joint step waits for the other part.
FairAllSpec == AllSpec /\ PollFairness /\ Console!ConsoleFairness
-------------------------------------------------------------------------------
\* The end of an analysis reaches the panel that waits for it, whatever the provider does
\* with the same id meanwhile.
EndIsTold == Console!OutcomeIsTold

\* Provider and panel behave on this page as each does alone.  Whatever the panel does to
\* the active id is an upload's answer, a clear or nothing to the provider, and never leaves
\* the stored id and the state apart (CaptureConsole.jsx:57, 126-136;
\* AnalysisContext.jsx:158-170); the panel cannot tell a step of the provider from none,
\* whatever it has on its way, and the server accepts only what the panel sent.
PartsAreAsAlone == PollSpec /\ Console!ConsoleSpec
===============================================================================
