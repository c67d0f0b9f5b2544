-------------------------- MODULE ReportPollingProofs --------------------------
(***************************************************************************)
(* Proofs about ReportPolling for every set of analyses, every limit on    *)
(* attempts and every number of overlapping calls of fetchReport.  All     *)
(* rest on one fact: a call that is neither cancelled nor over is the      *)
(* latest one, it follows the wanted id, and the page is loading for it.   *)
(***************************************************************************)
EXTENDS AnalysisPage, FiniteSetTheorems, TLAPS

\* The calls of fetchReport and what the page shows, by their types.
Polls == [id : Ids, cancelled : BOOLEAN, attempts : 0 .. MAX_ATTEMPTS, at : Places]
Views == [report : Ids \cup {None}, loading : BOOLEAN, error : Errors \cup {None}]

BoardOK == board \in [Ids -> Known \cup {"unused", "lost"}]

PageOK ==
    /\ {storage, analysisId, followed, wanted} \subseteq Ids \cup {None}
    /\ notified \in BOOLEAN
    /\ view \in Views

PollsOK ==
    /\ polls \in [DOMAIN polls -> Polls]
    /\ active \in DOMAIN polls \cup {None}

\* Calls are numbered in the order they start, so that the next number is a new one.
Numbered == \E n \in 0 .. MaxFetches : DOMAIN polls = 1 .. n

\* Ids the page holds came from an upload.
IdsAreUploaded ==
    /\ {storage, analysisId} \subseteq Uploaded \cup {None}
    /\ \A p \in DOMAIN polls : polls[p].id \in Uploaded

\* While a call is at work the page shows nothing but that it loads.
AliveIsLoading == \A p \in DOMAIN polls : Alive(p) => view = Loading

\* An answer that says an analysis is unknown stays true.
UnknownIsLost ==
    \A p \in DOMAIN polls : polls[p].at = "unknown id" => board[polls[p].id] = "lost"

\* The invariant of the page of a report.
PollInv ==
    /\ BoardOK /\ PageOK /\ PollsOK /\ Numbered
    /\ IdsAreUploaded /\ AliveIsLoading /\ UnknownIsLost
    /\ OnePollerAtWork /\ NoStaleReport /\ NotFoundIsTrue
-------------------------------------------------------------------------------
\* The page opens with nothing asked for and nothing shown.
LEMMA InitPollInv == PollInit => PollInv
<1> SUFFICES ASSUME PollInit PROVE PollInv
  OBVIOUS
<1> USE PollingAssumption DEF PollInit, Init, PageInit
<1>1. BoardOK /\ PageOK /\ PollsOK
  BY DEF BoardOK, PageOK, PollsOK, Views, Blank
<1>2. IdsAreUploaded /\ AliveIsLoading /\ UnknownIsLost /\ OnePollerAtWork
  BY DEF IdsAreUploaded, AliveIsLoading, UnknownIsLost, OnePollerAtWork, Blank
<1>3. DOMAIN polls = 1 .. 0
  OBVIOUS
<1>4. Numbered
  BY <1>3 DEF Numbered
<1>5. NoStaleReport /\ NotFoundIsTrue
  BY DEF NoStaleReport, NotFoundIsTrue, Blank, Errors
<1> QED
  BY <1>1, <1>2, <1>4, <1>5 DEF PollInv

\* A step of a call moves that call alone, and it learns of a loss only from the server.
LEMMA PollMoves ==
    ASSUME PollInv, NEW p \in DOMAIN polls, PollStep(p)
    PROVE  /\ UNCHANGED <<board, pageVars, active, wanted>>
           /\ polls[p].at # "over"
           /\ DOMAIN polls' = DOMAIN polls
           /\ polls' \in [DOMAIN polls -> Polls]
           /\ \A q \in DOMAIN polls : q # p => polls'[q] = polls[q]
           /\ polls'[p].id = polls[p].id /\ polls'[p].cancelled = polls[p].cancelled
           /\ polls'[p].at = "unknown id" => board[polls[p].id] = "lost"
<1> USE DEF PollInv, PollsOK
<1>1. /\ UNCHANGED <<board, pageVars, active, wanted>>
      /\ polls[p].at # "over"
  BY DEF PollStep, Attempt, LeaveLoop, ServerAnswers, ReceiveReport, ReceiveNotFound,
         ReceiveNotYet, ReceiveError, TimerFires, Goto, Retries
<1>2. ASSUME NEW from \in Places, NEW to \in Places, Goto(p, from, to),
             to = "unknown id" => board[polls[p].id] = "lost"
      PROVE  /\ DOMAIN polls' = DOMAIN polls
             /\ polls' \in [DOMAIN polls -> Polls]
             /\ \A q \in DOMAIN polls : q # p => polls'[q] = polls[q]
             /\ polls'[p].id = polls[p].id /\ polls'[p].cancelled = polls[p].cancelled
             /\ polls'[p].at = "unknown id" => board[polls[p].id] = "lost"
  BY <1>2 DEF Goto, Polls
<1>3. CASE Attempt(p)
  <2>1. polls[p] \in Polls /\ polls[p].attempts + 1 \in 0 .. MAX_ATTEMPTS
    BY <1>3, PollingAssumption DEF Attempt, Continues, Polls
  <2>2. /\ DOMAIN polls' = DOMAIN polls
        /\ polls' = [q \in DOMAIN polls |-> polls'[q]]
        /\ \A q \in DOMAIN polls : q # p => polls'[q] = polls[q]
    BY <1>3 DEF Attempt
  <2>3. polls'[p] = [id |-> polls[p].id, cancelled |-> polls[p].cancelled,
                     attempts |-> polls[p].attempts + 1, at |-> "asking"]
    BY <1>3, <2>1 DEF Attempt, Polls
  <2>4. polls'[p] \in Polls
    BY <2>1, <2>3 DEF Polls, Places
  <2> QED
    BY <1>1, <2>2, <2>3, <2>4
<1>4. CASE ServerAnswers(p)
  <2>1. PICK answer \in {Answer(polls[p].id), "network error", "server error"} :
           Goto(p, "asking", answer)
    BY <1>4 DEF ServerAnswers
  <2>2. /\ polls[p].id \in Ids /\ board[polls[p].id] # "unused"
        /\ board[polls[p].id] \in Known \cup {"unused", "lost"}
    BY DEF IdsAreUploaded, Uploaded, BoardOK, Polls
  <2>3. answer \in Places /\ (answer = "unknown id" => board[polls[p].id] = "lost")
    BY <2>1, <2>2 DEF Answer, Places, Answers, Known
  <2> QED
    BY <1>1, <1>2, <2>1, <2>3 DEF Places
<1>5. CASE LeaveLoop(p) \/ ReceiveReport(p) \/ ReceiveNotFound(p)
  BY <1>1, <1>2, <1>5 DEF LeaveLoop, ReceiveReport, ReceiveNotFound, Places, Answers
<1>6. CASE ReceiveNotYet(p) \/ ReceiveError(p) \/ TimerFires(p)
  <2>1. PICK from \in Places, to \in {"over", "waiting", "top"} : Goto(p, from, to)
    BY <1>6 DEF ReceiveNotYet, ReceiveError, TimerFires, Retries, Places, Answers
  <2> QED
    BY <1>1, <1>2, <2>1 DEF Places
<1> QED
  BY <1>1, <1>3, <1>4, <1>5, <1>6 DEF PollStep

\* A call shows something only at its end, when it is not cancelled, and then it always
\* does; what it shows is the report it asked for or an error.
LEMMA PollShows ==
    ASSUME PollInv, NEW p \in DOMAIN polls, PollStep(p)
    PROVE  \/ view' = view /\ (polls'[p].at = "over" => polls[p].cancelled)
           \/ /\ ~polls[p].cancelled /\ polls'[p].at = "over"
              /\ view' \in Views /\ ~view'.loading
              /\ view'.report \in {polls[p].id, None}
              /\ view'.error = "not found" => polls[p].at = "unknown id"
<1> USE DEF PollInv, PollsOK, Goto, Polls, Unless, Blank, Views, Errors
<1>1. CASE Attempt(p)
  BY <1>1 DEF Attempt
<1>2. CASE ServerAnswers(p)
  BY <1>2 DEF ServerAnswers, Answer
<1>3. CASE ReceiveNotYet(p) \/ TimerFires(p)
  BY <1>3 DEF ReceiveNotYet, TimerFires
<1>4. CASE LeaveLoop(p) \/ ReceiveError(p)
  BY <1>4, PollingAssumption DEF LeaveLoop, ReceiveError
<1>5. CASE ReceiveReport(p)
  BY <1>5, PollingAssumption DEF ReceiveReport
<1>6. CASE ReceiveNotFound(p)
  BY <1>6, PollingAssumption DEF ReceiveNotFound
<1> QED
  BY <1>1, <1>2, <1>3, <1>4, <1>5, <1>6 DEF PollStep

\* The step of any call keeps the invariant; only a page that loads changes by it.
LEMMA PollPreserves ==
    ASSUME PollInv, NEW p \in DOMAIN polls, PollStep(p)
    PROVE  PollInv' /\ (view' # view => view.loading)
<1> USE DEF PollInv
<1>a. /\ UNCHANGED <<board, pageVars, active, wanted>>
      /\ polls[p].at # "over"
      /\ DOMAIN polls' = DOMAIN polls
      /\ polls' \in [DOMAIN polls -> Polls]
      /\ \A q \in DOMAIN polls : q # p => polls'[q] = polls[q]
      /\ polls'[p].id = polls[p].id /\ polls'[p].cancelled = polls[p].cancelled
      /\ polls'[p].at = "unknown id" => board[polls[p].id] = "lost"
  BY PollMoves
<1>b. \/ view' = view /\ (polls'[p].at = "over" => polls[p].cancelled)
      \/ /\ ~polls[p].cancelled /\ polls'[p].at = "over"
         /\ view' \in Views /\ ~view'.loading
         /\ view'.report \in {polls[p].id, None}
         /\ view'.error = "not found" => polls[p].at = "unknown id"
  BY PollShows
<1>1. ~polls[p].cancelled => p = active /\ polls[p].id = wanted /\ view = Loading
  BY <1>a DEF OnePollerAtWork, AliveIsLoading, Alive
<1>2. BoardOK' /\ PageOK' /\ PollsOK' /\ Numbered'
  <2>1. BoardOK' /\ PollsOK' /\ Numbered'
    BY <1>a DEF BoardOK, PollsOK, Numbered
  <2>2. view' \in Views
    BY <1>b DEF PageOK
  <2>3. PageOK'
    BY <1>a, <2>2 DEF PageOK, pageVars
  <2> QED BY <2>1, <2>3
<1>3. IdsAreUploaded'
  BY <1>a DEF IdsAreUploaded, Uploaded, pageVars
<1>4. UnknownIsLost'
  BY <1>a DEF UnknownIsLost
<1>5. OnePollerAtWork'
  <2>1. \A q \in DOMAIN polls :
           Alive(q)' <=> Alive(q) /\ (q = p => polls'[p].at # "over")
    BY <1>a DEF Alive
  <2>2. \A q \in DOMAIN polls : Alive(q)' => q = active' /\ polls'[q].id = wanted'
    BY <1>a, <2>1 DEF OnePollerAtWork
  <2>3. CASE view' = view /\ (polls'[p].at = "over" => polls[p].cancelled)
    <3>1. \A q \in DOMAIN polls : Alive(q)' <=> Alive(q)
      BY <2>1, <2>3 DEF Alive
    <3> QED BY <1>a, <2>2, <2>3, <3>1 DEF OnePollerAtWork
  <2>4. CASE ~polls[p].cancelled /\ polls'[p].at = "over" /\ ~view'.loading
    <3>1. \A q \in DOMAIN polls : ~Alive(q)'
      BY <1>1, <2>1, <2>4 DEF OnePollerAtWork
    <3> QED BY <1>a, <2>2, <2>4, <3>1 DEF OnePollerAtWork
  <2> QED BY <1>b, <2>3, <2>4
<1>6. AliveIsLoading'
  BY <1>a, <1>b, <1>1 DEF AliveIsLoading, Alive, OnePollerAtWork
<1>7. NoStaleReport'
  BY <1>a, <1>b, <1>1 DEF NoStaleReport
<1>8. NotFoundIsTrue'
  <2>1. polls[p].id \in Ids
    BY DEF PollsOK, Polls
  <2> QED BY <1>a, <1>b, <1>1, <2>1, PollingAssumption DEF NotFoundIsTrue, UnknownIsLost
<1>9. view' # view => view.loading
  BY <1>a, <1>b, <1>1 DEF Loading, Blank
<1> QED
  BY <1>2, <1>3, <1>4, <1>5, <1>6, <1>7, <1>8, <1>9

\* The call of fetchReport that was active is cancelled, so that none is at work.
LEMMA CancelStops ==
    ASSUME PollInv
    PROVE  /\ DOMAIN CancelActive = DOMAIN polls
           /\ CancelActive \in [DOMAIN polls -> Polls]
           /\ \A p \in DOMAIN polls :
                 /\ CancelActive[p].id = polls[p].id /\ CancelActive[p].at = polls[p].at
                 /\ CancelActive[p].cancelled \/ CancelActive[p].at = "over"
<1> USE DEF PollInv, PollsOK, Polls
<1>1. \A p \in DOMAIN polls : polls[p].cancelled \/ polls[p].at = "over" \/ p = active
  BY DEF OnePollerAtWork, Alive
<1>2. CASE active = None
  <2>1. \A p \in DOMAIN polls : p # None
    BY PollingAssumption DEF Numbered
  <2> QED BY <1>1, <1>2, <2>1 DEF CancelActive
<1>3. CASE active # None
  <2>1. CancelActive = [polls EXCEPT ![active].cancelled = TRUE] /\ active \in DOMAIN polls
    BY <1>3 DEF CancelActive
  <2> QED BY <1>1, <2>1
<1> QED BY <1>2, <1>3

\* A page that was cleared, or asks for no analysis, shows nothing and no call is at work.
LEMMA CancelPreserves ==
    ASSUME PollInv, polls' = CancelActive, view' = Blank, UNCHANGED <<board, active, notified>>,
           {storage', analysisId', wanted', followed'} \subseteq
               {storage, analysisId, wanted, followed, None},
           {storage', analysisId'} \subseteq {storage, analysisId, None}
    PROVE  PollInv'
<1> USE DEF PollInv
<1>1. /\ DOMAIN polls' = DOMAIN polls
      /\ polls' \in [DOMAIN polls -> Polls]
      /\ \A p \in DOMAIN polls :
            /\ polls'[p].id = polls[p].id /\ polls'[p].at = polls[p].at
            /\ polls'[p].cancelled \/ polls'[p].at = "over"
  BY CancelStops
<1>2. BoardOK' /\ PollsOK' /\ Numbered'
  BY <1>1 DEF BoardOK, PollsOK, Numbered
<1>3. PageOK'
  BY DEF PageOK, Views, Blank
<1>4. IdsAreUploaded' /\ UnknownIsLost'
  BY <1>1 DEF IdsAreUploaded, UnknownIsLost, Uploaded
<1>5. OnePollerAtWork' /\ AliveIsLoading'
  BY <1>1 DEF OnePollerAtWork, AliveIsLoading, Alive, Blank
<1>6. NoStaleReport' /\ NotFoundIsTrue'
  BY PollingAssumption DEF NoStaleReport, NotFoundIsTrue, Blank, Errors
<1> QED BY <1>2, <1>3, <1>4, <1>5, <1>6

\* A call of fetchReport cancels the one before, blanks the page and, for an id, starts
\* the only call that is then at work.
LEMMA FetchPreserves ==
    ASSUME PollInv, NEW id \in Uploaded \cup {None}, FetchReport(id),
           UNCHANGED <<board, storage, notified, analysisId>>,
           followed' \in {followed, analysisId}
    PROVE  PollInv' /\ view' \in {Blank, Loading}
<1> USE DEF PollInv
<1>1. CASE id = None
  <2>1. polls' = CancelActive /\ view' = Blank /\ active' = active /\ wanted' = None
    BY <1>1 DEF FetchReport
  <2>2. /\ {storage', analysisId', wanted', followed'} \subseteq
               {storage, analysisId, wanted, followed, None}
        /\ {storage', analysisId'} \subseteq {storage, analysisId, None}
    BY <2>1
  <2>3. PollInv'
    BY <2>1, <2>2, CancelPreserves
  <2> QED BY <2>1, <2>3
<1>2. CASE id # None
  <2>1. PICK m \in 0 .. MaxFetches : DOMAIN polls = 1 .. m
    BY DEF Numbered
  <2>2. Cardinality(DOMAIN polls) = m
    BY <2>1, FS_Interval, PollingAssumption
  <2> DEFINE new == [id |-> id, cancelled |-> FALSE, attempts |-> 0, at |-> "top"]
  <2>3. /\ polls' = [p \in 1 .. m + 1 |-> IF p < m + 1 THEN CancelActive[p] ELSE new]
        /\ active' = m + 1 /\ view' = Loading /\ wanted' = id /\ m + 1 <= MaxFetches
    BY <1>2, <2>2 DEF FetchReport
  <2>4. new \in Polls /\ id \in Uploaded
    BY <1>2, PollingAssumption DEF Polls, Places, Uploaded
  <2>5. /\ DOMAIN polls' = 1 .. m + 1
        /\ polls'[m + 1] = new
        /\ \A p \in 1 .. m : polls'[p] = CancelActive[p]
        /\ \A p \in 1 .. m + 1 : p = m + 1 \/ p \in 1 .. m
        /\ m + 1 \in 0 .. MaxFetches /\ m + 1 \in 1 .. m + 1
    BY <2>1, <2>3, PollingAssumption
  <2>6. new.id = id /\ new.at = "top" /\ ~new.cancelled
    OBVIOUS
  <2> HIDE DEF new
  <2>7. /\ \A p \in 1 .. m :
              /\ polls'[p] \in Polls
              /\ polls'[p].id = polls[p].id /\ polls'[p].at = polls[p].at
              /\ polls'[p].cancelled \/ polls'[p].at = "over"
    BY <2>1, <2>5, CancelStops
  <2>8. BoardOK' /\ PollsOK' /\ Numbered'
    <3>1. \A p \in 1 .. m + 1 : polls'[p] \in Polls
      BY <2>4, <2>5, <2>7
    <3>2. polls' \in [DOMAIN polls' -> Polls]
      BY <2>3, <2>5, <3>1
    <3> QED BY <2>3, <2>5, <3>2 DEF BoardOK, PollsOK, Numbered
  <2>9. PageOK'
    BY <2>3, <2>4 DEF PageOK, Views, Loading, Blank, Uploaded
  <2>10. IdsAreUploaded' /\ UnknownIsLost'
    <3>1. Uploaded' = Uploaded
      BY DEF Uploaded
    <3>2. \A p \in 1 .. m + 1 : polls'[p].id \in Uploaded
      BY <2>1, <2>4, <2>5, <2>6, <2>7 DEF IdsAreUploaded
    <3>3. \A p \in 1 .. m + 1 : polls'[p].at = "unknown id" => board[polls'[p].id] = "lost"
      BY <2>1, <2>5, <2>6, <2>7 DEF UnknownIsLost
    <3> QED BY <2>5, <3>1, <3>2, <3>3 DEF IdsAreUploaded, UnknownIsLost
  <2>11. OnePollerAtWork' /\ AliveIsLoading'
    <3>1. \A p \in 1 .. m + 1 : Alive(p)' <=> p = m + 1
      BY <2>5, <2>6, <2>7 DEF Alive
    <3>2. view'.loading
      BY <2>3 DEF Loading, Blank
    <3> QED BY <2>3, <2>5, <2>6, <3>1, <3>2 DEF AliveIsLoading, OnePollerAtWork
  <2>12. NoStaleReport' /\ NotFoundIsTrue'
    BY <2>3, PollingAssumption DEF NoStaleReport, NotFoundIsTrue, Loading, Blank, Errors
  <2> QED BY <2>3, <2>8, <2>9, <2>10, <2>11, <2>12
<1> QED BY <1>1, <1>2

\* What the server does to a job never takes back an upload or a loss.
LEMMA ServerKeeps ==
    ASSUME PollInv,
           Forget \/ \E i \in Ids : Accept(i) \/ Work(i)
    PROVE  /\ BoardOK'
           /\ \A i \in Ids : /\ board[i] # "unused" => board'[i] # "unused"
                             /\ board[i] = "lost" => board'[i] = "lost"
<1> USE DEF PollInv, BoardOK, Known
<1>1. CASE Forget
  BY <1>1 DEF Forget
<1>2. ASSUME NEW i \in Ids, Accept(i) \/ Work(i)
      PROVE  /\ BoardOK'
             /\ \A j \in Ids : /\ board[j] # "unused" => board'[j] # "unused"
                               /\ board[j] = "lost" => board'[j] = "lost"
  BY <1>2 DEF Accept, Work, Start, Complete, Fail
<1> QED BY <1>1, <1>2

\* The server's moves leave the page as it is, and what it holds true.
LEMMA ServerPreserves ==
    ASSUME PollInv, Forget \/ \E i \in Ids : Accept(i) \/ Work(i),
           UNCHANGED <<pageVars, polls, active, wanted, view>>
    PROVE  PollInv'
<1> USE ServerKeeps DEF PollInv
<1>1. BoardOK' /\ PageOK' /\ PollsOK' /\ Numbered'
  BY DEF PageOK, PollsOK, Numbered, pageVars
<1>2. IdsAreUploaded'
  BY DEF IdsAreUploaded, Uploaded, pageVars
<1>3. UnknownIsLost'
  BY DEF UnknownIsLost, IdsAreUploaded, Uploaded
<1>4. OnePollerAtWork' /\ AliveIsLoading' /\ NoStaleReport'
  BY DEF OnePollerAtWork, AliveIsLoading, Alive, NoStaleReport
<1>5. NotFoundIsTrue'
  BY PollingAssumption DEF NotFoundIsTrue, PageOK
<1> QED BY <1>1, <1>2, <1>3, <1>4, <1>5

\* The steps that change the ids of the page alone.
LEMMA IdsPreserve ==
    ASSUME PollInv, UNCHANGED <<board, followed, polls, active, wanted, view>>,
           {storage', analysisId'} \subseteq Uploaded \cup {None}, notified' \in BOOLEAN
    PROVE  PollInv'
<1> USE DEF PollInv
<1>1. BoardOK' /\ PageOK' /\ PollsOK' /\ Numbered'
  BY DEF BoardOK, PageOK, PollsOK, Numbered, Uploaded
<1>2. IdsAreUploaded' /\ UnknownIsLost'
  BY DEF IdsAreUploaded, UnknownIsLost, Uploaded
<1>3. OnePollerAtWork' /\ AliveIsLoading' /\ NoStaleReport' /\ NotFoundIsTrue'
  BY DEF OnePollerAtWork, AliveIsLoading, Alive, NoStaleReport, NotFoundIsTrue
<1> QED BY <1>1, <1>2, <1>3

\* Every step keeps the invariant, and changes a page that does not load only to a
\* blank or a loading one.
LEMMA NextPollInv ==
    ASSUME PollInv, PollNext
    PROVE  PollInv' /\ (view' # view /\ ~view.loading => view' \in {Blank, Loading})
<1> USE DEF PollInv
<1>1. CASE \E p \in DOMAIN polls : PollStep(p)
  BY <1>1, PollPreserves
<1>2. CASE \E id \in Uploaded : SetActive(id)
  BY <1>2, IdsPreserve DEF SetActive, PageOK
<1>3. CASE \E id \in Uploaded \cup {None} : OtherTabSets(id)
  BY <1>3, IdsPreserve DEF OtherTabSets, IdsAreUploaded
<1>4. CASE StorageEvent
  BY <1>4, IdsPreserve DEF StorageEvent, IdsAreUploaded
<1>5. CASE RunEffect
  BY <1>5, FetchPreserves DEF RunEffect, IdsAreUploaded
<1>6. CASE Reload
  BY <1>6, FetchPreserves DEF Reload, IdsAreUploaded, pageVars
<1>7. CASE ClearAnalysis
  BY <1>7, CancelPreserves DEF ClearAnalysis
<1>8. CASE ServerMoves(Forget) \/ \E id \in Ids : ServerMoves(Accept(id)) \/ ServerMoves(Work(id))
  BY <1>8, ServerPreserves DEF ServerMoves
<1> QED BY <1>1, <1>2, <1>3, <1>4, <1>5, <1>6, <1>7, <1>8 DEF PollNext
-------------------------------------------------------------------------------
\* And so does a step that changes nothing.
LEMMA PollStays == ASSUME PollInv, [PollNext]_vars PROVE PollInv'
<1>1. CASE UNCHANGED vars
  BY <1>1 DEF vars, pageVars, PollInv, BoardOK, PageOK, PollsOK, Numbered, IdsAreUploaded,
         Uploaded, AliveIsLoading, UnknownIsLost, OnePollerAtWork, Alive, NoStaleReport,
         NotFoundIsTrue
<1> QED BY <1>1, NextPollInv

\* However calls, answers, timers, events of other tabs and losses of the server
\* interleave, a loop that is not cancelled is the latest and the page waits for it.
THEOREM PollingInvariance == PollSpec => []PollInv
<1>1. PollInv /\ [PollNext]_vars => PollInv'
  BY PollStays
<1> QED BY <1>1, InitPollInv, PTL DEF PollSpec

\* The state of the page and of all its loops has its types; no loop makes more
\* requests than it may.
THEOREM PollTypes == PollSpec => []PollTypeOK
<1>1. ASSUME PollInv PROVE PollTypeOK
  <2> USE <1>1 DEF PollInv
  <2>1. PICK n \in 0 .. MaxFetches : DOMAIN polls = 1 .. n
    BY DEF Numbered
  <2>2. Cardinality(DOMAIN polls) = n /\ n <= MaxFetches
    BY <2>1, FS_Interval, PollingAssumption
  <2> QED BY <2>1, <2>2 DEF PollTypeOK, BoardOK, PageOK, PollsOK, Polls, Views
<1> QED BY <1>1, PollingInvariance, PTL

\* No answer of an earlier call ever puts a report on the page that is not the wanted one.
THEOREM NeverStale == PollSpec => []NoStaleReport
<1>1. PollInv => NoStaleReport
  BY DEF PollInv
<1> QED BY <1>1, PollingInvariance, PTL

\* At most one polling loop is at work, the latest, and the page says so.
THEOREM OnePoller == PollSpec => []OnePollerAtWork
<1>1. PollInv => OnePollerAtWork
  BY DEF PollInv
<1> QED BY <1>1, PollingInvariance, PTL

\* A page that says an analysis is not found tells the truth about the wanted one.
THEOREM NotFoundTrue == PollSpec => []NotFoundIsTrue
<1>1. PollInv => NotFoundIsTrue
  BY DEF PollInv
<1> QED BY <1>1, PollingInvariance, PTL

\* An outcome stays on the page until the next fetchReport or clear.
THEOREM OutcomeKept == PollSpec => OutcomeStays
<1>1. PollInv /\ [PollNext]_vars =>
         [view' # view /\ ~view.loading => view' \in {Blank, Loading}]_vars
  BY NextPollInv DEF vars
<1> QED BY <1>1, PollingInvariance, PTL DEF PollSpec, OutcomeStays
-------------------------------------------------------------------------------
\* The page as a whole: the panel beside the provider.

\* The calls of AnalysisPage, each with its question on the way.
Questions == [id : Uploaded, here : BOOLEAN, own : BOOLEAN, answer : Known \cup {None, "error"}]

\* Uploads on their way are of analyses there can be, and what the panel follows or asks
\* about was accepted.
PanelInv ==
    /\ posts \subseteq [id : Ids, here : BOOLEAN]
    /\ {uploadResult, interval} \subseteq Uploaded \cup {None}
    /\ \A s \in Slots :
          requests[s] = None \/ requests[s] \in Questions

\* What was accepted stays so, whoever moves.
LEMMA UploadedStays ==
    ASSUME BoardOK, ConsoleStep \/ ProviderStep \/ ServerStep
    PROVE  \A i \in Uploaded : i \in Uploaded'
<1>1. CASE ConsoleStep
  <2>1. UNCHANGED board
    BY <1>1 DEF ConsoleStep, Alone, Receive, ClearAnalysis, SetActive,
        Console!UploadFails, Console!Tick, Console!Receive, Console!ServerReads,
        Console!ServerFails, Console!Reads, Console!RunEffect, Console!Leave
  <2> QED BY <2>1 DEF Uploaded
<1>2. CASE ProviderStep
  <2>1. UNCHANGED board
    BY <1>2 DEF ProviderStep, PollStep, Attempt, LeaveLoop, ServerAnswers, ReceiveReport,
        ReceiveNotFound, ReceiveNotYet, ReceiveError, TimerFires, RunEffect, Reload
  <2> QED BY <2>1 DEF Uploaded
<1>3. CASE ServerStep
  <2>1. Forget \/ (\E i : Accept(i)) \/ \E i \in Ids : Work(i)
    BY <1>3 DEF ServerStep, ServerMoves
  <2> QED BY <2>1 DEF BoardOK, Uploaded, Forget, Accept, Work, Start, Complete, Fail, Known
<1> QED BY <1>1, <1>2, <1>3

\* The panel's own steps keep what it holds accepted; in the answers to its questions
\* the id is that of the question.
LEMMA PanelKeeps ==
    ASSUME PanelInv, ConsoleStep PROVE PanelInv'
<1> USE DEF PanelInv
<1>1. Uploaded' = Uploaded /\ Questions' = Questions
  BY DEF Questions, ConsoleStep, Alone, Receive, ClearAnalysis, SetActive, Uploaded,
        Console!UploadFails, Console!Tick, Console!Receive, Console!ServerReads,
        Console!ServerFails, Console!Reads, Console!RunEffect, Console!Leave
<1>2. ASSUME NEW id \in Ids, Console!BeginUpload(id) PROVE PanelInv'
  <2>1. posts' \subseteq [id : Ids, here : BOOLEAN]
    <3>1. posts' = posts \cup {[id |-> id, here |-> TRUE]}
      BY <1>2 DEF Console!BeginUpload
    <3>2. [id |-> id, here |-> TRUE] \in [id : Ids, here : BOOLEAN]
      OBVIOUS
    <3> QED BY <3>1, <3>2
  <2>2. UNCHANGED <<uploadResult, interval, requests>>
    BY <1>2 DEF Console!BeginUpload
  <2> QED BY <1>1, <2>1, <2>2
<1>3. ASSUME Console!Reset PROVE PanelInv'
  BY <1>1, <1>3 DEF Console!Reset
<1>4. ASSUME NEW p \in posts, Console!UploadAnswered(p) PROVE PanelInv'
  <2>1. p.id \in Uploaded
    BY <1>4 DEF Console!UploadAnswered, Uploaded
  <2> QED BY <1>1, <1>4, <2>1 DEF Console!UploadAnswered
<1>5. ASSUME NEW p \in posts, Console!UploadFails(p) PROVE PanelInv'
  BY <1>1, <1>5 DEF Console!UploadFails, Console!panel
<1>6. ASSUME NEW s \in Slots, Console!Tick(s) PROVE PanelInv'
  <2>1. [id |-> interval, here |-> TRUE, own |-> TRUE, answer |-> None] \in Questions
    BY <1>6 DEF Console!Tick, Questions
  <2> QED BY <1>1, <1>6, <2>1 DEF Console!Tick, Console!panel
<1>7. ASSUME NEW s \in Slots, Console!Receive(s) PROVE PanelInv'
  BY <1>1, <1>7 DEF Console!Receive, Console!panel
<1>8. ASSUME NEW s \in Slots, NEW answers \in SUBSET (Known \cup {"error"}),
             Console!Reads(s, answers)
      PROVE  PanelInv'
  <2>1. \A answer \in answers : [requests[s] EXCEPT !.answer = answer] \in Questions
    BY <1>8 DEF Console!Reads, Questions
  <2> QED BY <1>1, <1>8, <2>1 DEF Console!Reads, Console!panel
<1>9. ASSUME Console!RunEffect PROVE PanelInv'
  <2>1. interval' \in Uploaded \cup {None} /\ uploadResult' \in Uploaded \cup {None}
    BY <1>9 DEF Console!RunEffect, Console!Followed
  <2>2. \A s \in Slots : requests'[s] = None \/ requests'[s] \in Questions
    BY <1>9 DEF Questions, Console!RunEffect, Console!Abandoned
  <2> QED BY <1>1, <1>9, <2>1, <2>2 DEF Console!RunEffect
<1>10. ASSUME Console!Leave PROVE PanelInv'
  <2>1. posts' \subseteq [id : Ids, here : BOOLEAN]
    BY <1>10 DEF Console!Leave
  <2>2. \A s \in Slots : requests'[s] = None \/ requests'[s] \in Questions
    BY <1>10 DEF Console!Leave, Questions
  <2> QED BY <1>1, <1>10, <2>1, <2>2 DEF Console!Leave
<1>11. CASE \E id \in Ids : Console!BeginUpload(id) /\ ClearAnalysis
  BY <1>2, <1>11
<1>12. CASE \E p \in posts : \/ Console!UploadAnswered(p) /\ SetActive(p.id)
                            \/ Alone(Console!UploadFails(p))
  BY <1>4, <1>5, <1>12 DEF Alone
<1>13. CASE \E s \in Slots : Alone(Console!Tick(s)) \/ Receive(s)
  BY <1>6, <1>7, <1>13 DEF Alone, Receive
<1>14. CASE \E s \in Slots : Alone(Console!ServerReads(s)) \/ Alone(Console!ServerFails(s))
  <2>1. PICK s \in Slots : Console!Reads(s, Console!Known \cap {board[requests[s].id]})
                              \/ Console!Reads(s, {"error"})
    BY <1>14 DEF Alone, Console!ServerReads, Console!ServerFails
  <2>2. /\ Console!Known \cap {board[requests[s].id]} \in SUBSET (Known \cup {"error"})
        /\ {"error"} \in SUBSET (Known \cup {"error"})
    BY DEF Known, Console!Known
  <2>3. CASE Console!Reads(s, {"error"})
    BY <1>8, <2>2, <2>3
  <2>4. CASE Console!Reads(s, Console!Known \cap {board[requests[s].id]})
    BY <1>8, <2>2, <2>4
  <2> QED BY <2>1, <2>3, <2>4
<1> QED
  BY <1>3, <1>9, <1>10, <1>11, <1>12, <1>13, <1>14 DEF ConsoleStep, Alone

\* To the provider a step of the panel is the setting of an active id, always one that was
\* uploaded, a clear, or nothing.
LEMMA PanelSteps ==
    ASSUME PanelInv, ConsoleStep PROVE [PollNext]_vars
<1>1. ASSUME NEW A, Alone(A), UNCHANGED board PROVE UNCHANGED vars
  BY <1>1 DEF Alone, vars, pageVars
<1>2. ASSUME NEW s \in Slots, Receive(s) PROVE [PollNext]_vars
  <2>1. CASE requests[s].answer = "completed"
    <3>1. requests[s].id \in Uploaded
      BY <1>2 DEF PanelInv, Questions, Receive, Console!Receive
    <3> QED BY <1>2, <2>1, <3>1 DEF Receive, PollNext
  <2>2. CASE requests[s].answer # "completed"
    BY <1>2, <2>2, <1>1 DEF Receive, Console!Receive
  <2> QED BY <2>1, <2>2
<1>3. ASSUME NEW p \in posts, Console!UploadAnswered(p), SetActive(p.id) PROVE [PollNext]_vars
  <2>1. p.id \in Uploaded
    BY <1>3 DEF PanelInv, Console!UploadAnswered, Uploaded
  <2> QED BY <1>3, <2>1 DEF PollNext
<1>4. CASE ClearAnalysis
  BY <1>4 DEF PollNext
<1>5. CASE \E p \in posts : Alone(Console!UploadFails(p))
  BY <1>5 DEF Alone, Console!UploadFails, vars, pageVars
<1>6. CASE \E s \in Slots : \/ Alone(Console!Tick(s))
                           \/ Alone(Console!ServerReads(s)) \/ Alone(Console!ServerFails(s))
  BY <1>6 DEF Alone, Console!Tick, Console!ServerReads, Console!ServerFails, Console!Reads,
              vars, pageVars
<1>7. CASE Alone(Console!RunEffect) \/ Alone(Console!Leave)
  BY <1>7 DEF Alone, Console!RunEffect, Console!Leave, vars, pageVars
<1> QED BY <1>2, <1>3, <1>4, <1>5, <1>6, <1>7 DEF ConsoleStep

\* Every step of the page is one of the provider, or nothing to it.
LEMMA ProviderSteps ==
    ASSUME PanelInv, AllNext PROVE [PollNext]_vars
<1>1. CASE ConsoleStep
  BY <1>1, PanelSteps
<1>2. CASE ProviderStep
  BY <1>2 DEF ProviderStep, PollNext
<1>3. CASE ServerStep
  <2>1. CASE \E p \in posts : ServerMoves(Accept(p.id))
    <3>1. \A p \in posts : p.id \in Ids
      BY DEF PanelInv
    <3> QED BY <2>1, <3>1 DEF PollNext
  <2> QED BY <1>3, <2>1 DEF ServerStep, PollNext
<1> QED BY <1>1, <1>2, <1>3 DEF AllNext

\* What the provider and the server do leaves the panel with accepted ids.
LEMMA PanelStays ==
    ASSUME PanelInv, BoardOK, AllNext PROVE PanelInv'
<1>1. CASE ConsoleStep
  BY <1>1, PanelKeeps
<1>2. CASE ProviderStep \/ ServerStep
  <2>1. UNCHANGED panelVars
    BY <1>2 DEF ProviderStep, ServerStep
  <2>2. \A i \in Uploaded : i \in Uploaded'
    BY <1>2, UploadedStays
  <2>3. \A q \in Questions : q \in Questions'
    BY <2>2 DEF Questions
  <2> QED BY <2>1, <2>2, <2>3 DEF PanelInv, panelVars
<1> QED BY <1>1, <1>2 DEF AllNext

\* Panel and provider together keep both invariants.
THEOREM PageInvariance == AllSpec => [](PollInv /\ PanelInv)
<1>1. AllInit => PollInv /\ PanelInv
  BY InitPollInv DEF AllInit, Console!ConsoleInit, PanelInv
<1>2. PollInv /\ PanelInv /\ AllNext => PollInv' /\ PanelInv'
  <2> SUFFICES ASSUME PollInv, PanelInv, AllNext PROVE PollInv' /\ PanelInv'
    OBVIOUS
  <2>1. PanelInv'
    BY PanelStays DEF PollInv
  <2>2. [PollNext]_vars
    BY ProviderSteps
  <2>3. PollInv'
    BY <2>2, PollStays
  <2> QED BY <2>1, <2>3
<1>3. PollInv /\ PanelInv /\ UNCHANGED <<vars, panelVars>> => PollInv' /\ PanelInv'
  <2> SUFFICES ASSUME PollInv, PanelInv, UNCHANGED <<vars, panelVars>>
               PROVE  PollInv' /\ PanelInv'
    OBVIOUS
  <2>1. PollInv'
    BY PollStays
  <2>2. PanelInv'
    BY DEF PanelInv, Questions, Uploaded, vars, panelVars
  <2> QED BY <2>1, <2>2
<1>4. PollInv /\ PanelInv /\ [AllNext]_<<vars, panelVars>> => PollInv' /\ PanelInv'
  BY <1>2, <1>3
<1> QED BY <1>1, <1>4, PTL DEF AllSpec

\* The page implements its provider: whatever the panel has on its way, the provider
\* sees only uploads' ids, clears and the server, so that all that is proved of it alone
\* holds on the page.
THEOREM PageImplementsProvider == AllSpec => PollSpec
<1>1. AllInit => PollInit
  BY DEF AllInit
<1>2. PanelInv /\ [AllNext]_<<vars, panelVars>> => [PollNext]_vars
  BY ProviderSteps
<1> QED BY <1>1, <1>2, PageInvariance, PTL DEF AllSpec, PollSpec

\* So no late answer of the panel's or the provider's makes the page show a stale report,
\* poll twice, say falsely that an analysis is not found, or change an outcome it shows.
THEOREM PageIsSafe ==
    AllSpec => [](NoStaleReport /\ OnePollerAtWork /\ NotFoundIsTrue) /\ OutcomeStays
<1>1. AllSpec => PollSpec
  BY PageImplementsProvider
<1> QED BY <1>1, NeverStale, OnePoller, NotFoundTrue, OutcomeKept, PTL

\* The page implements its panel: the provider leaves the panel and the stored id alone,
\* and the server accepts nothing but the panel's uploads.
THEOREM PageImplementsPanel == AllSpec => Console!ConsoleSpec
<1>1. AllInit => Console!ConsoleInit
  BY DEF AllInit
<1>2. AllNext => [Console!ConsoleNext]_(Console!vars)
  <2> SUFFICES ASSUME AllNext PROVE [Console!ConsoleNext]_(Console!vars)
    OBVIOUS
  <2>1. CASE ConsoleStep
    BY <2>1 DEF ConsoleStep, Alone, Receive, Console!ConsoleNext
  <2>2. CASE ProviderStep
    BY <2>2 DEF ProviderStep, PollStep, Attempt, LeaveLoop, ServerAnswers, ReceiveReport,
        ReceiveNotFound, ReceiveNotYet, ReceiveError, TimerFires, RunEffect, Reload,
        pageVars, panelVars, Console!vars, Console!panel
  <2>3. CASE ServerStep
    <3>1. UNCHANGED <<posts, Console!panel, interval, requests, storage, told>>
      BY <2>3 DEF ServerStep, ServerMoves, pageVars, panelVars, Console!panel
    <3>2. \/ Forget \/ \E p \in posts : Accept(p.id)
          \/ \E id \in Ids : Work(id)
      BY <2>3 DEF ServerStep, ServerMoves
    <3>3. /\ Forget => Console!Forget
          /\ \A id : /\ Accept(id) => Console!Accept(id)
                     /\ Work(id) => Console!Work(id)
      BY DEF Forget, Accept, Work, Start, Complete, Fail, Known, Console!Forget,
             Console!Accept, Console!Work, Console!Start, Console!Complete, Console!Fail,
             Console!Known
    <3> QED BY <3>1, <3>2, <3>3 DEF Console!ConsoleNext, Console!ServerMoves
  <2> QED BY <2>1, <2>2, <2>3 DEF AllNext
<1>3. UNCHANGED <<vars, panelVars>> => UNCHANGED Console!vars
  BY DEF vars, pageVars, panelVars, Console!vars, Console!panel
<1> QED BY <1>1, <1>2, <1>3, PTL DEF AllSpec, Console!ConsoleSpec

\* So neither part notices the other but by the active id: the page implements both.
THEOREM PageImplementsParts == AllSpec => PartsAreAsAlone
<1> QED BY PageImplementsProvider, PageImplementsPanel, PTL DEF PartsAreAsAlone
===============================================================================
