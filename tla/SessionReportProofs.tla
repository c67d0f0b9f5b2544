-------------------------- MODULE SessionReportProofs --------------------------
(***************************************************************************)
(* Proofs about SessionReport for every set of connections, in any number  *)
(* and with any loss: which stream the summary is taken from, and what the *)
(* score is the sum of.  What the stages find out about one stream stays   *)
(* unopened here, but for what it can break.                               *)
(***************************************************************************)
EXTENDS SessionReport, FiniteSetTheorems, WellFoundedInduction, TLAPS

\* The least element of a set of numbers.
LEMMA MinOfNats ==
    ASSUME NEW S \in SUBSET Nat, S # {}
    PROVE  Min(S) \in S /\ \A y \in S : Min(S) <= y
<1> DEFINE R == OpToRel(<, Nat)
<1>1. \A i, j \in Nat : i < j => <<i, j>> \in R
  BY DEF OpToRel
<1>2. IsWellFoundedOn(R, Nat)
  BY NatLessThanWellFounded
<1> HIDE DEF R
<1>3. PICK x \in S : \A y \in S : ~(<<y, x>> \in R)
  BY <1>2, WFMin
<1>4. ASSUME NEW y \in S PROVE x <= y
  <2>1. ~(y < x)
    BY <1>1, <1>3
  <2> QED BY <2>1
<1> QED BY <1>4 DEF Min

\* An element that no other is below is the least.
LEMMA MinIs ==
    ASSUME NEW S \in SUBSET Nat, NEW x \in S, \A y \in S : x <= y
    PROVE  Min(S) = x
<1>1. Min(S) \in S /\ \A y \in S : Min(S) <= y
  BY MinOfNats
<1>2. Min(S) <= x /\ x <= Min(S)
  BY <1>1
<1>3. Min(S) \in Nat /\ x \in Nat
  BY <1>1
<1> QED BY <1>2, <1>3
-------------------------------------------------------------------------------
\* The elements of E before i, and the first n elements of E.
Below(E, i) == {j \in E : j < i}
FirstOf(E, n) == {i \in E : Cardinality(Below(E, i)) < n}

\* An element has more of E before it than any smaller one.
LEMMA BelowGrows ==
    ASSUME NEW E \in SUBSET Nat, IsFiniteSet(E), NEW i \in E, NEW k \in E, i < k
    PROVE  /\ Cardinality(Below(E, i)) < Cardinality(Below(E, k))
           /\ Cardinality(Below(E, i)) \in Nat /\ Cardinality(Below(E, k)) \in Nat
<1>1. /\ IsFiniteSet(Below(E, i)) /\ IsFiniteSet(Below(E, k))
      /\ Below(E, i) \cup {i} \subseteq Below(E, k) /\ i \notin Below(E, i)
  <2>1. Below(E, i) \in SUBSET E /\ Below(E, k) \in SUBSET E
    BY DEF Below
  <2>2. IsFiniteSet(Below(E, i)) /\ IsFiniteSet(Below(E, k))
    BY <2>1, FS_Subset
  <2>3. Below(E, i) \cup {i} \subseteq Below(E, k)
    <3>1. \A j \in E : j < i => j < k
      OBVIOUS
    <3> QED BY <3>1 DEF Below
  <2>4. i \notin Below(E, i)
    BY DEF Below
  <2> QED BY <2>2, <2>3, <2>4
<1>2. Cardinality(Below(E, i)) \in Nat /\ Cardinality(Below(E, k)) \in Nat
  BY <1>1, FS_CardinalityType
<1>3. Cardinality(Below(E, i) \cup {i}) = Cardinality(Below(E, i)) + 1
  BY <1>1, FS_AddElement
<1>4. Cardinality(Below(E, i) \cup {i}) <= Cardinality(Below(E, k))
  BY <1>1, FS_Subset
<1> QED BY <1>2, <1>3, <1>4

\* How many elements of a finite set are below one of them is a number.
LEMMA BelowCounts ==
    ASSUME NEW E \in SUBSET Nat, IsFiniteSet(E), NEW i \in E
    PROVE  Cardinality(Below(E, i)) \in Nat
<1>1. Below(E, i) \in SUBSET E
  BY DEF Below
<1> QED BY <1>1, FS_Subset, FS_CardinalityType

\* The element with n before it is the next one behind the first n.
LEMMA NextOfFirst ==
    ASSUME NEW E \in SUBSET Nat, IsFiniteSet(E), NEW n \in Nat,
           NEW i \in E, Cardinality(Below(E, i)) = n
    PROVE  /\ FirstOf(E, n + 1) = FirstOf(E, n) \cup {i}
           /\ i \notin FirstOf(E, n)
           /\ \A j \in FirstOf(E, n) : j < i
           /\ FirstOf(E, n) = {} => Min(E) = i
           /\ IsFiniteSet(FirstOf(E, n))
<1>1. ASSUME NEW j \in E
      PROVE  /\ Cardinality(Below(E, j)) \in Nat
             /\ j < i => Cardinality(Below(E, j)) < n
             /\ i < j => Cardinality(Below(E, j)) > n
             /\ j < i \/ j = i \/ i < j
  <2>1. Cardinality(Below(E, j)) \in Nat
    BY BelowCounts
  <2>2. j < i => Cardinality(Below(E, j)) < n
    BY BelowGrows
  <2>3. i < j => n < Cardinality(Below(E, j))
    BY BelowGrows
  <2> QED BY <2>1, <2>2, <2>3
<1>2. FirstOf(E, n + 1) = FirstOf(E, n) \cup {i}
  <2>1. \A j \in E : Cardinality(Below(E, j)) < n + 1 <=> Cardinality(Below(E, j)) < n \/ j = i
    BY <1>1
  <2> QED BY <2>1 DEF FirstOf
<1>3. i \notin FirstOf(E, n)
  BY DEF FirstOf
<1>4. \A j \in FirstOf(E, n) : j < i
  BY <1>1 DEF FirstOf
<1>5. FirstOf(E, n) = {} => Min(E) = i
  <2> SUFFICES ASSUME FirstOf(E, n) = {} PROVE Min(E) = i
    OBVIOUS
  <2>1. ASSUME NEW j \in E PROVE i <= j
    BY <1>1 DEF FirstOf
  <2> QED BY <2>1, MinIs
<1>6. IsFiniteSet(FirstOf(E, n))
  <2>1. FirstOf(E, n) \in SUBSET E
    BY DEF FirstOf
  <2> QED BY <2>1, FS_Subset
<1> QED BY <1>2, <1>3, <1>4, <1>5, <1>6

\* n elements, none of which has n before it, are all there are.
LEMMA FirstIsAll ==
    ASSUME NEW E \in SUBSET Nat, IsFiniteSet(E), NEW n \in Nat,
           Cardinality(FirstOf(E, n)) = n, \A i \in E : Cardinality(Below(E, i)) # n
    PROVE  FirstOf(E, n) = E
<1> SUFFICES ASSUME E \ FirstOf(E, n) # {} PROVE FALSE
  BY DEF FirstOf
<1> DEFINE k == Min(E \ FirstOf(E, n))
<1>1. k \in E \ FirstOf(E, n) /\ \A j \in E \ FirstOf(E, n) : k <= j
  BY MinOfNats
<1> HIDE DEF k
<1>2. Below(E, k) \subseteq FirstOf(E, n)
  <2> SUFFICES ASSUME NEW j \in E, j < k PROVE j \in FirstOf(E, n)
    BY DEF Below
  <2>1. k \in Nat /\ j \in Nat /\ ~(k <= j)
    BY <1>1
  <2> QED BY <1>1, <2>1
<1>3. ~(Cardinality(Below(E, k)) < n)
  BY <1>1 DEF FirstOf
<1>4. Cardinality(Below(E, k)) \in Nat
  BY <1>1, BelowCounts
<1>5. IsFiniteSet(FirstOf(E, n))
  <2>1. FirstOf(E, n) \in SUBSET E
    BY DEF FirstOf
  <2> QED BY <2>1, FS_Subset
<1>6. Cardinality(Below(E, k)) <= n
  BY <1>2, <1>5, FS_Subset
<1>7. Cardinality(Below(E, k)) = n
  BY <1>3, <1>4, <1>6
<1> QED BY <1>1, <1>7
-------------------------------------------------------------------------------
\* What evaluate_session can find of the streams that were captured.
Verdicts == {EvaluateSession(Evidence(streams[i], classified[i]), Now) : i \in DOMAIN streams}

\* The mail streams that were analysed, and those of them with a handshake.
Done == FirstOf(EmailStreams, Len(found))
Observed == {i \in Done : HandshakeObserved(streams[i])}

\* What there is before the streams are classified, and that each has then a class.
ShapeOK ==
    /\ phase \in {"capturing", "analysing", "reported"}
    /\ streams \in Seq(Captures)
    /\ phase = "capturing" =>
          classified = <<>> /\ found = <<>> /\ threats = <<>> /\ primary = NoPrimary
    /\ phase # "capturing" => DOMAIN classified = DOMAIN streams

\* The streams are analysed in their order, each once, and all before the report.
OrderOK ==
    /\ found \in Seq(Verdicts)
    /\ Cardinality(Done) = Len(found)
    /\ phase = "reported" => Following = {}

\* What the summary is taken from so far.
PrimaryFits ==
    phase # "capturing" /\ EmailStreams # {} =>
        primary =
            [stream |-> IF Observed = {} THEN Min(EmailStreams) ELSE Min(Observed),
             parameters |-> IF Observed = {} THEN 0 ELSE Min(Observed),
             starttls |-> IF Observed # {} THEN Min(Observed)
                          ELSE IF Done = {} THEN 0 ELSE Min(EmailStreams)]

\* The invariant of the summary.
SummaryInv == ShapeOK /\ OrderOK /\ PrimaryFits

\* The mail streams are finitely many positions in the list of streams.
LEMMA StreamsAreNumbered ==
    ASSUME ShapeOK
    PROVE  /\ DOMAIN streams = 1 .. Len(streams) /\ Len(streams) \in Nat
           /\ EmailStreams \in SUBSET (Nat \ {0}) /\ IsFiniteSet(EmailStreams)
           /\ EmailStreams \subseteq DOMAIN streams
<1>1. DOMAIN streams = 1 .. Len(streams) /\ Len(streams) \in Nat
  BY DEF ShapeOK
<1>2. EmailStreams \subseteq 1 .. Len(streams)
  <2>1. CASE phase = "capturing"
    BY <2>1 DEF ShapeOK, EmailStreams
  <2>2. CASE phase # "capturing"
    BY <1>1, <2>2 DEF ShapeOK, EmailStreams
  <2> QED BY <2>1, <2>2
<1>3. IsFiniteSet(1 .. Len(streams))
  BY <1>1, FS_Interval
<1>4. IsFiniteSet(EmailStreams)
  BY <1>2, <1>3, FS_Subset
<1> QED BY <1>1, <1>2, <1>4

\* Following is the one stream with as many mail streams before it as were analysed.
LEMMA FollowingIs ==
    Following = {i \in EmailStreams : Cardinality(Below(EmailStreams, i)) = Len(found)}
  BY DEF Following, Below

\* Nothing is captured, nothing summarised.
LEMMA InitSummary == Init => SummaryInv
<1> SUFFICES ASSUME Init PROVE SummaryInv
  OBVIOUS
<1> USE DEF Init
<1>1. EmailStreams = {} /\ Len(found) = 0
  BY DEF EmailStreams
<1>2. ShapeOK
  BY DEF ShapeOK
<1>3. Done = {}
  BY <1>1 DEF Done, FirstOf
<1>4. OrderOK
  BY <1>1, <1>3, FS_EmptySet DEF OrderOK
<1>5. PrimaryFits
  BY DEF PrimaryFits
<1> QED BY <1>2, <1>4, <1>5 DEF SummaryInv

\* A further connection is captured, or its streams are classified: nothing was analysed.
LEMMA CaptureSummary ==
    ASSUME SummaryInv, NEW s \in Captures, Capture(s) PROVE SummaryInv'
<1> USE DEF SummaryInv, Capture
<1>1. ShapeOK'
  BY DEF ShapeOK
<1>2. found' = <<>> /\ EmailStreams' = {} /\ Done' = {}
  BY DEF ShapeOK, EmailStreams, Done, FirstOf
<1>3. OrderOK'
  BY <1>2, FS_EmptySet DEF OrderOK
<1>4. PrimaryFits'
  BY DEF PrimaryFits
<1> QED BY <1>1, <1>3, <1>4

\* Classification decides which streams are mail, before the first is analysed.
LEMMA ClassifySummary ==
    ASSUME SummaryInv, ClassifyStreams PROVE SummaryInv'
<1> USE DEF SummaryInv
<1>1. /\ phase = "capturing" /\ UNCHANGED <<streams, found, threats>>
      /\ DOMAIN classified' = DOMAIN streams
      /\ phase' \in {"analysing", "reported"}
      /\ phase' = "reported" => EmailStreams' = {}
      /\ primary' = [primary EXCEPT !.stream = IF EmailStreams' = {} THEN 0 ELSE Min(EmailStreams')]
      /\ found = <<>> /\ threats = <<>> /\ primary = NoPrimary
  <2>1. EmailStreams' = {i \in DOMAIN streams : classified'[i].protocol \in Mail}
    BY DEF ClassifyStreams, EmailStreams
  <2> QED BY <2>1 DEF ClassifyStreams, ShapeOK
<1>2. ShapeOK'
  BY <1>1 DEF ShapeOK
<1>3. Done' = {}
  <2>0. EmailStreams' \in SUBSET Nat /\ IsFiniteSet(EmailStreams')
    <3>1. EmailStreams' \subseteq DOMAIN streams
      BY <1>1 DEF EmailStreams
    <3>2. DOMAIN streams = 1 .. Len(streams) /\ Len(streams) \in Nat
      BY StreamsAreNumbered
    <3>3. IsFiniteSet(1 .. Len(streams))
      BY <3>2, FS_Interval
    <3>4. IsFiniteSet(EmailStreams')
      BY <3>1, <3>2, <3>3, FS_Subset
    <3> QED BY <3>1, <3>2, <3>4
  <2>1. \A i \in EmailStreams' : Cardinality(Below(EmailStreams', i)) \in Nat
    BY <2>0, BelowCounts
  <2>2. Len(found') = 0
    BY <1>1
  <2> QED BY <2>1, <2>2 DEF Done, FirstOf
<1>4. OrderOK'
  <2>1. phase' = "reported" => Following' = {}
    BY <1>1 DEF Following
  <2> QED BY <1>1, <1>3, <2>1, FS_EmptySet DEF OrderOK
<1>5. PrimaryFits'
  BY <1>1, <1>3 DEF PrimaryFits, Observed, NoPrimary
<1> QED BY <1>2, <1>4, <1>5

\* The next mail stream is analysed: it is above all that were, and the first that has a
\* handshake takes the summary over.
LEMMA AnalyseSummary ==
    ASSUME SummaryInv, NEW i \in DOMAIN streams, AnalyseStream(i) PROVE SummaryInv'
<1> USE DEF SummaryInv
<1> DEFINE verdict == EvaluateSession(Evidence(streams[i], classified[i]), Now)
<1>1. /\ UNCHANGED <<streams, phase, classified>> /\ phase = "analysing"
      /\ i \in EmailStreams /\ Cardinality(Below(EmailStreams, i)) = Len(found)
      /\ found' = Append(found, verdict)
      /\ primary' = Prefer(i, HandshakeObserved(streams[i]))
  BY FollowingIs DEF AnalyseStream
<1>2. verdict \in Verdicts
  BY DEF Verdicts
<1> HIDE DEF verdict
<1>3. /\ EmailStreams' = EmailStreams /\ Verdicts' = Verdicts
      /\ \A k : HandshakeObserved(streams[k])' = HandshakeObserved(streams[k])
  BY <1>1 DEF EmailStreams, Verdicts
<1>4. /\ found \in Seq(Verdicts) /\ Len(found) \in Nat
      /\ found' \in Seq(Verdicts) /\ Len(found') = Len(found) + 1
  BY <1>1, <1>2 DEF OrderOK
<1>5. /\ EmailStreams \in SUBSET (Nat \ {0}) /\ IsFiniteSet(EmailStreams)
      /\ i \in Nat \ {0}
  BY <1>1, StreamsAreNumbered
<1>6. /\ Done' = Done \cup {i} /\ i \notin Done /\ \A j \in Done : j < i
      /\ Done = {} => Min(EmailStreams) = i
      /\ IsFiniteSet(Done)
  BY <1>1, <1>3, <1>4, <1>5, NextOfFirst DEF Done
<1>7. ShapeOK'
  BY <1>1 DEF ShapeOK
<1>8. OrderOK'
  <2>1. Cardinality(Done') = Len(found')
    BY <1>4, <1>6, FS_AddElement DEF OrderOK
  <2>2. phase' # "reported"
    BY <1>1
  <2> QED BY <1>3, <1>4, <2>1, <2>2 DEF OrderOK
<1>9. PrimaryFits'
  <2>1. Done \in SUBSET (Nat \ {0})
    BY <1>5 DEF Done, FirstOf
  <2>2. primary = [stream |-> IF Observed = {} THEN Min(EmailStreams) ELSE Min(Observed),
                   parameters |-> IF Observed = {} THEN 0 ELSE Min(Observed),
                   starttls |-> IF Observed # {} THEN Min(Observed)
                                ELSE IF Done = {} THEN 0 ELSE Min(EmailStreams)]
    BY <1>1 DEF PrimaryFits
  <2>3. Observed' = IF HandshakeObserved(streams[i]) THEN Observed \cup {i} ELSE Observed
    BY <1>1, <1>3, <1>6 DEF Observed
  <2>4. Observed \subseteq Done
    BY DEF Observed
  <2>5. Min(EmailStreams) \in Nat \ {0}
    BY <1>1, <1>5, MinOfNats
  <2>6. CASE Observed # {}
    <3>1. Min(Observed) \in Observed /\ \A y \in Observed : Min(Observed) <= y
      BY <2>1, <2>4, <2>6, MinOfNats
    <3>2. Min(Observed) # 0 /\ Min(Observed) < i
      BY <1>6, <2>1, <2>4, <3>1
    <3>3. Min(Observed') = Min(Observed)
      <4>1. Observed' \in SUBSET Nat /\ Min(Observed) \in Observed'
        BY <1>5, <2>1, <2>3, <2>4, <3>1
      <4>2. \A y \in Observed' : Min(Observed) <= y
        <5>1. Min(Observed) \in Nat /\ i \in Nat
          BY <1>5, <2>1, <2>4, <3>1
        <5> QED BY <2>3, <3>1, <3>2, <5>1
      <4> QED BY <4>1, <4>2, MinIs
    <3>4. primary' = primary
      BY <1>1, <2>2, <2>6, <3>2 DEF Prefer
    <3>5. Observed' # {}
      BY <2>3, <2>6
    <3> QED BY <1>3, <2>2, <2>6, <3>3, <3>4, <3>5 DEF PrimaryFits
  <2>7. CASE Observed = {} /\ HandshakeObserved(streams[i])
    <3>1. Observed' = {i} /\ Min(Observed') = i
      <4>1. Observed' = {i} /\ Observed' \in SUBSET Nat
        BY <1>5, <2>3, <2>7
      <4>2. \A y \in Observed' : i <= y
        BY <1>5, <4>1
      <4> QED BY <4>1, <4>2, MinIs
    <3>2. primary' = [stream |-> i, parameters |-> i, starttls |-> i]
      BY <1>1, <2>2, <2>7 DEF Prefer
    <3> QED BY <3>1, <3>2 DEF PrimaryFits
  <2>8. CASE Observed = {} /\ ~HandshakeObserved(streams[i])
    <3>1. Observed' = {} /\ Done' # {}
      BY <1>6, <2>3, <2>8
    <3>2. primary' = [stream |-> Min(EmailStreams), parameters |-> 0,
                      starttls |-> Min(EmailStreams)]
      BY <1>1, <1>6, <2>2, <2>5, <2>8 DEF Prefer
    <3> QED BY <1>3, <3>1, <3>2 DEF PrimaryFits
  <2> QED BY <2>6, <2>7, <2>8
<1> QED BY <1>7, <1>8, <1>9

\* The report is made when no stream is left.
LEMMA ConcludeSummary == ASSUME SummaryInv, Conclude PROVE SummaryInv'
<1> USE DEF SummaryInv, Conclude
<1>1. /\ EmailStreams' = EmailStreams /\ Verdicts' = Verdicts /\ Following' = Following
      /\ Done' = Done /\ Observed' = Observed
  BY DEF EmailStreams, Verdicts, Following, Done, Observed
<1>2. ShapeOK'
  BY DEF ShapeOK
<1>3. OrderOK'
  BY <1>1 DEF OrderOK
<1>4. PrimaryFits'
  BY <1>1 DEF PrimaryFits
<1> QED BY <1>2, <1>3, <1>4

\* Steps outside the report leave it alone.
LEMMA StutterSummary == ASSUME SummaryInv, UNCHANGED reportVars PROVE SummaryInv'
<1> USE DEF SummaryInv, reportVars
<1>1. /\ EmailStreams' = EmailStreams /\ Verdicts' = Verdicts /\ Following' = Following
      /\ Done' = Done /\ Observed' = Observed
  BY DEF EmailStreams, Verdicts, Following, Done, Observed
<1>2. ShapeOK'
  BY DEF ShapeOK
<1>3. OrderOK'
  BY <1>1 DEF OrderOK
<1>4. PrimaryFits'
  BY <1>1 DEF PrimaryFits
<1> QED BY <1>2, <1>3, <1>4

\* The summary is of the first stream with a handshake among those analysed so far, or of
\* the first mail stream as long as there is none.
LEMMA SummaryHolds == Spec => []SummaryInv
<1>1. Init => SummaryInv
  BY InitSummary
<1>2. SummaryInv /\ [Next]_reportVars => SummaryInv'
  <2> SUFFICES ASSUME SummaryInv, [Next]_reportVars PROVE SummaryInv'
    OBVIOUS
  <2>1. CASE UNCHANGED reportVars
    BY <2>1, StutterSummary
  <2>2. CASE Next
    BY <2>2, CaptureSummary, ClassifySummary, AnalyseSummary, ConcludeSummary DEF Next
  <2> QED BY <2>1, <2>2
<1> QED BY <1>1, <1>2, PTL DEF Spec

\* Whatever connections are captured, and whatever is lost of them, the summary is of one
\* connection: at the report all mail streams were analysed in their order, and what was
\* taken from the first of them gave way, as a whole, to the first with a handshake.
THEOREM SummaryOfOne == Spec => []SummaryIsOfOneConnection
<1>1. SummaryInv => SummaryIsOfOneConnection
  <2> SUFFICES ASSUME SummaryInv, phase = "reported", EmailStreams # {}
               PROVE  primary = IF {i \in EmailStreams : HandshakeObserved(streams[i])} = {}
                                THEN [stream |-> Min(EmailStreams), parameters |-> 0,
                                      starttls |-> Min(EmailStreams)]
                                ELSE LET observed == {i \in EmailStreams :
                                                        HandshakeObserved(streams[i])}
                                     IN  [stream |-> Min(observed),
                                          parameters |-> Min(observed),
                                          starttls |-> Min(observed)]
    BY DEF SummaryIsOfOneConnection
  <2>1. Done = EmailStreams
    <3>1. EmailStreams \in SUBSET Nat /\ IsFiniteSet(EmailStreams)
      BY StreamsAreNumbered DEF SummaryInv
    <3>2. Len(found) \in Nat /\ Cardinality(Done) = Len(found) /\ Following = {}
      BY DEF SummaryInv, OrderOK
    <3>3. \A i \in EmailStreams : Cardinality(Below(EmailStreams, i)) # Len(found)
      BY <3>2, FollowingIs
    <3> QED BY <3>1, <3>2, <3>3, FirstIsAll DEF Done
  <2>2. Observed = {i \in EmailStreams : HandshakeObserved(streams[i])}
    BY <2>1 DEF Observed
  <2> QED BY <2>1, <2>2 DEF SummaryInv, PrimaryFits
<1> QED BY <1>1, SummaryHolds, PTL
-------------------------------------------------------------------------------
\* Sums over finite sets.

\* Of the sets in Bad there is one none of whose proper subsets is in Bad.
LEMMA LeastSubset ==
    ASSUME NEW S, IsFiniteSet(S), NEW Bad \in SUBSET SUBSET S, Bad # {}
    PROVE  \E T \in Bad : \A U \in SUBSET T : U # T => U \notin Bad
<1> DEFINE R == StrictSubsetOrdering(S)
<1>1. IsWellFoundedOn(R, FiniteSubsetsOf(S))
  BY FS_StrictSubsetOrderingWellFounded
<1>2. Bad \subseteq FiniteSubsetsOf(S)
  BY FS_Subset DEF FiniteSubsetsOf
<1>3. \A U, T \in SUBSET S : U \subseteq T /\ U # T => <<U, T>> \in R
  BY DEF StrictSubsetOrdering
<1> HIDE DEF R
<1>4. PICK T \in Bad : \A U \in Bad : ~(<<U, T>> \in R)
  BY <1>1, <1>2, WFMin
<1> QED BY <1>3, <1>4

\* h is the function by which MapThenSumSet is defined, of weights w over the subsets of S.
Some(T) == CHOOSE x \in T : TRUE
IsSum(h, w, S) ==
    h = [T \in SUBSET S |-> IF T = {} THEN 0 ELSE w[Some(T)] + h[T \ {Some(T)}]]

\* There is such a function: it is made for the sets of at most n elements, for every n.
LEMMA SumExists ==
    ASSUME NEW S, IsFiniteSet(S), NEW w
    PROVE  \E h : IsSum(h, w, S)
<1> DEFINE Fits(h, T) == h[T] = IF T = {} THEN 0 ELSE w[Some(T)] + h[T \ {Some(T)}]
<1> DEFINE Made(n) == \E h : /\ DOMAIN h = SUBSET S /\ h = [T \in DOMAIN h |-> h[T]]
                             /\ \A T \in SUBSET S : Cardinality(T) <= n => Fits(h, T)
<1>1. \A T \in SUBSET S : /\ IsFiniteSet(T) /\ Cardinality(T) \in Nat
                          /\ Cardinality(T) <= Cardinality(S)
                          /\ Cardinality(T) = 0 => T = {}
  BY FS_Subset, FS_CardinalityType, FS_EmptySet
<1>2. \A T \in SUBSET S : T # {} =>
          /\ Some(T) \in T /\ T \ {Some(T)} \in SUBSET S
          /\ Cardinality(T \ {Some(T)}) = Cardinality(T) - 1
  <2> SUFFICES ASSUME NEW T \in SUBSET S, T # {}
               PROVE  /\ Some(T) \in T /\ T \ {Some(T)} \in SUBSET S
                      /\ Cardinality(T \ {Some(T)}) = Cardinality(T) - 1
    OBVIOUS
  <2>1. Some(T) \in T
    BY DEF Some
  <2> QED BY <1>1, <2>1, FS_RemoveElement
<1>3. Made(0)
  <2> DEFINE h == [T \in SUBSET S |-> 0]
  <2>1. \A T \in SUBSET S : Cardinality(T) <= 0 => Fits(h, T)
    BY <1>1
  <2>2. DOMAIN h = SUBSET S /\ h = [T \in DOMAIN h |-> h[T]]
    OBVIOUS
  <2> QED BY <2>1, <2>2
<1>4. ASSUME NEW n \in Nat \ {0}, Made(n - 1) PROVE Made(n)
  <2>1. PICK g : /\ DOMAIN g = SUBSET S /\ g = [T \in DOMAIN g |-> g[T]]
                 /\ \A T \in SUBSET S : Cardinality(T) <= n - 1 => Fits(g, T)
    BY <1>4
  <2> DEFINE h == [T \in SUBSET S |->
                     IF Cardinality(T) <= n - 1 THEN g[T]
                     ELSE w[Some(T)] + g[T \ {Some(T)}]]
  <2>2. ASSUME NEW T \in SUBSET S, Cardinality(T) <= n PROVE Fits(h, T)
    <3>1. CASE T = {}
      <4>1. Cardinality(T) <= n - 1
        BY <3>1, FS_EmptySet
      <4> QED BY <2>1, <3>1, <4>1
    <3>2. CASE T # {}
      <4>1. h[T \ {Some(T)}] = g[T \ {Some(T)}]
        BY <1>1, <1>2, <2>2, <3>2
      <4>2. h[T] = w[Some(T)] + g[T \ {Some(T)}]
        BY <2>1, <3>2
      <4> QED BY <3>2, <4>1, <4>2
    <3> QED BY <3>1, <3>2
  <2>3. DOMAIN h = SUBSET S /\ h = [T \in DOMAIN h |-> h[T]]
    OBVIOUS
  <2> HIDE DEF h
  <2> QED BY <2>2, <2>3
<1> HIDE DEF Made
<1>5. \A n \in Nat : Made(n)
  <2> DEFINE Bad == {n \in Nat : ~Made(n)}
  <2> SUFFICES ASSUME Bad # {} PROVE FALSE
    OBVIOUS
  <2>1. PICK m \in Bad : \A y \in Bad : m <= y
    BY MinOfNats
  <2>2. m \in Nat \ {0}
    BY <1>3, <2>1
  <2>3. m - 1 \in Nat /\ ~(m <= m - 1)
    BY <2>2
  <2>4. Made(m - 1)
    BY <2>1, <2>3
  <2> QED BY <1>4, <2>1, <2>2, <2>4
<1>6. Made(Cardinality(S))
  BY <1>5, FS_CardinalityType
<1>7. PICK h : /\ DOMAIN h = SUBSET S /\ h = [T \in DOMAIN h |-> h[T]]
               /\ \A T \in SUBSET S : Cardinality(T) <= Cardinality(S) => Fits(h, T)
  BY <1>6 DEF Made
<1>8. IsSum(h, w, S)
  BY <1>1, <1>7 DEF IsSum
<1> QED BY <1>8

\* A sum is a number, and the same in whichever order its parts are added.
LEMMA SumTakes ==
    ASSUME NEW S, IsFiniteSet(S), NEW w \in [S -> Nat], NEW h, IsSum(h, w, S),
           NEW T \in SUBSET S
    PROVE  /\ h[T] \in Nat
           /\ h[{}] = 0
           /\ \A x \in T : h[T] = w[x] + h[T \ {x}]
<1> DEFINE Fine(U) == h[U] \in Nat /\ \A x \in U : h[U] = w[x] + h[U \ {x}]
<1> DEFINE Bad == {U \in SUBSET S : ~Fine(U)}
<1>0. h[{}] = 0
  BY DEF IsSum
<1>1. ASSUME NEW U \in SUBSET S, \A V \in SUBSET U : V # U => V \notin Bad
      PROVE  Fine(U)
  <2>1. CASE U = {}
    BY <1>0, <2>1
  <2>2. CASE U # {}
    <3> DEFINE c == Some(U)
    <3>1. c \in U /\ h[U] = w[c] + h[U \ {c}] /\ U \ {c} \in SUBSET S
      BY <2>2 DEF IsSum, Some
    <3> HIDE DEF c
    <3>2. ASSUME NEW x \in U PROVE Fine(U \ {x})
      BY <1>1
    <3>3. h[U] \in Nat
      BY <3>1, <3>2
    <3>4. ASSUME NEW x \in U PROVE h[U] = w[x] + h[U \ {x}]
      <4>1. CASE x = c
        BY <3>1, <4>1
      <4>2. CASE x # c
        <5>1. h[U \ {c}] = w[x] + h[(U \ {c}) \ {x}]
          BY <3>1, <3>2, <4>2
        <5>2. h[U \ {x}] = w[c] + h[(U \ {x}) \ {c}]
          BY <3>1, <3>2, <4>2
        <5>3. (U \ {c}) \ {x} = (U \ {x}) \ {c}
          OBVIOUS
        <5>4. PICK rest : rest = h[(U \ {x}) \ {c}]
          OBVIOUS
        <5>5. rest \in Nat
          <6>1. (U \ {x}) \ {c} \in SUBSET U /\ (U \ {x}) \ {c} # U
            OBVIOUS
          <6>2. (U \ {x}) \ {c} \notin Bad
            BY <1>1, <6>1
          <6> QED BY <5>4, <6>1, <6>2
        <5>6. h[U] = w[c] + (w[x] + rest) /\ h[U \ {x}] = w[c] + rest
          BY <3>1, <5>1, <5>2, <5>3, <5>4
        <5>7. w[x] \in Nat /\ w[c] \in Nat
          BY <3>1
        <5> QED BY <5>5, <5>6, <5>7
      <4> QED BY <4>1, <4>2
    <3> QED BY <3>3, <3>4
  <2> QED BY <2>1, <2>2
<1>2. Bad = {}
  <2> SUFFICES ASSUME Bad # {} PROVE FALSE
    OBVIOUS
  <2>1. PICK U \in Bad : \A V \in SUBSET U : V # U => V \notin Bad
    <3>1. Bad \in SUBSET SUBSET S
      OBVIOUS
    <3> HIDE DEF Bad
    <3> QED BY <3>1, LeastSubset
  <2> QED BY <1>1, <2>1
<1> QED BY <1>0, <1>2

\* Whichever element is taken out, the sum falls by its weight.
Additive(h, w, S) == \A T \in SUBSET S : \A x \in T : h[T] = w[x] + h[T \ {x}]

\* SumTakes, for all subsets and all of their elements.
LEMMA SumsAdd ==
    ASSUME NEW S, IsFiniteSet(S), NEW w \in [S -> Nat], NEW h, IsSum(h, w, S)
    PROVE  Additive(h, w, S)
<1> SUFFICES ASSUME NEW T \in SUBSET S, NEW x \in T PROVE h[T] = w[x] + h[T \ {x}]
  BY DEF Additive
<1> QED BY SumTakes

\* Sets whose elements correspond, with the same weights, have the same sum.
Image(b, S) == {b[x] : x \in S}
Corresponds(b, w, S, v, U) ==
    /\ b \in [S -> U] /\ \A x, y \in S : b[x] = b[y] => x = y
    /\ \A x \in S : w[x] = v[b[x]]

\* Renaming the elements does not change the sum.
LEMMA SumsMatch ==
    ASSUME NEW S, IsFiniteSet(S), NEW w \in [S -> Nat], NEW h, IsSum(h, w, S),
           NEW U, IsFiniteSet(U), NEW v \in [U -> Nat], NEW g, IsSum(g, v, U),
           NEW b, Corresponds(b, w, S, v, U)
    PROVE  h[S] = g[Image(b, S)]
<1>0. /\ b \in [S -> U] /\ \A x, y \in S : b[x] = b[y] => x = y
      /\ \A x \in S : w[x] = v[b[x]]
  BY DEF Corresponds
<1> DEFINE Bad == {T \in SUBSET S : h[T] # g[Image(b, T)]}
<1>1. ASSUME NEW T \in SUBSET S, \A V \in SUBSET T : V # T => V \notin Bad
      PROVE  h[T] = g[Image(b, T)]
  <2>0. Image(b, T) \in SUBSET U
    BY <1>0 DEF Image
  <2>1. CASE T = {}
    <3>1. h[{}] = 0 /\ g[{}] = 0
      BY DEF IsSum
    <3>2. Image(b, T) = {}
      BY <2>1 DEF Image
    <3> QED BY <2>1, <3>1, <3>2
  <2>2. CASE T # {}
    <3>1. PICK x \in T : TRUE
      BY <2>2
    <3>2. h[T] = w[x] + h[T \ {x}]
      BY <3>1, SumTakes
    <3>3. g[Image(b, T)] = v[b[x]] + g[Image(b, T) \ {b[x]}]
      <4>1. Additive(g, v, U)
        BY SumsAdd
      <4>2. b[x] \in Image(b, T)
        BY <3>1 DEF Image
      <4> QED BY <2>0, <4>1, <4>2 DEF Additive
    <3>4. Image(b, T \ {x}) = Image(b, T) \ {b[x]}
      BY <1>0, <3>1 DEF Image
    <3>5. h[T \ {x}] = g[Image(b, T \ {x})]
      BY <1>1
    <3> QED BY <1>0, <3>1, <3>2, <3>3, <3>4, <3>5
  <2> QED BY <2>1, <2>2
<1>2. Bad = {}
  <2> SUFFICES ASSUME Bad # {} PROVE FALSE
    OBVIOUS
  <2>1. PICK T \in Bad : \A V \in SUBSET T : V # T => V \notin Bad
    <3>1. Bad \in SUBSET SUBSET S
      OBVIOUS
    <3> HIDE DEF Bad
    <3> QED BY <3>1, LeastSubset
  <2> QED BY <1>1, <2>1
<1> QED BY <1>2
-------------------------------------------------------------------------------
\* What the findings of a stream can be.

\* Rules of which no threat is promised here: two have no weakness in the catalog, and
\* the pattern of the third, of TLS 1.0 and 1.1, misses the parser's name for them.
Unmapped == {"RULE-PLAINTEXT-001", "RULE-CIPHER-UNKNOWN", "RULE-TLS-002"}

\* A finding of something broken is of the catalog, and is mapped to a weakness and a
\* threat but for those.
Sound(f) ==
    f.status = "NON_COMPLIANT" =>
        /\ f.rule \in Catalog
        /\ f.rule \notin Unmapped =>
              /\ f.property = Pattern(f.rule)[1] /\ f.value \in Pattern(f.rule)[2]
              /\ RulesForUpstream(f.rule) # {}

\* The five penalties and the rules that cost them.
LEMMA PenaltiesAre ==
    /\ DOMAIN Penalties = {2, 3, 5, 10, 15}
    /\ Penalties[15] = {"RULE-TLS-001", "RULE-CIPHER-001"}
    /\ Penalties[10] = {"RULE-REVOC-001", "RULE-PLAINTEXT-001", "RULE-STARTTLS-002"}
    /\ Penalties[5] = {"RULE-CERT-001", "RULE-CERT-003", "RULE-TRUST-001"}
    /\ Penalties[3] = {"RULE-CIPHER-002", "RULE-CERT-004", "RULE-KEX-002"}
    /\ Penalties[2] = {"RULE-TLS-002", "RULE-CIPHER-003", "RULE-CIPHER-004",
                       "RULE-CIPHER-UNKNOWN", "RULE-KEX-001", "RULE-CERT-002",
                       "RULE-PKI-001", "RULE-IDENTITY-001"}
  BY DEF Penalties

\* The catalog by its penalties.
LEMMA CatalogIs ==
    Catalog = Penalties[2] \cup Penalties[3] \cup Penalties[5] \cup Penalties[10]
                \cup Penalties[15]
  BY PenaltiesAre DEF Catalog

\* The catalog's patterns of the rules that are mapped.
LEMMA PatternIs ==
    /\ Pattern("RULE-TLS-001")[1] = "tls.version"
    /\ Pattern("RULE-TLS-001")[2] = {"SSL_2_0", "SSL_3_0"}
    /\ Pattern("RULE-CIPHER-004")[1] = "tls.cipher_suite"
    /\ Pattern("RULE-CIPHER-004")[2] = {"0x002F"}
    /\ Pattern("RULE-KEX-001")[1] = "kex.has_forward_secrecy"
    /\ Pattern("RULE-KEX-001")[2] = {"FALSE"}
    /\ Pattern("RULE-CERT-001")[1] = "cert.not_after"
    /\ Pattern("RULE-CERT-001")[2] = {"EXPIRED"}
    /\ Pattern("RULE-CERT-002")[1] = "cert.not_before"
    /\ Pattern("RULE-CERT-002")[2] = {"NOT_YET_VALID"}
    /\ Pattern("RULE-CERT-003")[1] = "cert.public_key_bits"
    /\ Pattern("RULE-CERT-003")[2] = {"WEAK_KEY"}
    /\ Pattern("RULE-CERT-004")[1] = "cert.signature_algorithm"
    /\ Pattern("RULE-CERT-004")[2] = {"md2", "md5", "sha1"}
    /\ Pattern("RULE-PKI-001")[1] = "cert.is_self_signed"
    /\ Pattern("RULE-PKI-001")[2] = {"TRUE"}
    /\ Pattern("RULE-STARTTLS-002")[1] = "starttls.state"
    /\ Pattern("RULE-STARTTLS-002")[2] = {"PLAINTEXT_CONTINUATION"}
    /\ Pattern("RULE-IDENTITY-001")[1] = "identity.sni_vs_san"
    /\ Pattern("RULE-IDENTITY-001")[2] = {"MISMATCH"}
    /\ Pattern("RULE-TRUST-001")[1] = "trust.validation_status"
    /\ Pattern("RULE-TRUST-001")[2] = {"NOT_VALIDATED"}
  BY DEF Pattern

\* The rules that evaluate_session can find broken, with what they are found by.
Charges ==
    {<<"RULE-TLS-001", "tls.version", "SSL_2_0">>, <<"RULE-TLS-001", "tls.version", "SSL_3_0">>,
     <<"RULE-TLS-002", "tls.version", "TLS_1_0">>, <<"RULE-TLS-002", "tls.version", "TLS_1_1">>,
     <<"RULE-CIPHER-004", "tls.cipher_suite", "0x002F">>,
     <<"RULE-CIPHER-UNKNOWN", "tls.cipher_suite", "UNKNOWN_CIPHER_SUITE">>,
     <<"RULE-KEX-001", "kex.has_forward_secrecy", "FALSE">>,
     <<"RULE-CERT-001", "cert.not_after", "EXPIRED">>,
     <<"RULE-CERT-002", "cert.not_before", "NOT_YET_VALID">>,
     <<"RULE-CERT-003", "cert.public_key_bits", "WEAK_KEY">>,
     <<"RULE-CERT-004", "cert.signature_algorithm", "md2">>,
     <<"RULE-CERT-004", "cert.signature_algorithm", "md5">>,
     <<"RULE-CERT-004", "cert.signature_algorithm", "sha1">>,
     <<"RULE-PKI-001", "cert.is_self_signed", "TRUE">>,
     <<"RULE-IDENTITY-001", "identity.sni_vs_san", "MISMATCH">>,
     <<"RULE-TRUST-001", "trust.validation_status", "NOT_VALIDATED">>,
     <<"RULE-STARTTLS-002", "starttls.state", "PLAINTEXT_CONTINUATION">>,
     <<"RULE-PLAINTEXT-001", "transport.security", "PLAINTEXT">>}

\* A finding that is non-compliant only as one of the charges.
IsCharge(f) ==
    f.status = "NON_COMPLIANT" => \E charge \in Charges :
        f.rule = charge[1] /\ f.property = charge[2] /\ f.value = charge[3]

\* A charge is of a rule of the catalog; where the rule is mapped to a threat, the value
\* is one that the pattern of the threat looks for.
LEMMA ChargesAreSound == \A f : IsCharge(f) => Sound(f)
<1> SUFFICES ASSUME NEW f, NEW charge \in Charges,
                    f.rule = charge[1], f.property = charge[2], f.value = charge[3]
             PROVE  Sound(f)
  BY DEF IsCharge, Sound
<1> DEFINE r == charge[1]
<1> DEFINE p == charge[2]
<1> DEFINE v == charge[3]
<1>0. \/ r = "RULE-TLS-001" /\ p = "tls.version" /\ v \in {"SSL_2_0", "SSL_3_0"}
      \/ r = "RULE-TLS-002" /\ p = "tls.version" /\ v \in {"TLS_1_0", "TLS_1_1"}
      \/ r = "RULE-CIPHER-004" /\ p = "tls.cipher_suite" /\ v = "0x002F"
      \/ r = "RULE-CIPHER-UNKNOWN" \/ r = "RULE-PLAINTEXT-001"
      \/ r = "RULE-KEX-001" /\ p = "kex.has_forward_secrecy" /\ v = "FALSE"
      \/ r = "RULE-CERT-001" /\ p = "cert.not_after" /\ v = "EXPIRED"
      \/ r = "RULE-CERT-002" /\ p = "cert.not_before" /\ v = "NOT_YET_VALID"
      \/ r = "RULE-CERT-003" /\ p = "cert.public_key_bits" /\ v = "WEAK_KEY"
      \/ r = "RULE-CERT-004" /\ p = "cert.signature_algorithm" /\ v \in {"md2", "md5", "sha1"}
      \/ r = "RULE-PKI-001" /\ p = "cert.is_self_signed" /\ v = "TRUE"
      \/ r = "RULE-IDENTITY-001" /\ p = "identity.sni_vs_san" /\ v = "MISMATCH"
      \/ r = "RULE-TRUST-001" /\ p = "trust.validation_status" /\ v = "NOT_VALIDATED"
      \/ r = "RULE-STARTTLS-002" /\ p = "starttls.state" /\ v = "PLAINTEXT_CONTINUATION"
  BY DEF Charges
<1> HIDE DEF r, p, v
<1>r. f.rule = r /\ f.property = p /\ f.value = v
  BY DEF r, p, v
<1>1. f.rule \in Catalog
  BY CatalogIs, PenaltiesAre, <1>0, <1>r
<1>3. ASSUME f.rule \notin Unmapped
      PROVE  f.property = Pattern(f.rule)[1] /\ f.value \in Pattern(f.rule)[2]
  <2>1. p = Pattern(r)[1] /\ v \in Pattern(r)[2]
    <3>1. CASE r = "RULE-TLS-001"
      BY <3>1, <1>0, PatternIs, ZenonT(60)
    <3>2. CASE r = "RULE-CIPHER-004"
      BY <3>2, <1>0, PatternIs, ZenonT(60)
    <3>3. CASE r = "RULE-KEX-001"
      BY <3>3, <1>0, PatternIs, ZenonT(60)
    <3>4. CASE r = "RULE-CERT-001"
      BY <3>4, <1>0, PatternIs, ZenonT(60)
    <3>5. CASE r = "RULE-CERT-002"
      BY <3>5, <1>0, PatternIs, ZenonT(60)
    <3>6. CASE r = "RULE-CERT-003"
      BY <3>6, <1>0, PatternIs, ZenonT(60)
    <3>7. CASE r = "RULE-CERT-004"
      BY <3>7, <1>0, PatternIs, ZenonT(60)
    <3>8. CASE r = "RULE-PKI-001"
      BY <3>8, <1>0, PatternIs, ZenonT(60)
    <3>9. CASE r = "RULE-IDENTITY-001"
      BY <3>9, <1>0, PatternIs, ZenonT(60)
    <3>10. CASE r = "RULE-TRUST-001"
      BY <3>10, <1>0, PatternIs, ZenonT(60)
    <3>11. CASE r = "RULE-STARTTLS-002"
      BY <3>11, <1>0, PatternIs, ZenonT(60)
    <3> QED BY <1>0, <1>3, <1>r, <3>1, <3>2, <3>3, <3>4, <3>5, <3>6, <3>7, <3>8, <3>9,
           <3>10, <3>11 DEF Unmapped
  <2> QED BY <2>1, <1>r
<1>4. ASSUME f.rule \notin Unmapped PROVE RulesForUpstream(f.rule) # {}
  <2>1. f.rule \in ThreatUpstream \/ f.rule = "RULE-STARTTLS-002"
    BY <1>4, <1>0, <1>r DEF Unmapped, ThreatUpstream
  <2> QED BY <2>1 DEF RulesForUpstream, ThreatUpstream
<1> QED BY <1>1, <1>3, <1>4 DEF Sound

\* A finding that is not of something broken is no charge.
LEMMA NoCharge ==
    /\ \A rule, property, value : \A f \in Compliant(rule, property, value) : IsCharge(f)
    /\ \A rule, property, value : \A f \in Unknown(rule, property, value) : IsCharge(f)
    /\ \A rule, property, value, status :
          status # "NON_COMPLIANT" => IsCharge(Finding(rule, status, property, value))
  BY DEF Compliant, Unknown, Finding, IsCharge

\* NonCompliant makes a charge of one that is listed.
LEMMA ChargeIs ==
    \A rule, property, value :
        <<rule, property, value>> \in Charges =>
            \A f \in NonCompliant(rule, property, value) : IsCharge(f)
<1> SUFFICES ASSUME NEW rule, NEW property, NEW value, <<rule, property, value>> \in Charges,
                    NEW f \in NonCompliant(rule, property, value)
             PROVE  IsCharge(f)
  OBVIOUS
<1>1. f.rule = rule /\ f.property = property /\ f.value = value
  BY DEF NonCompliant, Finding
<1> QED BY <1>1 DEF IsCharge

\* What each evaluation finds broken is one of the charges.
LEMMA TlsVersionSound == \A version : \A f \in EvalTlsVersion(version) : IsCharge(f)
<1> SUFFICES ASSUME NEW version, NEW f \in EvalTlsVersion(version) PROVE IsCharge(f)
  OBVIOUS
<1>1. CASE version \in {"SSL_2_0", "SSL_3_0"}
  <2>1. EvalTlsVersion(version) = NonCompliant("RULE-TLS-001", "tls.version", version)
    BY <1>1 DEF EvalTlsVersion
  <2>2. <<"RULE-TLS-001", "tls.version", version>> \in Charges
    BY <1>1 DEF Charges
  <2> QED BY <2>1, <2>2, ChargeIs
<1>2. CASE version \in {"TLS_1_0", "TLS_1_1"}
  <2>1. EvalTlsVersion(version) = NonCompliant("RULE-TLS-002", "tls.version", version)
    BY <1>2 DEF EvalTlsVersion
  <2>2. <<"RULE-TLS-002", "tls.version", version>> \in Charges
    BY <1>2 DEF Charges
  <2> QED BY <2>1, <2>2, ChargeIs
<1>3. CASE version \notin {"SSL_2_0", "SSL_3_0", "TLS_1_0", "TLS_1_1"}
  <2>1. \/ EvalTlsVersion(version) = Compliant("RULE-TLS-003", "tls.version", version)
        \/ EvalTlsVersion(version) = Compliant("RULE-TLS-004", "tls.version", version)
        \/ EvalTlsVersion(version) = Unknown("RULE-TLS-002", "tls.version", version)
    BY <1>3 DEF EvalTlsVersion
  <2> QED BY <2>1, NoCharge
<1> QED BY <1>1, <1>2, <1>3

\* What each of the evaluators finds broken is a charge: of the key exchange,
LEMMA KeyExchangeSound == \A exchange : \A f \in EvalKeyExchange(exchange) : IsCharge(f)
<1> SUFFICES ASSUME NEW exchange, NEW f \in EvalKeyExchange(exchange) PROVE IsCharge(f)
  OBVIOUS
<1>1. <<"RULE-KEX-001", "kex.has_forward_secrecy", "FALSE">> \in Charges
  BY DEF Charges
<1>2. \/ f \in Unknown("RULE-KEX-001", "kex.parameters", "UNAVAILABLE")
      \/ f \in NonCompliant("RULE-KEX-001", "kex.has_forward_secrecy", "FALSE")
      \/ f \in Compliant("RULE-KEX-001", "kex.has_forward_secrecy", "TRUE")
  BY DEF EvalKeyExchange
<1> QED BY <1>1, <1>2, ChargeIs, NoCharge

\* ... of the names in the certificate,
LEMMA IdentitySound == \A relation : \A f \in EvalIdentity(relation) : IsCharge(f)
<1> SUFFICES ASSUME NEW relation, NEW f \in EvalIdentity(relation) PROVE IsCharge(f)
  OBVIOUS
<1>1. <<"RULE-IDENTITY-001", "identity.sni_vs_san", "MISMATCH">> \in Charges
  BY DEF Charges
<1>2. \/ f \in Compliant("RULE-IDENTITY-001", "identity.sni_vs_san", relation)
      \/ f \in NonCompliant("RULE-IDENTITY-001", "identity.sni_vs_san", "MISMATCH")
      \/ f \in Unknown("RULE-IDENTITY-001", "identity.sni_vs_san", "UNAVAILABLE")
  BY DEF EvalIdentity
<1> QED BY <1>1, <1>2, ChargeIs, NoCharge

\* ... of the chain of trust,
LEMMA TrustSound == \A trust : \A f \in EvalTrustAndRevocation(trust) : IsCharge(f)
<1> SUFFICES ASSUME NEW trust, NEW f \in EvalTrustAndRevocation(trust) PROVE IsCharge(f)
  OBVIOUS
<1>1. <<"RULE-TRUST-001", "trust.validation_status", "NOT_VALIDATED">> \in Charges
  BY DEF Charges
<1>2. \/ f \in Unknown("RULE-REVOC-001", "ocsp.observed_status", "UNAVAILABLE")
      \/ f \in Compliant("RULE-TRUST-001", "trust.validation_status", trust)
      \/ f \in NonCompliant("RULE-TRUST-001", "trust.validation_status", "NOT_VALIDATED")
      \/ f \in Unknown("RULE-TRUST-001", "trust.validation_status", "UNAVAILABLE")
  BY DEF EvalTrustAndRevocation
<1> QED BY <1>1, <1>2, ChargeIs, NoCharge

\* ... of the upgrade to TLS,
LEMMA StarttlsSound == \A flow : \A f \in EvalStarttls(flow) : IsCharge(f)
<1> SUFFICES ASSUME NEW flow, NEW f \in EvalStarttls(flow) PROVE IsCharge(f)
  OBVIOUS
<1>1. <<"RULE-STARTTLS-002", "starttls.state", "PLAINTEXT_CONTINUATION">> \in Charges
  BY DEF Charges
<1>2. \/ f \in NonCompliant("RULE-STARTTLS-002", "starttls.state", "PLAINTEXT_CONTINUATION")
      \/ f \in Compliant("RULE-STARTTLS-002", "starttls.state", "SUCCEEDED")
      \/ f = Finding("RULE-STARTTLS-002", "NOT_APPLICABLE", "starttls.state",
                     "NOT_APPLICABLE")
  BY DEF EvalStarttls
<1> QED BY <1>1, <1>2, ChargeIs, NoCharge

\* ... of a transport in the clear,
LEMMA PlaintextSound == \A flow : \A f \in EvalPlaintextTransport(flow) : IsCharge(f)
<1>1. <<"RULE-PLAINTEXT-001", "transport.security", "PLAINTEXT">> \in Charges
  BY DEF Charges
<1> QED BY <1>1, ChargeIs DEF EvalPlaintextTransport

\* The parser knows one suite by name that is not approved.
LEMMA CipherSuiteSound == \A id : \A f \in EvalCipherSuite(SuiteName(id)) : IsCharge(f)
<1> SUFFICES ASSUME NEW id PROVE \A f \in EvalCipherSuite(SuiteName(id)) : IsCharge(f)
  OBVIOUS
<1> DEFINE name == SuiteName(id)
<1>1. name \in NamedSuites \cup {"UNKNOWN_CIPHER_SUITE"}
  BY DEF SuiteName
<1> HIDE DEF name
<1>2. CASE name = "0x002F"
  <2>1. HitsOf(name) = {4}
    <3>1. Algorithms(name) = {"CBC"}
      BY <1>2 DEF Algorithms
    <3> QED BY <3>1 DEF HitsOf, Prohibited
  <2>2. Prohibitions[Min(HitsOf(name))] = "RULE-CIPHER-004"
    <3>1. Min(HitsOf(name)) = 4
      BY <2>1, MinIs
    <3> QED BY <3>1 DEF Prohibitions
  <2>3. EvalCipherSuite(name) = NonCompliant("RULE-CIPHER-004", "tls.cipher_suite", "0x002F")
    <3>1. name # None /\ HitsOf(name) # {} /\ name \notin ApprovedCiphers
      BY <1>2, <2>1 DEF None, ApprovedCiphers
    <3> QED BY <1>2, <2>2, <3>1 DEF EvalCipherSuite
  <2>4. <<"RULE-CIPHER-004", "tls.cipher_suite", "0x002F">> \in Charges
    BY DEF Charges
  <2> QED BY <2>3, <2>4, ChargeIs DEF name
<1>3. CASE name # "0x002F"
  <2>1. HitsOf(name) = {}
    <3>1. Algorithms(name) = {}
      BY <1>1, <1>3 DEF Algorithms, NamedSuites
    <3> QED BY <3>1 DEF HitsOf
  <2>2. name # None
    BY <1>1 DEF None, NamedSuites
  <2>3. CASE name \in NamedSuites
    <3>1. name \in ApprovedCiphers
      BY <1>3, <2>3 DEF ApprovedCiphers, NamedSuites
    <3>2. EvalCipherSuite(name) = Compliant("RULE-CIPHER-APPROVED", "tls.cipher_suite", name)
      BY <2>1, <2>2, <3>1 DEF EvalCipherSuite
    <3> QED BY <3>2, NoCharge DEF name
  <2>4. CASE name = "UNKNOWN_CIPHER_SUITE"
    <3>1. name \notin ApprovedCiphers
      BY <2>4 DEF ApprovedCiphers
    <3>2. EvalCipherSuite(name) =
              NonCompliant("RULE-CIPHER-UNKNOWN", "tls.cipher_suite", "UNKNOWN_CIPHER_SUITE")
      BY <2>1, <2>2, <2>4, <3>1 DEF EvalCipherSuite
    <3>3. <<"RULE-CIPHER-UNKNOWN", "tls.cipher_suite", "UNKNOWN_CIPHER_SUITE">> \in Charges
      BY DEF Charges
    <3> QED BY <3>2, <3>3, ChargeIs DEF name
  <2> QED BY <1>1, <2>3, <2>4
<1> QED BY <1>2, <1>3

\* ... of the dates of the certificate,
LEMMA ValiditySound == \A audit : \A f \in EvalValidity(audit) : IsCharge(f)
<1> SUFFICES ASSUME NEW audit, NEW f \in EvalValidity(audit) PROVE IsCharge(f)
  OBVIOUS
<1>1. /\ <<"RULE-CERT-001", "cert.not_after", "EXPIRED">> \in Charges
      /\ <<"RULE-CERT-002", "cert.not_before", "NOT_YET_VALID">> \in Charges
  BY DEF Charges
<1>2. \/ f \in NonCompliant("RULE-CERT-001", "cert.not_after", "EXPIRED")
      \/ f \in NonCompliant("RULE-CERT-002", "cert.not_before", "NOT_YET_VALID")
      \/ f \in Compliant("RULE-CERT-001", "cert.validity", "ACTIVE")
      \/ f \in Unknown("RULE-CERT-001", "cert.validity", "UNAVAILABLE")
  BY DEF EvalValidity
<1> QED BY <1>1, <1>2, ChargeIs, NoCharge

\* ... and of the certificate as a whole.
LEMMA CertificateSound == \A chain, now : \A f \in EvalCertificate(chain, now) : IsCharge(f)
<1> SUFFICES ASSUME NEW chain, NEW now, NEW f \in EvalCertificate(chain, now)
             PROVE  IsCharge(f)
  OBVIOUS
<1>1. CASE chain = <<>>
  BY <1>1, NoCharge DEF EvalCertificate
<1>2. CASE chain # <<>>
  <2> DEFINE leaf == chain[1]
  <2> DEFINE audit == Audit(leaf, now)
  <2>1. \/ f \in EvalValidity(audit)
        \/ f \in Compliant("RULE-CERT-003", "cert.public_key_bits", "STRONG_KEY")
        \/ f \in Compliant("RULE-CERT-004", "cert.signature_algorithm", leaf.digest)
        \/ f \in Compliant("RULE-PKI-001", "cert.is_self_signed", "FALSE")
        \/ f \in NonCompliant("RULE-CERT-003", "cert.public_key_bits", "WEAK_KEY")
        \/ /\ leaf.digest \in {"md2", "md5", "sha1"}
           /\ f \in NonCompliant("RULE-CERT-004", "cert.signature_algorithm", leaf.digest)
        \/ f \in NonCompliant("RULE-PKI-001", "cert.is_self_signed", "TRUE")
    <3>1. \/ f \in EvalValidity(audit)
          \/ f \in IF leaf.algorithm # "RSA" THEN {}
                   ELSE IF leaf.bits < 2048
                   THEN NonCompliant("RULE-CERT-003", "cert.public_key_bits", "WEAK_KEY")
                   ELSE Compliant("RULE-CERT-003", "cert.public_key_bits", "STRONG_KEY")
          \/ f \in IF leaf.digest \in {"md2", "md5", "sha1"}
                   THEN NonCompliant("RULE-CERT-004", "cert.signature_algorithm", leaf.digest)
                   ELSE Compliant("RULE-CERT-004", "cert.signature_algorithm", leaf.digest)
          \/ f \in CASE audit.is_self_signed = "TRUE" ->
                           NonCompliant("RULE-PKI-001", "cert.is_self_signed", "TRUE")
                     [] audit.is_self_signed = "FALSE" ->
                           Compliant("RULE-PKI-001", "cert.is_self_signed", "FALSE")
                     [] OTHER -> {}
      BY <1>2 DEF EvalCertificate
    <3> HIDE DEF leaf, audit
    <3> QED BY <3>1
  <2> HIDE DEF leaf, audit
  <2>2. /\ <<"RULE-CERT-003", "cert.public_key_bits", "WEAK_KEY">> \in Charges
        /\ <<"RULE-PKI-001", "cert.is_self_signed", "TRUE">> \in Charges
        /\ leaf.digest \in {"md2", "md5", "sha1"} =>
              <<"RULE-CERT-004", "cert.signature_algorithm", leaf.digest>> \in Charges
    BY DEF Charges
  <2> QED BY <2>1, <2>2, ValiditySound, ChargeIs, NoCharge
<1> QED BY <1>1, <1>2

\* Whatever is seen of a stream, its findings are sound.
LEMMA VerdictsSound == \A v \in Verdicts : \A f \in v : Sound(f)
<1> SUFFICES ASSUME NEW i \in DOMAIN streams,
                    NEW f \in EvaluateSession(Evidence(streams[i], classified[i]), Now)
             PROVE  Sound(f)
  BY DEF Verdicts
<1> DEFINE evidence == Evidence(streams[i], classified[i])
<1>1. evidence.cipher = SuiteName(streams[i].conn.cipher)
  BY DEF Evidence
<1>2. \/ f \in EvalTlsVersion(evidence.version) \/ f \in EvalCipherSuite(evidence.cipher)
      \/ f \in EvalKeyExchange(evidence.exchange)
      \/ f \in EvalCertificate(evidence.chain, Now)
      \/ f \in EvalIdentity(evidence.identity)
      \/ f \in EvalTrustAndRevocation(evidence.trust)
      \/ f \in EvalStarttls(evidence.flow) \/ f \in EvalPlaintextTransport(evidence.flow)
  BY DEF EvaluateSession
<1> HIDE DEF evidence
<1> QED BY <1>1, <1>2, ChargesAreSound, TlsVersionSound, CipherSuiteSound, KeyExchangeSound,
           CertificateSound, IdentitySound, TrustSound, StarttlsSound, PlaintextSound
-------------------------------------------------------------------------------
\* The score.

\* The penalty of a rule is the one it is listed under.
LEMMA PenaltyIs ==
    /\ \A cost \in {2, 3, 5, 10, 15} : \A rule \in Penalties[cost] : Penalty(rule) = cost
    /\ \A rule \in Catalog : Penalty(rule) \in {2, 3, 5, 10, 15}
<1>1. ASSUME NEW cost \in {2, 3, 5, 10, 15}, NEW rule \in Penalties[cost]
      PROVE  Penalty(rule) = cost
  <2>1. \A other \in {2, 3, 5, 10, 15} : rule \in Penalties[other] => other = cost
    BY <1>1, PenaltiesAre
  <2> QED BY <2>1, PenaltiesAre DEF Penalty
<1>2. \A rule \in Catalog : \E cost \in {2, 3, 5, 10, 15} : rule \in Penalties[cost]
  BY PenaltiesAre DEF Catalog
<1> QED BY <1>1, <1>2

\* What all rules of the catalog cost.
Costs == [rule \in Catalog |-> Penalty(rule)]

\* The rules of the catalog, numbered.
All ==
    <<"RULE-TLS-001", "RULE-CIPHER-001", "RULE-REVOC-001", "RULE-PLAINTEXT-001",
      "RULE-STARTTLS-002", "RULE-CERT-001", "RULE-CERT-003", "RULE-TRUST-001",
      "RULE-CIPHER-002", "RULE-CERT-004", "RULE-KEX-002", "RULE-TLS-002", "RULE-CIPHER-003",
      "RULE-CIPHER-004", "RULE-CIPHER-UNKNOWN", "RULE-KEX-001", "RULE-CERT-002",
      "RULE-PKI-001", "RULE-IDENTITY-001">>

\* The numbering, written out.
LEMMA AllIs ==
    /\ All[1] = "RULE-TLS-001"
    /\ All[2] = "RULE-CIPHER-001"
    /\ All[3] = "RULE-REVOC-001"
    /\ All[4] = "RULE-PLAINTEXT-001"
    /\ All[5] = "RULE-STARTTLS-002"
    /\ All[6] = "RULE-CERT-001"
    /\ All[7] = "RULE-CERT-003"
    /\ All[8] = "RULE-TRUST-001"
    /\ All[9] = "RULE-CIPHER-002"
    /\ All[10] = "RULE-CERT-004"
    /\ All[11] = "RULE-KEX-002"
    /\ All[12] = "RULE-TLS-002"
    /\ All[13] = "RULE-CIPHER-003"
    /\ All[14] = "RULE-CIPHER-004"
    /\ All[15] = "RULE-CIPHER-UNKNOWN"
    /\ All[16] = "RULE-KEX-001"
    /\ All[17] = "RULE-CERT-002"
    /\ All[18] = "RULE-PKI-001"
    /\ All[19] = "RULE-IDENTITY-001"
  BY DEF All

\* It numbers each rule of the catalog once.
LEMMA AllOfCatalog ==
    /\ \A i \in 1 .. 19 : All[i] \in Catalog
    /\ \A rule \in Catalog : \E i \in 1 .. 19 : All[i] = rule
    /\ \A i, j \in 1 .. 19 : All[i] = All[j] => i = j
<1>1. \A i \in 1 .. 19 : All[i] \in Catalog
  BY AllIs, CatalogIs, PenaltiesAre
<1>2. ASSUME NEW rule \in Catalog PROVE \E i \in 1 .. 19 : All[i] = rule
  <2>1. CASE rule \in Penalties[2]
    BY <2>1, AllIs, PenaltiesAre
  <2>2. CASE rule \in Penalties[3] \cup Penalties[5]
    BY <2>2, AllIs, PenaltiesAre
  <2>3. CASE rule \in Penalties[10] \cup Penalties[15]
    BY <2>3, AllIs, PenaltiesAre
  <2> QED BY <2>1, <2>2, <2>3, CatalogIs
<1>3. \A i, j \in 1 .. 19 : All[i] = All[j] => i = j
  <2> DEFINE place ==
        [r \in {All[i] : i \in 1 .. 19} |->
            CASE r = "RULE-TLS-001" -> 1
              [] r = "RULE-CIPHER-001" -> 2
              [] r = "RULE-REVOC-001" -> 3
              [] r = "RULE-PLAINTEXT-001" -> 4
              [] r = "RULE-STARTTLS-002" -> 5
              [] r = "RULE-CERT-001" -> 6
              [] r = "RULE-CERT-003" -> 7
              [] r = "RULE-TRUST-001" -> 8
              [] r = "RULE-CIPHER-002" -> 9
              [] r = "RULE-CERT-004" -> 10
              [] r = "RULE-KEX-002" -> 11
              [] r = "RULE-TLS-002" -> 12
              [] r = "RULE-CIPHER-003" -> 13
              [] r = "RULE-CIPHER-004" -> 14
              [] r = "RULE-CIPHER-UNKNOWN" -> 15
              [] r = "RULE-KEX-001" -> 16
              [] r = "RULE-CERT-002" -> 17
              [] r = "RULE-PKI-001" -> 18
              [] r = "RULE-IDENTITY-001" -> 19]
  <2>1. \A i \in 1 .. 19 : place[All[i]] = i
    BY AllIs
  <2> QED BY <2>1
<1> QED BY <1>1, <1>2, <1>3

\* A session that breaks every rule of the catalog is charged 100: the score is never cut
\* off at 0 (calculate_score).
LEMMA CatalogCosts ==
    /\ IsFiniteSet(Catalog) /\ Costs \in [Catalog -> Nat]
    /\ \A h : IsSum(h, Costs, Catalog) => h[Catalog] = 100
<1>1. Costs \in [Catalog -> Nat]
  BY PenaltyIs DEF Costs
<1>2. IsFiniteSet(Catalog)
  <2>1. [i \in 1 .. 19 |-> All[i]] \in Surjection(1 .. 19, Catalog)
    BY AllOfCatalog DEF Surjection
  <2>2. PICK f \in Surjection(1 .. 19, Catalog) : TRUE
    BY <2>1
  <2>3. \A n \in Nat : IsFiniteSet(1 .. n)
    BY FS_Interval
  <2>4. IsFiniteSet(1 .. 19)
    BY <2>3
  <2> QED BY <2>2, <2>4, FS_Surjection
<1>3. ASSUME NEW h, IsSum(h, Costs, Catalog) PROVE h[Catalog] = 100
  <2> DEFINE T(k) == {All[i] : i \in 1 .. k}
  <2>1. ASSUME NEW k \in 1 .. 19
        PROVE  h[T(k)] = Costs[All[k]] + h[T(k - 1)]
    <3>1. T(k) \in SUBSET Catalog /\ All[k] \in T(k)
      BY AllOfCatalog
    <3>2. T(k) \ {All[k]} = T(k - 1)
      <4>1. \A i \in 1 .. k : All[i] = All[k] => i = k
        BY AllOfCatalog
      <4>2. \A i : i \in 1 .. k - 1 <=> i \in 1 .. k /\ i # k
        OBVIOUS
      <4> QED BY <4>1, <4>2
    <3> HIDE DEF T
    <3> QED BY <1>1, <1>2, <1>3, <3>1, <3>2, SumTakes
  <2>2. T(19) = Catalog
    BY AllOfCatalog
  <2>3. h[T(0)] = 0
    <3>1. T(0) = {}
      OBVIOUS
    <3>2. h[{}] = 0
      BY <1>3 DEF IsSum
    <3> QED BY <3>1, <3>2
  <2>4. \A cost \in {2, 3, 5, 10, 15} : \A rule \in Penalties[cost] : Costs[rule] = cost
    BY PenaltyIs, CatalogIs DEF Costs
  <2>5. /\ \A i \in 1 .. 2 : Costs[All[i]] = 15
        /\ \A i \in 3 .. 5 : Costs[All[i]] = 10
        /\ \A i \in 6 .. 8 : Costs[All[i]] = 5
        /\ \A i \in 9 .. 11 : Costs[All[i]] = 3
        /\ \A i \in 12 .. 19 : Costs[All[i]] = 2
    <3>1. \A i \in 1 .. 2 : Costs[All[i]] = 15
      BY <2>4, AllIs, PenaltiesAre
    <3>2. \A i \in 3 .. 5 : Costs[All[i]] = 10
      BY <2>4, AllIs, PenaltiesAre
    <3>3. \A i \in 6 .. 8 : Costs[All[i]] = 5
      BY <2>4, AllIs, PenaltiesAre
    <3>4. \A i \in 9 .. 11 : Costs[All[i]] = 3
      BY <2>4, AllIs, PenaltiesAre
    <3>5. \A i \in 12 .. 19 : Costs[All[i]] = 2
      BY <2>4, AllIs, PenaltiesAre
    <3> QED BY <3>1, <3>2, <3>3, <3>4, <3>5
  <2> HIDE DEF T
  <2>6. h[T(19)] = 100
    <3>1. h[T(1)] = 15
      BY <2>1, <2>5, <2>3
    <3>2. h[T(2)] = 30
      BY <2>1, <2>5, <3>1
    <3>3. h[T(3)] = 40
      BY <2>1, <2>5, <3>2
    <3>4. h[T(4)] = 50
      BY <2>1, <2>5, <3>3
    <3>5. h[T(5)] = 60
      BY <2>1, <2>5, <3>4
    <3>6. h[T(6)] = 65
      BY <2>1, <2>5, <3>5
    <3>7. h[T(7)] = 70
      BY <2>1, <2>5, <3>6
    <3>8. h[T(8)] = 75
      BY <2>1, <2>5, <3>7
    <3>9. h[T(9)] = 78
      BY <2>1, <2>5, <3>8
    <3>10. h[T(10)] = 81
      BY <2>1, <2>5, <3>9
    <3>11. h[T(11)] = 84
      BY <2>1, <2>5, <3>10
    <3>12. h[T(12)] = 86
      BY <2>1, <2>5, <3>11
    <3>13. h[T(13)] = 88
      BY <2>1, <2>5, <3>12
    <3>14. h[T(14)] = 90
      BY <2>1, <2>5, <3>13
    <3>15. h[T(15)] = 92
      BY <2>1, <2>5, <3>14
    <3>16. h[T(16)] = 94
      BY <2>1, <2>5, <3>15
    <3>17. h[T(17)] = 96
      BY <2>1, <2>5, <3>16
    <3>18. h[T(18)] = 98
      BY <2>1, <2>5, <3>17
    <3>19. h[T(19)] = 100
      BY <2>1, <2>5, <3>18
    <3> QED BY <3>19
  <2> QED BY <2>2, <2>6
<1> QED BY <1>1, <1>2, <1>3

\* The rules broken in any set of findings, and their deductions: each once, with the
\* stream it is charged to.
BrokenIn(findings) == UNION {Broken(findings[n]) : n \in DOMAIN findings}

\* What the deductions cost together, and what the rules do.
Charge(deductions) == MapThenSumSet(LAMBDA d : Penalty(d.rule), deductions)
Total(rules) == MapThenSumSet(Penalty, rules)

\* Deductions for different rules cost what the rules cost.
LEMMA SumOfBroken ==
    ASSUME NEW B \in SUBSET Catalog, NEW D, NEW at, D = {[rule |-> r, stream |-> at[r]] : r \in B}
    PROVE  /\ Charge(D) = Total(B)
           /\ Total(B) \in 0 .. 100
<1> DEFINE w == [d \in D |-> Penalty(d.rule)]
<1> DEFINE v == [r \in B |-> Penalty(r)]
<1>1. /\ IsFiniteSet(B) /\ v \in [B -> Nat]
      /\ \A d \in D : d.rule \in B
  BY CatalogCosts, FS_Subset, PenaltyIs
<1>2. w \in [D -> Nat]
  <2>1. \A d \in D : Penalty(d.rule) \in Nat
    BY <1>1, PenaltyIs
  <2> QED BY <2>1
<1>3. IsFiniteSet(D)
  <2>1. [r \in B |-> [rule |-> r, stream |-> at[r]]] \in Surjection(B, D)
    BY DEF Surjection
  <2> QED BY <1>1, <2>1, FS_Surjection
<1>4. PICK h : IsSum(h, w, D) /\ Charge(D) = h[D]
  <2> DEFINE Is(h) == h = [T \in SUBSET D |->
                             IF T = {} THEN 0
                             ELSE Penalty((CHOOSE x \in T : TRUE).rule)
                                    + h[T \ {CHOOSE x \in T : TRUE}]]
  <2>1. \A h : Is(h) <=> IsSum(h, w, D)
    <3>1. \A T \in SUBSET D : T # {} =>
              w[CHOOSE x \in T : TRUE] = Penalty((CHOOSE x \in T : TRUE).rule)
      OBVIOUS
    <3> QED BY <3>1 DEF IsSum, Some
  <2>2. \E h : Is(h)
    <3> HIDE DEF Is, w
    <3> QED BY <1>3, <2>1, SumExists
  <2>3. Charge(D) = (CHOOSE h : Is(h))[D]
    BY DEF Charge, MapThenSumSet, MapThenFoldSet
  <2> HIDE DEF Is
  <2> QED BY <2>1, <2>2, <2>3
<1>5. PICK g : IsSum(g, v, B) /\ Total(B) = g[B]
  <2> DEFINE Is(f) == f = [T \in SUBSET B |->
                             IF T = {} THEN 0
                             ELSE Penalty(CHOOSE x \in T : TRUE)
                                    + f[T \ {CHOOSE x \in T : TRUE}]]
  <2>1. \A f : Is(f) <=> IsSum(f, v, B)
    <3>1. \A T \in SUBSET B : T # {} =>
              v[CHOOSE x \in T : TRUE] = Penalty(CHOOSE x \in T : TRUE)
      OBVIOUS
    <3> QED BY <3>1 DEF IsSum, Some
  <2>2. \E f : Is(f)
    <3> HIDE DEF Is, v
    <3> QED BY <1>1, <2>1, SumExists
  <2>3. Total(B) = (CHOOSE f : Is(f))[B]
    BY DEF Total, MapThenSumSet, MapThenFoldSet
  <2> HIDE DEF Is
  <2> QED BY <2>1, <2>2, <2>3
<1>6. g[B] = h[D]
  <2> DEFINE b == [r \in B |-> [rule |-> r, stream |-> at[r]]]
  <2>1. D = Image(b, B)
    BY DEF Image
  <2>2. Corresponds(b, v, B, w, D)
    BY DEF Corresponds
  <2> HIDE DEF b, v, w
  <2>3. IsSum(h, w, D) /\ IsSum(g, v, B) /\ v \in [B -> Nat] /\ w \in [D -> Nat]
    BY <1>1, <1>2, <1>4, <1>5
  <2>4. IsFiniteSet(B) /\ IsFiniteSet(D)
    BY <1>1, <1>3
  <2>5. g[B] = h[Image(b, B)]
    BY <2>1, <2>2, <2>3, <2>4, SumsMatch
  <2> QED BY <2>1, <2>5
<1>7. g[B] \in 0 .. 100
  <2>1. PICK c : IsSum(c, Costs, Catalog)
    BY CatalogCosts, SumExists
  <2> DEFINE b == [r \in B |-> r]
  <2>2. B = Image(b, B) /\ Corresponds(b, v, B, Costs, Catalog)
    BY DEF Costs, Corresponds, Image
  <2> HIDE DEF b, v
  <2>3. g[B] = c[Image(b, B)]
    BY <1>1, <1>5, <2>1, <2>2, SumsMatch, CatalogCosts
  <2>4. c[B] = g[B] /\ c[B] \in Nat
    BY <2>1, <2>2, <2>3, SumTakes, CatalogCosts
  <2>5. c[B] <= c[Catalog]
    <3> DEFINE Bad == {T \in SUBSET Catalog : ~(c[T] \in Nat /\ \A U \in SUBSET T : c[U] <= c[T])}
    <3>1. ASSUME NEW T \in SUBSET Catalog, \A U \in SUBSET T : U # T => U \notin Bad
          PROVE  T \notin Bad
      <4>1. c[T] \in Nat
        BY <2>1, SumTakes, CatalogCosts
      <4>2. ASSUME NEW U \in SUBSET T PROVE c[U] <= c[T]
        <5>1. CASE U = T
          BY <4>1, <5>1
        <5>2. CASE U # T
          <6>1. PICK x \in T : x \notin U
            BY <5>2
          <6>2. c[T] = Costs[x] + c[T \ {x}]
            BY <2>1, SumTakes, CatalogCosts
          <6>3. T \ {x} \in SUBSET T /\ T \ {x} # T /\ U \in SUBSET (T \ {x})
            BY <6>1
          <6>4. T \ {x} \notin Bad
            BY <3>1, <6>3
          <6>5. c[U] <= c[T \ {x}] /\ c[T \ {x}] \in Nat
            BY <6>3, <6>4
          <6>6. Costs[x] \in Nat
            BY CatalogCosts
          <6>7. c[U] \in Nat
            BY <2>1, SumTakes, CatalogCosts
          <6> QED BY <6>2, <6>5, <6>6, <6>7
        <5> QED BY <5>1, <5>2
      <4> QED BY <4>1, <4>2
    <3>2. Bad = {}
      <4> SUFFICES ASSUME Bad # {} PROVE FALSE
        OBVIOUS
      <4>1. Bad \in SUBSET SUBSET Catalog
        OBVIOUS
      <4> HIDE DEF Bad
      <4>2. PICK T \in Bad : \A U \in SUBSET T : U # T => U \notin Bad
        BY <4>1, LeastSubset, CatalogCosts
      <4> QED BY <3>1, <4>1, <4>2
    <3>3. Catalog \notin Bad
      BY <3>2
    <3> QED BY <3>3
  <2>6. c[Catalog] = 100
    BY <2>1, CatalogCosts
  <2> QED BY <2>4, <2>5, <2>6
<1> QED BY <1>4, <1>5, <1>6, <1>7

\* The greatest element of a set of numbers that has an upper bound.
LEMMA MaxOfBounded ==
    ASSUME NEW S \in SUBSET Nat, S # {}, NEW n \in Nat, \A x \in S : x <= n
    PROVE  Max(S) \in S /\ \A y \in S : y <= Max(S)
<1> DEFINE T == {n - x : x \in S}
<1>1. T \in SUBSET Nat /\ T # {}
  <2>1. \A x \in S : n - x \in Nat
    OBVIOUS
  <2> QED BY <2>1
<1>2. PICK m \in T : \A y \in T : m <= y
  BY <1>1, MinOfNats
<1>3. PICK x \in S : m = n - x
  BY <1>2
<1>4. \A y \in S : y <= x
  <2> SUFFICES ASSUME NEW y \in S PROVE y <= x
    OBVIOUS
  <2>1. n - x <= n - y
    BY <1>2, <1>3
  <2> QED BY <2>1
<1> QED BY <1>4 DEF Max

\* The severities are ranked 1 to 4.
LEMMA SeveritiesRank ==
    /\ \A k \in 1 .. 4 : Rank(Severities[k]) = k
    /\ \A score : score \in Nat => Rank(CalculateSeverity(score)) \in 1 .. 4
    /\ \A rule \in Catalog : Rank(SeverityOf(rule)) \in 1 .. 4
<1>1. /\ Severities[1] = "LOW" /\ Severities[2] = "MEDIUM"
      /\ Severities[3] = "HIGH" /\ Severities[4] = "CRITICAL"
  BY DEF Severities
<1>2. ASSUME NEW k \in 1 .. 4 PROVE Rank(Severities[k]) = k
  <2>1. \A i \in 1 .. 4 : Severities[i] = Severities[k] <=> i = k
    BY <1>1
  <2> QED BY <2>1 DEF Rank
<1>3. \A s \in {"LOW", "MEDIUM", "HIGH", "CRITICAL"} : Rank(s) \in 1 .. 4
  BY <1>1, <1>2
<1>4. \A score \in Nat : CalculateSeverity(score) \in {"LOW", "MEDIUM", "HIGH", "CRITICAL"}
  BY DEF CalculateSeverity
<1>5. \A rule \in Catalog : SeverityOf(rule) \in {"LOW", "MEDIUM", "HIGH", "CRITICAL"}
  BY DEF SeverityOf
<1> QED BY <1>2, <1>3, <1>4, <1>5

\* The loop over the findings of all streams, by the deductions after each stream.
Charging == INSTANCE FoldFacts WITH Op <- ChargeStream

Streams(F) == [i \in DOMAIN F |-> [stream |-> i, findings |-> F[i]]]
After(F, k) == Charging!Step({}, Streams(F), Len(F), k)

\* A step of it.
LEMMA ChargingStep ==
    ASSUME NEW list, NEW n \in Nat, NEW k \in 1 .. n
    PROVE  Charging!Step({}, list, n, k)
             = ChargeStream(Charging!Step({}, list, n, k - 1), list[k])
  BY Charging!FoldSteps

\* The findings of a number of streams, all of known rules.
AreFindings(F) ==
    /\ Len(F) \in Nat /\ DOMAIN F = 1 .. Len(F)
    /\ \A n \in DOMAIN F : \A f \in F[n] : Sound(f)

\* It begins with no deduction, and charges one stream after the other.
LEMMA ChargingSteps ==
    ASSUME NEW F, AreFindings(F)
    PROVE  /\ After(F, 0) = {}
           /\ \A k \in 1 .. Len(F) :
                 After(F, k) = ChargeStream(After(F, k - 1), [stream |-> k, findings |-> F[k]])
           /\ Deductions(F) = After(F, Len(F))
<1> DEFINE n == Len(F)
<1> DEFINE list == Streams(F)
<1>1. n \in Nat /\ DOMAIN list = 1 .. n
      /\ \A k \in 1 .. n : list[k] = [stream |-> k, findings |-> F[k]]
  BY DEF Streams, AreFindings
<1>2. Deductions(F) = FoldLeft(ChargeStream, {}, list)
  BY DEF Deductions, Streams
<1>3. \A k : After(F, k) = Charging!Step({}, list, n, k)
  BY DEF After
<1> HIDE DEF n, list
<1>4. FoldLeft(ChargeStream, {}, list) = Charging!Step({}, list, n, n)
  BY <1>1 DEF FoldLeft, MapThenFoldSet, Max, Charging!Step, Charging!IsIter, Charging!Max
<1>5. Charging!Step({}, list, n, 0) = {}
  BY <1>1, Charging!FoldSteps
<1>6. \A k \in 1 .. n : Charging!Step({}, list, n, k)
                            = ChargeStream(Charging!Step({}, list, n, k - 1), list[k])
  BY <1>1, ChargingStep
<1> QED BY <1>1, <1>2, <1>3, <1>4, <1>5, <1>6 DEF n

\* The rules that fail in the first k sets of findings.
FailingUpTo(F, k) == UNION {Failing(F[n]) : n \in 1 .. k}

\* Deductions, one for each rule of a set, each for some stream.
OneEach(D, rules) == \E at : D = {[rule |-> r, stream |-> at[r]] : r \in rules}

\* A stream adds deductions for its rules that were not charged before, so that there is
\* one for each rule still.
LEMMA ChargesOnce ==
    ASSUME NEW D, NEW rules, OneEach(D, rules), NEW i, NEW findings
    PROVE  OneEach(ChargeStream(D, [stream |-> i, findings |-> findings]),
                   rules \cup Failing(findings))
<1>1. PICK at : D = {[rule |-> r, stream |-> at[r]] : r \in rules}
  BY DEF OneEach
<1> DEFINE fresh == Failing(findings) \ rules
<1> DEFINE all == rules \cup Failing(findings)
<1> DEFINE place == [r \in all |-> IF r \in rules THEN at[r] ELSE i]
<1>2. {d.rule : d \in D} = rules
  <2>1. \A d \in D : d.rule \in rules
    BY <1>1
  <2>2. ASSUME NEW r \in rules PROVE \E d \in D : d.rule = r
    <3>1. [rule |-> r, stream |-> at[r]] \in D
      BY <1>1
    <3> QED BY <3>1
  <2> QED BY <2>1, <2>2
<1> DEFINE added == {[rule |-> r, stream |-> i] : r \in fresh}
<1>3. ChargeStream(D, [stream |-> i, findings |-> findings]) = D \cup added
  BY <1>2 DEF ChargeStream
<1>4. D = {[rule |-> r, stream |-> place[r]] : r \in rules}
  BY <1>1
<1>5. added = {[rule |-> r, stream |-> place[r]] : r \in fresh}
  OBVIOUS
<1>6. all = rules \cup fresh
  OBVIOUS
<1> HIDE DEF added, place, fresh, all
<1>7. D \cup added = {[rule |-> r, stream |-> place[r]] : r \in all}
  BY <1>4, <1>5, <1>6
<1> QED BY <1>3, <1>7 DEF OneEach, all

\* The deductions are one for each broken rule, whichever streams break it.
LEMMA DeductionsAre ==
    ASSUME NEW F, AreFindings(F)
    PROVE  /\ BrokenIn(F) \in SUBSET Catalog
           /\ OneEach(Deductions(F), BrokenIn(F))
<1>0. Len(F) \in Nat /\ DOMAIN F = 1 .. Len(F)
  BY DEF AreFindings
<1>1. \A n \in DOMAIN F : Failing(F[n]) = Broken(F[n])
  BY DEF AreFindings, Failing, Broken, Fails, Sound
<1>2. BrokenIn(F) = FailingUpTo(F, Len(F))
  BY <1>0, <1>1 DEF BrokenIn, FailingUpTo
<1>3. BrokenIn(F) \in SUBSET Catalog
  BY <1>1 DEF BrokenIn, Failing, Fails
<1> DEFINE Right == {k \in 0 .. Len(F) : OneEach(After(F, k), FailingUpTo(F, k))}
<1>4. 0 \in Right
  <2>1. FailingUpTo(F, 0) = {}
    BY DEF FailingUpTo
  <2>2. OneEach({}, {})
    <3>1. {} = {[rule |-> r, stream |-> [q \in {} |-> 0][r]] : r \in {}}
      OBVIOUS
    <3> QED BY <3>1 DEF OneEach
  <2>3. After(F, 0) = {}
    BY ChargingSteps
  <2>4. 0 \in 0 .. Len(F)
    BY <1>0
  <2> QED BY <2>1, <2>2, <2>3, <2>4
<1>5. ASSUME NEW k \in 1 .. Len(F), k - 1 \in Right PROVE k \in Right
  <2>1. OneEach(After(F, k - 1), FailingUpTo(F, k - 1))
    BY <1>5
  <2>2. After(F, k) = ChargeStream(After(F, k - 1), [stream |-> k, findings |-> F[k]])
    BY ChargingSteps
  <2>3. FailingUpTo(F, k) = FailingUpTo(F, k - 1) \cup Failing(F[k])
    <3>1. 1 .. k = (1 .. (k - 1)) \cup {k}
      OBVIOUS
    <3> QED BY <3>1 DEF FailingUpTo
  <2>4. OneEach(After(F, k), FailingUpTo(F, k))
    BY <2>1, <2>2, <2>3, ChargesOnce
  <2>5. k \in 0 .. Len(F)
    BY <1>0
  <2> QED BY <2>4, <2>5
<1>6. 0 .. Len(F) \subseteq Right
  <2> HIDE DEF Right
  <2> QED BY <1>0, <1>4, <1>5, Charging!UpTo
<1>7. OneEach(After(F, Len(F)), FailingUpTo(F, Len(F)))
  BY <1>0, <1>6
<1> QED BY <1>2, <1>3, <1>7, ChargingSteps

\* What is charged for findings of known rules.
LEMMA ChargedOnce ==
    ASSUME NEW F, AreFindings(F)
    PROVE  /\ EvaluatePosture(F).posture_score = 100 - Total(BrokenIn(F))
           /\ \A rule \in BrokenIn(F) :
                 Rank(SeverityOf(rule)) <= Rank(EvaluatePosture(F).severity)
<1>1. BrokenIn(F) \in SUBSET Catalog
  BY DeductionsAre
<1>2. PICK at : Deductions(F) = {[rule |-> r, stream |-> at[r]] : r \in BrokenIn(F)}
  BY DeductionsAre DEF OneEach
<1> DEFINE D == Deductions(F)
<1> DEFINE cost == Charge(D)
<1>3. cost = Total(BrokenIn(F)) /\ cost \in 0 .. 100
  BY <1>1, <1>2, SumOfBroken
<1> DEFINE score == Max({0, 100 - cost})
<1>4. EvaluatePosture(F).posture_score = score
      /\ EvaluatePosture(F).severity = CanonicalSeverity(score, D)
  BY DEF EvaluatePosture, Charge
<1> HIDE DEF cost
<1>5. score = 100 - cost /\ score \in Nat
  <2> DEFINE S == {0, 100 - cost}
  <2>1. S \in SUBSET Nat /\ \A x \in S : x <= 100
    BY <1>3
  <2>2. 0 \in S /\ 100 - cost \in S
    OBVIOUS
  <2>3. Max(S) \in S /\ \A y \in S : y <= Max(S)
    <3> HIDE DEF S
    <3> QED BY <2>1, <2>2, MaxOfBounded
  <2>4. 100 - cost <= Max(S) /\ 0 <= Max(S) /\ (Max(S) = 0 \/ Max(S) = 100 - cost)
    BY <2>2, <2>3
  <2>5. 100 - cost \in Nat
    BY <1>3
  <2> QED BY <2>4, <2>5
<1> HIDE DEF score
<1>6. ASSUME NEW rule \in BrokenIn(F)
      PROVE  Rank(SeverityOf(rule)) <= Rank(CanonicalSeverity(score, D))
  <2> DEFINE ranks == {Rank(CalculateSeverity(score))} \cup {Rank(SeverityOf(d.rule)) : d \in D}
  <2>1. \A d \in D : d.rule \in Catalog
    BY <1>1, <1>2
  <2>2. ranks \in SUBSET (1 .. 4) /\ ranks # {}
    BY <1>5, <2>1, SeveritiesRank
  <2>3. Rank(SeverityOf(rule)) \in ranks
    <3>1. [rule |-> rule, stream |-> at[rule]] \in D
      BY <1>2
    <3> QED BY <3>1
  <2>4. CanonicalSeverity(score, D) = Severities[Max(ranks)]
    BY DEF CanonicalSeverity
  <2> HIDE DEF ranks
  <2>5. Max(ranks) \in ranks /\ \A y \in ranks : y <= Max(ranks)
    <3>1. ranks \in SUBSET Nat /\ \A x \in ranks : x <= 4
      BY <2>2
    <3> QED BY <2>2, <3>1, MaxOfBounded
  <2>6. Rank(Severities[Max(ranks)]) = Max(ranks)
    BY <2>2, <2>5, SeveritiesRank
  <2> QED BY <2>3, <2>4, <2>5, <2>6
<1> QED BY <1>3, <1>4, <1>5, <1>6

\* Threats are of what is broken, and what is broken has one, but for the rules above.
LEMMA ThreatsAre ==
    ASSUME NEW F, \A f \in F : Sound(f)
    PROVE  /\ {t.cause.rule : t \in Threats(MapSession(F))} \subseteq Broken(F)
           /\ Broken(F) \ Unmapped \subseteq {t.cause.rule : t \in Threats(MapSession(F))}
<1> DEFINE threatened == {t.cause.rule : t \in Threats(MapSession(F))}
<1>1. ASSUME NEW t \in Threats(MapSession(F)) PROVE t.cause.rule \in Broken(F)
  <2>1. PICK w \in MapSession(F) : \E r \in RulesForUpstream(w.rule) :
                                       t = [threat |-> r, cause |-> w]
    BY DEF Threats
  <2>2. t.cause = w
    BY <2>1
  <2>3. w \in F /\ w.status = "NON_COMPLIANT"
    BY <2>1 DEF MapSession
  <2> QED BY <2>2, <2>3 DEF Broken
<1>2. ASSUME NEW rule \in Broken(F) \ Unmapped PROVE rule \in threatened
  <2>1. PICK f \in F : f.status = "NON_COMPLIANT" /\ f.rule = rule
    BY DEF Broken
  <2>2. f \in MapSession(F)
    BY <1>2, <2>1 DEF MapSession, Sound
  <2>3. PICK r : r \in RulesForUpstream(rule)
    BY <1>2, <2>1 DEF Sound
  <2>4. [threat |-> r, cause |-> f] \in Threats(MapSession(F))
    BY <2>1, <2>2, <2>3 DEF Threats
  <2>5. [threat |-> r, cause |-> f].cause.rule = rule
    BY <2>1
  <2> QED BY <2>4, <2>5
<1> QED BY <1>1, <1>2
-------------------------------------------------------------------------------
\* Each set of findings has its threats, and the report is of all findings.
ChargesFit ==
    /\ threats = [n \in DOMAIN found |-> Threats(MapSession(found[n]))]
    /\ phase # "reported" => report = NotApplicable
    /\ phase = "reported" => report \in {NotApplicable, EvaluatePosture(found)}

\* Threats and report are those of the findings, at any time.
LEMMA ChargesHold == Spec => []ChargesFit
<1>1. Init => ChargesFit
  BY DEF Init, ChargesFit
<1>2. SummaryInv /\ ChargesFit /\ [Next]_reportVars => ChargesFit'
  <2> SUFFICES ASSUME SummaryInv, ChargesFit, [Next]_reportVars PROVE ChargesFit'
    OBVIOUS
  <2>1. CASE UNCHANGED reportVars
    BY <2>1 DEF ChargesFit, reportVars
  <2>2. ASSUME NEW s \in Captures, Capture(s) PROVE ChargesFit'
    BY <2>2 DEF ChargesFit, Capture
  <2>3. CASE ClassifyStreams
    <3>1. UNCHANGED <<found, threats, report>> /\ phase = "capturing"
          /\ phase' \in {"reported", "analysing"}
      BY <2>3 DEF ClassifyStreams
    <3> QED BY <3>1 DEF ChargesFit
  <2>4. ASSUME NEW i \in DOMAIN streams, AnalyseStream(i) PROVE ChargesFit'
    <3> DEFINE verdict == EvaluateSession(Evidence(streams[i], classified[i]), Now)
    <3> DEFINE threat == Threats(MapSession(found'[Len(found')]))
    <3>1. /\ phase = "analysing" /\ phase' = phase /\ report' = report
          /\ found' = Append(found, verdict) /\ threats' = Append(threats, threat)
      BY <2>4 DEF AnalyseStream
    <3>2. found \in Seq(Verdicts)
      BY DEF SummaryInv, OrderOK
    <3>3. /\ Len(found) \in Nat /\ DOMAIN found = 1 .. Len(found)
          /\ DOMAIN found' = 1 .. Len(found) + 1 /\ Len(found') = Len(found) + 1
          /\ \A n \in DOMAIN found : found'[n] = found[n]
      BY <3>1, <3>2
    <3> HIDE DEF verdict, threat
    <3>4. PICK X : threats \in Seq(X) /\ threat \in X /\ Len(threats) = Len(found)
      <4> DEFINE X == {Threats(MapSession(v)) : v \in Verdicts} \cup {threat}
      <4>1. threats \in [1 .. Len(found) -> X]
        BY <3>2, <3>3 DEF ChargesFit
      <4> HIDE DEF X
      <4>2. threats \in Seq(X) /\ Len(threats) = Len(found)
        BY <3>3, <4>1
      <4>3. threat \in X
        BY DEF X
      <4> QED BY <4>2, <4>3
    <3>5. threats' = [n \in 1 .. Len(found) + 1 |->
                        IF n \in DOMAIN found THEN threats[n] ELSE threat]
      <4>1. /\ threats' \in Seq(X) /\ Len(threats') = Len(found) + 1
            /\ threats'[Len(found) + 1] = threat
            /\ \A n \in 1 .. Len(found) : threats'[n] = threats[n]
        BY <3>1, <3>4
      <4>2. threats' = [n \in 1 .. Len(found) + 1 |-> threats'[n]]
        BY <4>1
      <4>3. \A n \in 1 .. Len(found) + 1 :
                threats'[n] = IF n \in DOMAIN found THEN threats[n] ELSE threat
        BY <3>3, <4>1
      <4> QED BY <4>2, <4>3
    <3>6. threats' = [n \in DOMAIN found' |-> Threats(MapSession(found'[n]))]
      <4>1. \A n \in DOMAIN found : threats[n] = Threats(MapSession(found'[n]))
        BY <3>3 DEF ChargesFit
      <4>2. \A n \in 1 .. Len(found) + 1 : n \notin DOMAIN found => n = Len(found')
        BY <3>3
      <4> QED BY <3>3, <3>5, <4>1, <4>2 DEF threat
    <3> QED BY <3>1, <3>6 DEF ChargesFit
  <2>5. CASE Conclude
    BY <2>5 DEF ChargesFit, Conclude
  <2> QED BY <2>1, <2>2, <2>3, <2>4, <2>5 DEF Next
<1> QED BY <1>1, <1>2, SummaryHolds, PTL DEF Spec

\* Whatever the streams of a capture break, and however many of them break the same rule,
\* the loop over all findings charges each broken rule once: the score is 100 less what
\* they cost, never cut off at 0, and the severity is no lower than any of theirs.  Threats
\* are of broken rules only, and each broken rule has one, except for two that have no
\* weakness, and for RULE-TLS-002, whose pattern misses it.
THEOREM FaultsAreChargedOnce == Spec => []EachFaultIsChargedOnce
<1>1. SummaryInv /\ ChargesFit => EachFaultIsChargedOnce
  <2> DEFINE mapped == UNION {{t.cause.rule : t \in threats[n]} : n \in DOMAIN threats}
  <2> SUFFICES ASSUME SummaryInv, ChargesFit, phase = "reported", report.applicable
               PROVE  /\ report.posture_score = 100 - Total(BrokenIn(found))
                      /\ \A rule \in BrokenIn(found) :
                            Rank(SeverityOf(rule)) <= Rank(report.severity)
                      /\ mapped \subseteq BrokenIn(found)
                      /\ BrokenIn(found) \ Unmapped \subseteq mapped
    BY DEF EachFaultIsChargedOnce, BrokenIn, Unmapped, Total
  <2>1. report = EvaluatePosture(found)
    BY DEF ChargesFit, NotApplicable
  <2>2. \A n \in DOMAIN found : \A f \in found[n] : Sound(f)
    <3>1. \A n \in DOMAIN found : found[n] \in Verdicts
      BY DEF SummaryInv, OrderOK
    <3> QED BY <3>1, VerdictsSound
  <2>3. Len(found) \in Nat /\ DOMAIN found = 1 .. Len(found)
    <3>1. found \in Seq(Verdicts)
      BY DEF SummaryInv, OrderOK
    <3> QED BY <3>1
  <2>4. /\ report.posture_score = 100 - Total(BrokenIn(found))
        /\ \A rule \in BrokenIn(found) : Rank(SeverityOf(rule)) <= Rank(report.severity)
    <3>1. AreFindings(found)
      BY <2>2, <2>3 DEF AreFindings
    <3> QED BY <2>1, <3>1, ChargedOnce
  <2>5. DOMAIN threats = DOMAIN found
        /\ \A n \in DOMAIN found : threats[n] = Threats(MapSession(found[n]))
    BY DEF ChargesFit
  <2>6. \A n \in DOMAIN found :
            /\ {t.cause.rule : t \in threats[n]} \subseteq Broken(found[n])
            /\ Broken(found[n]) \ Unmapped \subseteq {t.cause.rule : t \in threats[n]}
    BY <2>2, <2>5, ThreatsAre
  <2>7. mapped \subseteq BrokenIn(found) /\ BrokenIn(found) \ Unmapped \subseteq mapped
    BY <2>5, <2>6 DEF BrokenIn
  <2> QED BY <2>4, <2>7
<1> QED BY <1>1, SummaryHolds, ChargesHold, PTL
================================================================================
