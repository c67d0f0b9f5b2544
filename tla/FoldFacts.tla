------------------------------- MODULE FoldFacts -------------------------------
(***************************************************************************)
(* What FoldLeft of the community modules computes, for any operator: the  *)
(* last of the accumulators one gets by applying it to one element after   *)
(* the other.  A module that folds an operator of its own instantiates     *)
(* this one with that operator for Op.                                     *)
(***************************************************************************)
EXTENDS Integers, Sequences, SequencesExt, WellFoundedInduction, TLAPS

CONSTANT Op(_, _)

\* A set that holds 0 and, up to n, the successor of each of its elements, holds 0..n.
LEMMA UpTo ==
    ASSUME NEW n \in Nat, NEW T, 0 \in T, \A i \in 1..n : i - 1 \in T => i \in T
    PROVE  0..n \subseteq T
<1> SUFFICES ASSUME 0..n \ T # {} PROVE FALSE
  OBVIOUS
<1> DEFINE R == OpToRel(<, Nat)
<1>1. \A i, j \in Nat : i < j => <<i, j>> \in R
  BY DEF OpToRel
<1>2. IsWellFoundedOn(R, Nat)
  BY NatLessThanWellFounded
<1>3. 0..n \ T \subseteq Nat
  OBVIOUS
<1> HIDE DEF R
<1>4. PICK x \in 0..n \ T : \A y \in 0..n \ T : ~(<<y, x>> \in R)
  BY <1>2, <1>3, WFMin
<1>5. x \in 1..n /\ x - 1 \in 0..n /\ <<x - 1, x>> \in R
  BY <1>1
<1>6. x - 1 \in T
  BY <1>4, <1>5
<1> QED BY <1>4, <1>5, <1>6

\* The greatest element of 1..n.
LEMMA MaxUpTo == ASSUME NEW n \in Nat \ {0} PROVE Max(1..n) = n
<1>1. /\ n \in 1..n /\ \A y \in 1..n : n >= y
      /\ \A x \in 1..n : (\A y \in 1..n : x >= y) => x = n
  OBVIOUS
<1> QED BY <1>1 DEF Max

\* h is the function by which FoldLeft is defined, over the subsets of 1..n.
IsIter(h, base, seq, n) ==
    h = [T \in SUBSET (1..n) |->
            IF T = {} THEN base ELSE Op(h[T \ {Max(T)}], seq[Max(T)])]

\* What Op makes of base and the first i elements of seq, which has n of them.
Step(base, seq, n, i) == (CHOOSE h : IsIter(h, base, seq, n))[1..i]

\* That function exists: over the subsets of 1..n it is made from
\* the one over the subsets of 1..n-1.
LEMMA IterExists ==
    ASSUME NEW seq, NEW base, NEW n \in Nat
    PROVE  \E h : IsIter(h, base, seq, n)
<1> DEFINE Good == {m \in 0..n : \E h : IsIter(h, base, seq, m)}
<1>1. 0 \in Good
  <2>1. SUBSET (1..0) = {{}}
    OBVIOUS
  <2>2. IsIter([T \in SUBSET (1..0) |-> base], base, seq, 0)
    BY <2>1 DEF IsIter
  <2> QED BY <2>2
<1>2. ASSUME NEW m \in 1..n, m - 1 \in Good PROVE m \in Good
  <2>1. PICK g : IsIter(g, base, seq, m - 1)
    BY <1>2
  <2> DEFINE h == [T \in SUBSET (1..m) |->
                    IF m \in T THEN Op(g[T \ {m}], seq[m]) ELSE g[T]]
  <2>5. SUFFICES IsIter(h, base, seq, m)
    BY <2>5
  <2> SUFFICES ASSUME NEW T \in SUBSET (1..m)
               PROVE  h[T] = IF T = {} THEN base ELSE Op(h[T \ {Max(T)}], seq[Max(T)])
    BY DEF IsIter
  <2>2. \A U \in SUBSET (1..(m-1)) : h[U] = g[U] /\ U \in SUBSET (1..m)
    OBVIOUS
  <2>3. CASE m \in T
    <3>1. Max(T) = m
      <4>1. /\ \A y \in T : m >= y
            /\ \A x \in T : (\A y \in T : x >= y) => x = m
        BY <2>3
      <4> QED BY <2>3, <4>1 DEF Max
    <3>2. T \ {m} \in SUBSET (1..(m-1))
      OBVIOUS
    <3> QED BY <2>2, <2>3, <3>1, <3>2
  <2>4. CASE m \notin T
    <3>1. T \in SUBSET (1..(m-1))
      BY <2>4
    <3>2. T \ {Max(T)} \in SUBSET (1..(m-1))
      BY <3>1
    <3>3. g[T] = IF T = {} THEN base ELSE Op(g[T \ {Max(T)}], seq[Max(T)])
      BY <2>1, <3>1 DEF IsIter
    <3> QED BY <2>2, <3>1, <3>2, <3>3
  <2> QED BY <2>3, <2>4
<1>3. 0..n \subseteq Good
  <2> HIDE DEF Good
  <2> QED BY <1>1, <1>2, UpTo
<1> QED BY <1>3

\* Step is Op applied step by step; and by its definition FoldLeft(Op, base, seq) is the
\* last step, which a module with an operator of its own shows of its own FoldLeft.
THEOREM FoldSteps ==
    ASSUME NEW base, NEW seq, NEW n \in Nat
    PROVE  /\ Step(base, seq, n, 0) = base
           /\ \A i \in 1..n : Step(base, seq, n, i) = Op(Step(base, seq, n, i - 1), seq[i])
<1> DEFINE it == CHOOSE h : IsIter(h, base, seq, n)
<1>1. \A i \in 0..n : Step(base, seq, n, i) = it[1..i]
  BY DEF Step
<1>2. IsIter(it, base, seq, n)
  BY IterExists
<1> HIDE DEF it
<1>3. Step(base, seq, n, 0) = base
  <2>1. 1..0 = {} /\ {} \in SUBSET (1..n)
    OBVIOUS
  <2>2. it[{}] = base
    BY <1>2, <2>1 DEF IsIter
  <2> QED BY <1>1, <2>1, <2>2
<1>4. ASSUME NEW i \in 1..n PROVE Step(base, seq, n, i) = Op(Step(base, seq, n, i-1), seq[i])
  <2>1. /\ (1..i) \ {i} = 1..(i-1)
        /\ 1..i # {} /\ 1..i \in SUBSET (1..n)
    <3>1. (1..i) \ {i} = 1..(i-1)
      OBVIOUS
    <3>2. i \in 1..i
      OBVIOUS
    <3>3. 1..i \in SUBSET (1..n)
      OBVIOUS
    <3> QED BY <3>1, <3>2, <3>3
  <2>2. Max(1..i) = i
    BY MaxUpTo
  <2>3. it[1..i] = Op(it[1..(i-1)], seq[i])
    BY <1>2, <2>1, <2>2 DEF IsIter
  <2> QED BY <1>1, <2>3
<1> QED BY <1>3, <1>4

\* FoldLeft is the last step.
LEMMA FoldLeftSteps ==
    ASSUME NEW base, NEW seq, NEW n, DOMAIN seq = 1..n
    PROVE  FoldLeft(Op, base, seq) = Step(base, seq, n, n)
  BY DEF FoldLeft, MapThenFoldSet, IsIter, Step
================================================================================
