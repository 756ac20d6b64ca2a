-------------------------- MODULE PerceptionProofs --------------------------
(***************************************************************************)
(* Proofs about the algorithms, first part: what both parts rest on, the   *)
(* tracker, the segmentation of a grid and the difference of two scenes.   *)
(*                                                                         *)
(* Functions of a sequence are folds or recursive functions over 0..n.     *)
(* The library's induction takes an operator for the predicate; here it    *)
(* is a set of numbers, and that a subset of 0..n without a least element  *)
(* is empty comes from the well-founded order of finite sets.  From it the *)
(* function behind a fold exists (FoldExists), so that what CHOOSE makes   *)
(* of its equation is known, and each algorithm has a lemma that reads it  *)
(* as a run: a value for 0, and one for k from that for k - 1.             *)
(*                                                                         *)
(* A flood is the least set that is closed under steps.  So a region is a  *)
(* closed set without a smaller one (IsRegion), which says everything the  *)
(* segmentation, the holes and the boxes of changes are asked about.       *)
(***************************************************************************)
EXTENDS MCAlgorithms, FiniteSetTheorems, SequenceTheorems, WellFoundedInduction, TLAPS

-----------------------------------------------------------------------------
(* A state is one input of one algorithm, and a step keeps the algorithm   *)

Shaped == case = [f \in DOMAIN case |-> case[f]] /\ "kind" \in DOMAIN case

\* The actions of a kind of input.
OfKind ==
    /\ case.kind = "grids" => Paint
    /\ case.kind = "track" => Track
    /\ case.kind = "program" => Edit
    /\ case.kind = "toy" => PlayToy
    /\ case.kind = "score" => Finish

\* Every input TLC starts from is of one kind.
LEMMA InitShaped ==
    ASSUME Init
    PROVE  /\ Shaped
           /\ case.kind = "grids" => case \in GridCase
           /\ case.kind = "track" => case \in TrackCase
           /\ case.kind = "program" => case \in ProgramCase
           /\ case.kind = "toy" => case \in ToyCase
           /\ case.kind = "score" => case \in ScoreCase
<1>1. CASE case \in GridCase
  <2>1. PICK b \in GridBounds :
            case = [kind |-> "grids", bound |-> b, before |-> Blank(b), after |-> Blank(b)]
    BY <1>1 DEF GridCase
  <2> QED BY <1>1, <2>1 DEF Shaped
<1>2. CASE case \in TrackCase
  <2>1. PICK k \in 1..MaxTracked :
            case = [kind |-> "track", previous |-> <<>>, cost |-> <<>>,
                    names |-> Initialize(k, 0).names, next |-> Initialize(k, 0).next,
                    gone |-> {}]
    BY <1>2 DEF TrackCase
  <2> QED BY <1>2, <2>1 DEF Shaped
<1>3. CASE case \in ProgramCase
  <2>1. PICK g \in {Corridor, Trap} :
            case = [kind |-> "program", program |-> g, game |-> g, plan |-> <<>>, edits |-> 0]
    BY <1>3 DEF ProgramCase
  <2> QED BY <1>3, <2>1 DEF Shaped
<1>4. CASE case \in ToyCase
  <2>1. case = [kind |-> "toy", world |-> WorldStart, model |-> ModelStart(WorldStart.grid),
                moved |-> TRUE, detours |-> 0]
    BY <1>4 DEF ToyCase
  <2> QED BY <1>4, <2>1 DEF Shaped
<1>5. CASE case \in ScoreCase
  <2>1. case = [kind |-> "score", baselines |-> <<>>, actions |-> <<>>, completed |-> <<>>]
    BY <1>5 DEF ScoreCase
  <2> QED BY <1>5, <2>1 DEF Shaped
<1> QED BY <1>1, <1>2, <1>3, <1>4, <1>5 DEF Init

\* A step is of the kind of its input.
LEMMA NextShaped ==
    ASSUME Shaped, Next
    PROVE  Shaped' /\ case'.kind = case.kind /\ OfKind
<1>1. CASE Paint
  <2>1. PICK p \in DOMAIN case.before, color \in case.bound.colors :
         \/ case' = [case EXCEPT !.before[p] = color, !.after[p] = color]
         \/ case' = [case EXCEPT !.after[p] = color]
    BY <1>1 DEF Paint
  <2>2. case.kind = "grids"
    BY <1>1 DEF Paint
  <2>3. Shaped' /\ case'.kind = case.kind
    BY <2>1 DEF Shaped
  <2> QED BY <1>1, <2>2, <2>3 DEF OfKind
<1>2. CASE Track
  <2>1. case.kind = "track"
    BY <1>2 DEF Track
  <2>2. PICK count, cost, new :
            case' = [kind |-> "track", previous |-> case.names, cost |-> cost,
                      names |-> new.names, next |-> new.next,
                      gone |-> case.gone \cup (ToSet(case.names) \ ToSet(new.names))]
    BY <1>2 DEF Track
  <2>3. Shaped' /\ case'.kind = case.kind
    BY <2>1, <2>2 DEF Shaped
  <2> QED BY <1>2, <2>1, <2>3 DEF OfKind
<1>3. CASE Edit
  <2>1. case.kind = "program"
    BY <1>3 DEF Edit
  <2>2. Shaped' /\ case'.kind = case.kind
    <3>1. CASE EditProgram
      BY <3>1 DEF Shaped, EditProgram
    <3>2. CASE EditGame
      BY <3>2 DEF Shaped, EditGame
    <3>3. CASE \E a \in ToSet(Acts) : case' = [case EXCEPT !.plan = Append(@, a)]
      BY <3>3 DEF Shaped
    <3> QED BY <1>3, <3>1, <3>2, <3>3 DEF Edit
  <2> QED BY <1>3, <2>1, <2>2 DEF OfKind
<1>4. CASE PlayToy
  <2>1. case.kind = "toy"
    BY <1>4 DEF PlayToy
  <2>2. PICK action, d :
             case' = [case EXCEPT !.world = WorldStep(@, action),
                                     !.model = ModelStep(@, action),
                                     !.moved = @ /\ action \notin {0, 7},
                                     !.detours = d]
    BY <1>4 DEF PlayToy
  <2>3. Shaped' /\ case'.kind = case.kind
    BY <2>2 DEF Shaped
  <2> QED BY <1>4, <2>1, <2>3 DEF OfKind
<1>5. CASE Finish
  <2>1. case.kind = "score"
    BY <1>5 DEF Finish
  <2>2. PICK b, a, c :
         case' = [case EXCEPT !.baselines = Append(@, b), !.actions = Append(@, a),
                              !.completed = Append(@, c)]
    BY <1>5 DEF Finish
  <2>3. Shaped' /\ case'.kind = case.kind
    BY <2>2 DEF Shaped
  <2> QED BY <1>5, <2>1, <2>3 DEF OfKind
<1> QED BY <1>1, <1>2, <1>3, <1>4, <1>5 DEF Next

\* An input keeps its kind and its fields.
LEMMA AlwaysShaped == Spec => []Shaped
<1>1. Init => Shaped
  BY InitShaped
<1>2. Shaped /\ [Next]_case => Shaped'
  <2>1. ASSUME Shaped, UNCHANGED case PROVE Shaped'
    BY <2>1 DEF Shaped
  <2> QED BY <2>1, NextShaped
<1> QED BY <1>1, <1>2, PTL DEF Spec

-----------------------------------------------------------------------------
(* Induction over numbers, and what a fold computes                        *)

\* Every set of numbers has a least one.
LEMMA LeastNumber ==
    ASSUME NEW T \in SUBSET Nat, T # {}
    PROVE  \E x \in T : \A y \in T : x <= y
<1> DEFINE U == {0..x : x \in T}
<1>1. U \subseteq FiniteSubsetsOf(Nat) /\ U # {}
  <2>1. \A x \in T : 0..x \in FiniteSubsetsOf(Nat)
    BY FS_Interval DEF FiniteSubsetsOf
  <2> QED BY <2>1
<1>2. PICK V \in U : \A W \in U : ~(<<W, V>> \in StrictSubsetOrdering(Nat))
  BY <1>1, WFMin, FS_StrictSubsetOrderingWellFounded
<1>3. PICK x \in T : V = 0..x
  OBVIOUS
<1>4. ASSUME NEW y \in T PROVE x <= y
  <2>1. 0..y \in U
    OBVIOUS
  <2>2. ~(<<0..y, 0..x>> \in StrictSubsetOrdering(Nat))
    BY <1>2, <1>3, <2>1
  <2>3. ~(0..y \subseteq 0..x /\ 0..y # 0..x)
    BY <2>2 DEF StrictSubsetOrdering
  <2>4. x \in Nat /\ y \in Nat
    OBVIOUS
  <2>5. SUFFICES ASSUME y < x PROVE FALSE
    BY <2>4
  <2>6. 0..y \subseteq 0..x /\ x \in 0..x /\ x \notin 0..y
    BY <2>4, <2>5
  <2> QED BY <2>3, <2>6
<1> QED BY <1>4

\* Induction, with a set for the predicate.
LEMMA Induction ==
    ASSUME NEW n \in Nat, NEW S, 0 \in S, \A k \in 1..n : k - 1 \in S => k \in S
    PROVE  0..n \subseteq S
<1> DEFINE R == (0..n) \ S
<1>1. SUFFICES ASSUME R # {} PROVE FALSE
  OBVIOUS
<1>2. R \in SUBSET Nat /\ R # {}
  BY <1>1
<1> HIDE DEF R
<1>3. PICK k \in R : \A j \in R : k <= j
  BY <1>2, LeastNumber
<1> USE DEF R
<1>4. k \in 1..n /\ k - 1 \in 0..n
  BY <1>3
<1>5. k - 1 \in S
  BY <1>3, <1>4
<1> QED BY <1>3, <1>4, <1>5

\* Max finds the largest of a set of numbers that has a bound.
LEMMA MaxOfNumbers ==
    ASSUME NEW n \in Nat, NEW S \in SUBSET (1..n), S # {}
    PROVE  Max(S) \in S /\ \A y \in S : Max(S) >= y
<1> DEFINE R == {n - y : y \in S}
<1>1. R \in SUBSET Nat /\ R # {}
  <2>1. \A y \in S : y \in 1..n /\ n - y \in Nat
    OBVIOUS
  <2> QED BY <2>1
<1> HIDE DEF R
<1>2. \E d \in R : \A e \in R : d <= e
  BY <1>1, LeastNumber
<1>3. \E x \in S : \A y \in S : x >= y
  BY <1>2 DEF R
<1> QED BY <1>3 DEF Max

\* The largest of the first k numbers is k.
LEMMA MaxOfPrefix ==
    ASSUME NEW n \in Nat, NEW k \in 1..n
    PROVE  Max(1..k) = k /\ (1..k) \ {k} = 1..(k - 1) /\ 1..k # {} /\ 1..k \in SUBSET (1..n)
<1>1. 1..k # {} /\ 1..k \in SUBSET (1..n)
  OBVIOUS
<1>2. Max(1..k) \in 1..k /\ \A y \in 1..k : Max(1..k) >= y
  BY <1>1, MaxOfNumbers
<1> QED BY <1>1, <1>2

\* The function behind a fold: from the largest number of a set down.
Folds(it, n, base, F) ==
    \A S \in SUBSET (1..n) :
        it[S] = IF S = {} THEN base ELSE F[Max(S)][it[S \ {Max(S)}]]

\* It exists when the steps are functions on a set.
LEMMA FoldExists ==
    ASSUME NEW n \in Nat, NEW B, NEW base \in B, NEW F \in [1..n -> [B -> B]]
    PROVE  \E it \in [SUBSET (1..n) -> B] : Folds(it, n, base, F)
<1> DEFINE Good(k, it) == \A S \in SUBSET (1..k) :
                   it[S] = IF S = {} THEN base ELSE F[Max(S)][it[S \ {Max(S)}]]
           T == {k \in 0..n : \E it \in [SUBSET (1..k) -> B] : Good(k, it)}
<1>1. 0 \in T
  <2>1. 1..0 = {} /\ SUBSET (1..0) = {{}}
    OBVIOUS
  <2>2. [S \in SUBSET (1..0) |-> base] \in [SUBSET (1..0) -> B]
    OBVIOUS
  <2>3. Good(0, [S \in SUBSET (1..0) |-> base])
    BY <2>1
  <2> HIDE DEF Good
  <2>4. 0 \in 0..n /\ \E it \in [SUBSET (1..0) -> B] : Good(0, it)
    BY <2>2, <2>3
  <2> QED BY <2>4
<1>2. ASSUME NEW k \in 1..n, k - 1 \in T PROVE k \in T
  <2>1. PICK old \in [SUBSET (1..(k - 1)) -> B] : Good(k - 1, old)
    BY <1>2
  <2> DEFINE new == [S \in SUBSET (1..k) |-> IF k \in S THEN F[k][old[S \ {k}]] ELSE old[S]]
  <2>2. ASSUME NEW S \in SUBSET (1..k)
        PROVE  /\ k \in S => S \ {k} \in SUBSET (1..(k - 1)) /\ Max(S) = k
               /\ k \notin S => S \in SUBSET (1..(k - 1))
    <3>1. CASE k \in S
      <4>1. Max(S) \in S /\ \A y \in S : Max(S) >= y
        <5>1. k \in Nat /\ S # {}
          BY <3>1
        <5> QED BY <5>1, MaxOfNumbers
      <4>2. Max(S) = k
        <5>1. Max(S) \in 1..k /\ Max(S) >= k
          BY <3>1, <4>1
        <5> QED BY <5>1
      <4> QED BY <3>1, <4>2
    <3>2. CASE k \notin S
      BY <3>2
    <3> QED BY <3>1, <3>2
  <2>3. new \in [SUBSET (1..k) -> B]
    <3>1. ASSUME NEW S \in SUBSET (1..k)
          PROVE  (IF k \in S THEN F[k][old[S \ {k}]] ELSE old[S]) \in B
      BY <2>2
    <3> QED BY <3>1
  <2>4. ASSUME NEW S \in SUBSET (1..k)
        PROVE  new[S] = IF S = {} THEN base ELSE F[Max(S)][new[S \ {Max(S)}]]
    <3>1. CASE k \in S
      <4>1. S # {} /\ Max(S) = k /\ S \ {k} \in SUBSET (1..(k - 1)) /\ S \ {k} \in SUBSET (1..k)
        BY <3>1, <2>2
      <4>2. new[S] = F[k][old[S \ {k}]]
        BY <3>1
      <4>3. new[S \ {k}] = old[S \ {k}]
        BY <4>1
      <4> HIDE DEF new
      <4> QED BY <4>1, <4>2, <4>3
    <3>2. CASE k \notin S
      <4>1. S \in SUBSET (1..(k - 1)) /\ new[S] = old[S]
        BY <3>2, <2>2
      <4>2. CASE S = {}
        BY <4>1, <4>2, <2>1
      <4>3. CASE S # {}
        <5>1. Max(S) \in S
          BY <4>3, MaxOfNumbers, k \in Nat
        <5>2. S \ {Max(S)} \in SUBSET (1..(k - 1)) /\ S \ {Max(S)} \in SUBSET (1..k)
              /\ k \notin S \ {Max(S)}
          BY <4>1, <3>2
        <5>3. new[S \ {Max(S)}] = old[S \ {Max(S)}]
          BY <5>2
        <5>4. old[S] = F[Max(S)][old[S \ {Max(S)}]]
          BY <4>1, <4>3, <2>1
        <5> HIDE DEF new
        <5> QED BY <4>1, <4>3, <5>3, <5>4
      <4> QED BY <4>2, <4>3
    <3> QED BY <3>1, <3>2
  <2> HIDE DEF new
  <2>5. Good(k, new)
    BY <2>4
  <2>6. \E it \in [SUBSET (1..k) -> B] : Good(k, it)
    BY <2>3, <2>5
  <2> HIDE DEF Good
  <2>7. k \in 0..n
    OBVIOUS
  <2> QED BY <2>6, <2>7
<1> HIDE DEF T
<1>3. 0..n \subseteq T
  BY <1>1, <1>2, Induction
<1>4. n \in T
  BY <1>3
<1> QED BY <1>4 DEF T, Folds

\* A run of the steps one after another exists.
Runs(g, n, base, F) == g[0] = base /\ \A k \in 1..n : g[k] = F[k][g[k - 1]]

\* Of any steps there is a run.
LEMMA RunExists ==
    ASSUME NEW n \in Nat, NEW B, NEW base \in B, NEW F \in [1..n -> [B -> B]]
    PROVE  \E g \in [0..n -> B] : Runs(g, n, base, F)
<1>1. PICK it \in [SUBSET (1..n) -> B] : Folds(it, n, base, F)
  BY FoldExists
<1> DEFINE g == [k \in 0..n |-> it[1..k]]
<1>2. g \in [0..n -> B]
  <2>1. ASSUME NEW k \in 0..n PROVE 1..k \in SUBSET (1..n)
    OBVIOUS
  <2> QED BY <2>1
<1>3. g[0] = base
  <2>1. 1..0 = {} /\ {} \in SUBSET (1..n) /\ 0 \in 0..n
    OBVIOUS
  <2>2. it[{}] = base
    BY <1>1, <2>1 DEF Folds
  <2> QED BY <2>1, <2>2
<1>4. ASSUME NEW k \in 1..n PROVE g[k] = F[k][g[k - 1]]
  <2>1. Max(1..k) = k /\ (1..k) \ {k} = 1..(k - 1) /\ 1..k # {} /\ 1..k \in SUBSET (1..n)
    BY MaxOfPrefix
  <2>2. it[1..k] = F[k][it[1..(k - 1)]]
    BY <1>1, <2>1 DEF Folds
  <2>3. g[k] = it[1..k] /\ g[k - 1] = it[1..(k - 1)]
    OBVIOUS
  <2> QED BY <2>2, <2>3
<1> HIDE DEF g
<1> QED BY <1>2, <1>3, <1>4 DEF Runs

\* Functions on 1..n are sequences.
LEMMA SequenceOf ==
    ASSUME NEW n \in Nat, NEW S, NEW s \in [1..n -> S]
    PROVE  s \in Seq(S) /\ Len(s) = n
<1>1. s \in Seq(S)
  BY SeqDef
<1>2. Len(s) \in Nat /\ DOMAIN s = 1..Len(s)
  BY <1>1, LenProperties
<1>3. 1..Len(s) = 1..n
  BY <1>2
<1> QED BY <1>1, <1>2, <1>3

\* Appending adds one place.
LEMMA Appended ==
    ASSUME NEW n \in Nat, NEW S, NEW s \in [1..n -> S], NEW x \in S
    PROVE  Append(s, x) \in [1..(n + 1) -> S]
<1>1. s \in Seq(S) /\ Len(s) = n
  BY SequenceOf
<1>2. Append(s, x) \in Seq(S) /\ Len(Append(s, x)) = n + 1
  BY <1>1, AppendProperties
<1> QED BY <1>2, LenProperties

-----------------------------------------------------------------------------
(* The places of the elements of a finite set in a strict total order      *)

Below(S, R, a) == {b \in S : <<b, a>> \in R}

StrictOrder(S, R) ==
    /\ \A a \in S : <<a, a>> \notin R
    /\ \A a, b, d \in S : <<a, b>> \in R /\ <<b, d>> \in R => <<a, d>> \in R
    /\ \A a, b \in S : a = b \/ <<a, b>> \in R \/ <<b, a>> \in R

\* Numbers from 0 count the elements below: each is taken, once, and grows with the order.
LEMMA Places ==
    ASSUME NEW S, IsFiniteSet(S), NEW R, StrictOrder(S, R)
    PROVE  /\ Cardinality(S) \in Nat
           /\ \A a \in S : Cardinality(Below(S, R, a)) \in 0..(Cardinality(S) - 1)
           /\ \A a, b \in S :
                <<a, b>> \in R <=> Cardinality(Below(S, R, a)) < Cardinality(Below(S, R, b))
           /\ \A a, b \in S :
                Cardinality(Below(S, R, a)) = Cardinality(Below(S, R, b)) => a = b
           /\ \A i \in 1..Cardinality(S) : \E a \in S : Cardinality(Below(S, R, a)) = i - 1
<1> DEFINE n == Cardinality(S)
           Position(a) == Cardinality(Below(S, R, a))
<1>1. n \in Nat
  BY FS_CardinalityType
<1>2. ASSUME NEW a \in S PROVE IsFiniteSet(Below(S, R, a)) /\ Position(a) \in 0..(n - 1)
  <2>1. Below(S, R, a) \subseteq S /\ a \in S /\ a \notin Below(S, R, a)
    BY DEF Below, StrictOrder
  <2>2. /\ IsFiniteSet(Below(S, R, a))
        /\ Cardinality(Below(S, R, a)) <= Cardinality(S)
        /\ Cardinality(S) = Cardinality(Below(S, R, a)) => S = Below(S, R, a)
    BY <2>1, FS_Subset
  <2>3. Cardinality(Below(S, R, a)) \in Nat
    BY <2>2, FS_CardinalityType
  <2> QED BY <1>1, <2>1, <2>2, <2>3
<1>3. ASSUME NEW a \in S, NEW b \in S, <<a, b>> \in R PROVE Position(a) < Position(b)
  <2>1. Below(S, R, a) \subseteq Below(S, R, b) /\ a \in Below(S, R, b)
        /\ a \notin Below(S, R, a)
    BY <1>3 DEF Below, StrictOrder
  <2>2. /\ Cardinality(Below(S, R, a)) <= Cardinality(Below(S, R, b))
        /\ Cardinality(Below(S, R, b)) = Cardinality(Below(S, R, a))
             => Below(S, R, b) = Below(S, R, a)
    BY <1>2, <2>1, FS_Subset
  <2>3. Position(a) \in Nat /\ Position(b) \in Nat
    BY <1>1, <1>2
  <2> QED BY <2>1, <2>2, <2>3
<1>4. ASSUME NEW a \in S, NEW b \in S PROVE <<a, b>> \in R <=> Position(a) < Position(b)
  <2>1. Position(a) \in Nat /\ Position(b) \in Nat
    BY <1>1, <1>2
  <2>2. a = b \/ <<a, b>> \in R \/ <<b, a>> \in R
    BY DEF StrictOrder
  <2>3. <<b, a>> \in R => Position(b) < Position(a)
    BY <1>3
  <2>4. <<a, b>> \in R => Position(a) < Position(b)
    BY <1>3
  <2> HIDE DEF Position
  <2> QED BY <2>1, <2>2, <2>3, <2>4
<1>5. ASSUME NEW a \in S, NEW b \in S, Position(a) = Position(b) PROVE a = b
  <2>1. Position(a) \in Nat /\ Position(b) \in Nat
    BY <1>1, <1>2
  <2>2. a = b \/ <<a, b>> \in R \/ <<b, a>> \in R
    BY DEF StrictOrder
  <2>3. <<b, a>> \in R => Position(b) < Position(a)
    BY <1>3
  <2>4. <<a, b>> \in R => Position(a) < Position(b)
    BY <1>3
  <2>5. Position(a) = Position(b)
    BY <1>5
  <2> HIDE DEF Position
  <2> QED BY <2>1, <2>2, <2>3, <2>4, <2>5
<1>6. ASSUME NEW i \in 1..n PROVE \E a \in S : Position(a) = i - 1
  <2> DEFINE f == [a \in S |-> Position(a)]
             T == 0..(n - 1)
  <2>1. f \in Injection(S, T)
    <3>1. f \in [S -> T]
      BY <1>2
    <3>2. \A a, b \in S : f[a] = f[b] => a = b
      BY <1>5
    <3> HIDE DEF f, T
    <3> QED BY <3>1, <3>2 DEF Injection, IsInjective
  <2>2. IsFiniteSet(T) /\ Cardinality(T) = n
    <3>1. 0 \in Int /\ n - 1 \in Int
      BY <1>1
    <3>2. IsFiniteSet(T) /\ Cardinality(T) = IF 0 > n - 1 THEN 0 ELSE (n - 1) - 0 + 1
      BY <3>1, FS_Interval
    <3> QED BY <1>1, <3>2
  <2> HIDE DEF T, f
  <2>3. f \in Surjection(S, T)
    BY <2>1, <2>2, FS_Injection
  <2>4. i - 1 \in T
    BY <1>1 DEF T
  <2>5. \E a \in S : f[a] = i - 1
    BY <2>3, <2>4 DEF Surjection
  <2> QED BY <2>5 DEF f
<1> QED BY <1>1, <1>2, <1>4, <1>5, <1>6

-----------------------------------------------------------------------------
(* Tracking                                                                *)

Cheaper3(a, b) ==
    \/ a[1] < b[1]
    \/ a[1] = b[1] /\ (NameBefore(a[2], b[2]) \/ (a[2] = b[2] /\ a[3] < b[3]))

ByCost(S) == {m \in S \X S : Cheaper3(m[1], m[2])}

\* The pairs Update ranks, and the order it takes them in.
Pairs(previous, count, cost) ==
    {<<cost[m], previous[m[1]], m[2]>> : m \in (DOMAIN previous) \X (1..count)}

Queue(S) ==
    [i \in 1..Cardinality(S) |->
        CHOOSE a \in S : Cardinality({b \in S : Cheaper3(b, a)}) = i - 1]

Blocked(limit, acc, c) == c[1] > limit \/ \E t \in acc : t[2] = c[2] \/ t[3] = c[3]

\* The function behind the choice of pairs.
Taking(limit, list) ==
    CHOOSE it : it = [S \in SUBSET DOMAIN list |->
                         IF S = {} THEN {}
                         ELSE IF Blocked(limit, it[S \ {Max(S)}], list[Max(S)])
                              THEN it[S \ {Max(S)}]
                              ELSE it[S \ {Max(S)}] \cup {list[Max(S)]}]

\* The pairs Update takes.
Taken(previous, count, cost, limit) ==
    LET list == Queue(Pairs(previous, count, cost))
    IN  Taking(limit, list)[DOMAIN list]

\* The objects Update has no identity for, in order.
Newcomers(F) ==
    [i \in 1..Cardinality(F) |-> CHOOSE a \in F : Cardinality({b \in F : b < a}) = i - 1]

\* Update in the words of these definitions.
LEMMA UpdateFact ==
    ASSUME NEW previous, NEW count, NEW cost, NEW limit, NEW next
    PROVE  LET taken == Taken(previous, count, cost, limit)
               fresh == Newcomers((1..count) \ {t[3] : t \in taken})
           IN  Update(previous, count, cost, limit, next) =
                 [names |-> [j \in 1..count |->
                     IF \E t \in taken : t[3] = j THEN (CHOOSE t \in taken : t[3] = j)[2]
                     ELSE next - 1 + CHOOSE k \in DOMAIN fresh : fresh[k] = j],
                  next |-> next + Len(fresh)]
BY DEF Update, Taken, Newcomers, Queue, Pairs, Ranked, Taking, Blocked, FoldLeft,
       MapThenFoldSet, Cheaper3

Triples == Nat \X Nat \X Int

\* The scale of a number is a positive one.
LEMMA ScaleType == ASSUME NEW n \in Nat PROVE Scale(n) \in Nat /\ Scale(n) > 0
<1> DEFINE P == Nat \ {0}
           F == [k \in 1..n |-> [q \in P |-> IF q > n THEN q ELSE 10 * q]]
<1>1. 10 \in P /\ F \in [1..n -> [P -> P]]
  OBVIOUS
<1>2. PICK g \in [0..n -> P] : Runs(g, n, 10, F)
  <2> HIDE DEF F, P
  <2> QED BY <1>1, RunExists
<1>3. g[0] = 10 /\ \A k \in 1..n : g[k] = IF g[k - 1] > n THEN g[k - 1] ELSE 10 * g[k - 1]
  <2>1. ASSUME NEW k \in 1..n
        PROVE  g[k] = IF g[k - 1] > n THEN g[k - 1] ELSE 10 * g[k - 1]
    <3>1. k - 1 \in 0..n
      OBVIOUS
    <3>2. g[k - 1] \in P
      BY <3>1
    <3>3. g[k] = F[k][g[k - 1]]
      BY <1>2 DEF Runs
    <3> QED BY <3>2, <3>3
  <2> QED BY <1>2, <2>1 DEF Runs
<1> DEFINE Power == CHOOSE f : f = [k \in 0..n |->
                      IF k = 0 THEN 10 ELSE IF f[k - 1] > n THEN f[k - 1] ELSE 10 * f[k - 1]]
<1>4. g = [k \in 0..n |-> IF k = 0 THEN 10
                          ELSE IF g[k - 1] > n THEN g[k - 1] ELSE 10 * g[k - 1]]
  BY <1>3
<1>5. Power = [k \in 0..n |-> IF k = 0 THEN 10
                              ELSE IF Power[k - 1] > n THEN Power[k - 1] ELSE 10 * Power[k - 1]]
  BY <1>4
<1>6. Scale(n) = Power[n]
  BY DEF Scale
<1> HIDE DEF Power
<1>7. Power[0] = 10 /\ \A k \in 1..n :
        Power[k] = IF Power[k - 1] > n THEN Power[k - 1] ELSE 10 * Power[k - 1]
  BY <1>5
<1> DEFINE T == {k \in 0..n : Power[k] \in P}
<1>8. 0 \in T
  BY <1>7
<1>9. ASSUME NEW k \in 1..n, k - 1 \in T PROVE k \in T
  BY <1>7, <1>9
<1>10. n \in T
  <2> HIDE DEF T
  <2>1. 0..n \subseteq T
    BY <1>8, <1>9, Induction
  <2> QED BY <2>1
<1> QED BY <1>6, <1>10

\* Multiplying both sides by a positive number.
LEMMA ScaledOrder ==
    ASSUME NEW x \in Nat, NEW y \in Nat, NEW p \in Nat, p > 0
    PROVE  /\ x * p \in Nat
           /\ x < y <=> x * p < y * p
           /\ x = y <=> x * p = y * p
<1>1. ASSUME NEW u \in Nat, NEW v \in Nat, u < v PROVE u * p < v * p
  <2>1. PICK d \in Nat : v = u + d /\ d > 0
    <3>1. v - u \in Nat /\ v = u + (v - u) /\ v - u > 0
      BY <1>1
    <3> QED BY <3>1
  <2>2. v * p = u * p + d * p
    BY <2>1
  <2>3. d * p > 0
    BY <2>1
  <2> QED BY <2>2, <2>3
<1>2. x * p \in Nat /\ y * p \in Nat
  OBVIOUS
<1>3. x < y \/ x = y \/ y < x
  OBVIOUS
<1> QED BY <1>1, <1>2, <1>3

\* The names are in a strict total order.
LEMMA NamesOrdered ==
    ASSUME NEW a \in Nat, NEW b \in Nat, NEW c \in Nat
    PROVE  /\ ~NameBefore(a, a)
           /\ a = b \/ NameBefore(a, b) \/ NameBefore(b, a)
           /\ NameBefore(a, b) /\ NameBefore(b, c) => NameBefore(a, c)
<1> DEFINE p == Scale(a)
           q == Scale(b)
           r == Scale(c)
<1>1. p \in Nat /\ p > 0 /\ q \in Nat /\ q > 0 /\ r \in Nat /\ r > 0
  BY ScaleType
<1>2. /\ NameBefore(a, a) <=> a * p < a * p \/ (a * p = a * p /\ a < a)
      /\ NameBefore(a, b) <=> a * q < b * p \/ (a * q = b * p /\ a < b)
      /\ NameBefore(b, a) <=> b * p < a * q \/ (b * p = a * q /\ b < a)
      /\ NameBefore(b, c) <=> b * r < c * q \/ (b * r = c * q /\ b < c)
      /\ NameBefore(a, c) <=> a * r < c * p \/ (a * r = c * p /\ a < c)
  BY DEF NameBefore
<1> HIDE DEF p, q, r
<1> DEFINE aq == a * q
           bp == b * p
           br == b * r
           cq == c * q
           ar == a * r
           cp == c * p
<1>3. aq \in Nat /\ bp \in Nat /\ br \in Nat /\ cq \in Nat /\ ar \in Nat /\ cp \in Nat
  BY <1>1, ScaledOrder
<1>4. aq * r = ar * q /\ bp * r = br * p /\ cq * p = cp * q
  BY <1>1
<1> HIDE DEF aq, bp, br, cq, ar, cp
<1>5. /\ aq * r \in Nat /\ bp * r \in Nat /\ br * p \in Nat /\ cq * p \in Nat
      /\ ar * q \in Nat /\ cp * q \in Nat
      /\ aq < bp <=> aq * r < bp * r
      /\ aq = bp <=> aq * r = bp * r
      /\ br < cq <=> br * p < cq * p
      /\ br = cq <=> br * p = cq * p
      /\ ar < cp <=> ar * q < cp * q
      /\ ar = cp <=> ar * q = cp * q
  BY <1>1, <1>3, ScaledOrder
<1> DEFINE x == aq * r
           y == bp * r
           z == cq * p
<1>6. /\ x \in Nat /\ y \in Nat /\ z \in Nat
      /\ (aq < bp <=> x < y) /\ (aq = bp <=> x = y)
      /\ (br < cq <=> y < z) /\ (br = cq <=> y = z)
      /\ (ar < cp <=> x < z) /\ (ar = cp <=> x = z)
  BY <1>4, <1>5
<1> HIDE DEF x, y, z
<1>7. /\ NameBefore(a, b) <=> aq < bp \/ (aq = bp /\ a < b)
      /\ NameBefore(b, a) <=> bp < aq \/ (bp = aq /\ b < a)
      /\ NameBefore(b, c) <=> br < cq \/ (br = cq /\ b < c)
      /\ NameBefore(a, c) <=> ar < cp \/ (ar = cp /\ a < c)
  BY <1>2 DEF aq, bp, br, cq, ar, cp
<1>8. ~NameBefore(a, a)
  <2>1. a * p \in Nat
    BY <1>1, ScaledOrder
  <2> QED BY <1>2, <2>1
<1>9. a = b \/ NameBefore(a, b) \/ NameBefore(b, a)
  BY <1>3, <1>7
<1>10. NameBefore(a, b) /\ NameBefore(b, c) => NameBefore(a, c)
  BY <1>6, <1>7
<1> QED BY <1>8, <1>9, <1>10

\* No two pairs cost the same, have the same name and the same index.
LEMMA CostOrders ==
    ASSUME NEW S \in SUBSET Triples
    PROVE  StrictOrder(S, ByCost(S))
<1>1. \A a \in S : a[1] \in Nat /\ a[2] \in Nat /\ a[3] \in Int /\ a = <<a[1], a[2], a[3]>>
  BY DEF Triples
<1>2. \A a, b \in S : <<a, b>> \in ByCost(S) <=> Cheaper3(a, b)
  BY DEF ByCost
<1>3. \A a \in S : ~Cheaper3(a, a)
  <2>1. ASSUME NEW a \in S, NEW k \in Nat, a[2] = k, a[1] \in Nat, a[3] \in Int
        PROVE  ~Cheaper3(a, a)
    BY <2>1, NamesOrdered DEF Cheaper3
  <2> QED BY <1>1, <2>1
<1>4. ASSUME NEW a \in S, NEW b \in S, NEW d \in S, Cheaper3(a, b), Cheaper3(b, d)
      PROVE  Cheaper3(a, d)
  <2> DEFINE i == a[2]
             j == b[2]
             k == d[2]
  <2>1. /\ i \in Nat /\ j \in Nat /\ k \in Nat
        /\ a[1] \in Nat /\ b[1] \in Nat /\ d[1] \in Nat
        /\ a[3] \in Int /\ b[3] \in Int /\ d[3] \in Int
    BY <1>1
  <2>2. /\ a[1] < b[1] \/ (a[1] = b[1] /\ (NameBefore(i, j) \/ (i = j /\ a[3] < b[3])))
        /\ b[1] < d[1] \/ (b[1] = d[1] /\ (NameBefore(j, k) \/ (j = k /\ b[3] < d[3])))
    BY <1>4 DEF Cheaper3
  <2>3. Cheaper3(a, d) <=>
          a[1] < d[1] \/ (a[1] = d[1] /\ (NameBefore(i, k) \/ (i = k /\ a[3] < d[3])))
    BY DEF Cheaper3
  <2> HIDE DEF i, j, k
  <2>4. NameBefore(i, j) /\ NameBefore(j, k) => NameBefore(i, k)
    BY <2>1, NamesOrdered
  <2> QED BY <2>1, <2>2, <2>3, <2>4
<1>5. ASSUME NEW a \in S, NEW b \in S, ~Cheaper3(a, b), ~Cheaper3(b, a) PROVE a = b
  <2> DEFINE i == a[2]
             j == b[2]
  <2>1. /\ i \in Nat /\ j \in Nat /\ a[1] \in Nat /\ b[1] \in Nat
        /\ a[3] \in Int /\ b[3] \in Int
        /\ a = <<a[1], i, a[3]>> /\ b = <<b[1], j, b[3]>>
    BY <1>1
  <2>2. /\ ~(a[1] < b[1] \/ (a[1] = b[1] /\ (NameBefore(i, j) \/ (i = j /\ a[3] < b[3]))))
        /\ ~(b[1] < a[1] \/ (b[1] = a[1] /\ (NameBefore(j, i) \/ (j = i /\ b[3] < a[3]))))
    BY <1>5 DEF Cheaper3
  <2> HIDE DEF i, j
  <2>3. i = j \/ NameBefore(i, j) \/ NameBefore(j, i)
    BY <2>1, NamesOrdered
  <2>4. a[1] = b[1] /\ i = j /\ a[3] = b[3]
    BY <2>1, <2>2, <2>3
  <2> QED BY <2>1, <2>4
<1> QED BY <1>2, <1>3, <1>4, <1>5 DEF StrictOrder

Sorted(list, n, S) ==
    /\ \A c \in S : \E i \in 1..n : list[i] = c
    /\ \A i, j \in 1..n : i < j => list[i][1] <= list[j][1]

\* The queue holds every pair, and no pair stands after a cheaper one.
LEMMA QueueFact ==
    ASSUME NEW S \in SUBSET Triples, IsFiniteSet(S)
    PROVE  \E n \in Nat : Queue(S) \in [1..n -> S] /\ Sorted(Queue(S), n, S)
<1> DEFINE n == Cardinality(S)
           Position(a) == Cardinality(Below(S, ByCost(S), a))
<1>1. /\ n \in Nat
      /\ \A a \in S : Position(a) \in 0..(n - 1)
      /\ \A a, b \in S : <<a, b>> \in ByCost(S) <=> Position(a) < Position(b)
      /\ \A a, b \in S : Position(a) = Position(b) => a = b
      /\ \A i \in 1..n : \E a \in S : Position(a) = i - 1
  BY CostOrders, Places
<1>2. ASSUME NEW a \in S PROVE Cardinality({b \in S : Cheaper3(b, a)}) = Position(a)
  <2>1. {b \in S : Cheaper3(b, a)} = Below(S, ByCost(S), a)
    BY DEF Below, ByCost
  <2> QED BY <2>1
<1>3. ASSUME NEW i \in 1..n PROVE Queue(S)[i] \in S /\ Position(Queue(S)[i]) = i - 1
  <2>1. \E a \in S : Cardinality({b \in S : Cheaper3(b, a)}) = i - 1
    BY <1>1, <1>2
  <2>2. Queue(S)[i] = CHOOSE a \in S : Cardinality({b \in S : Cheaper3(b, a)}) = i - 1
    BY DEF Queue
  <2>3. Queue(S)[i] \in S /\ Cardinality({b \in S : Cheaper3(b, Queue(S)[i])}) = i - 1
    BY <2>1, <2>2
  <2> QED BY <2>3, <1>2
<1>4. Queue(S) \in [1..n -> S]
  BY <1>3 DEF Queue
<1>5. ASSUME NEW c \in S PROVE \E i \in 1..n : Queue(S)[i] = c
  <2>1. Position(c) \in 0..(n - 1)
    BY <1>1
  <2>2. Position(c) + 1 \in 1..n /\ (Position(c) + 1) - 1 = Position(c)
    BY <1>1, <2>1
  <2> HIDE DEF Position
  <2>3. Queue(S)[Position(c) + 1] \in S /\ Position(Queue(S)[Position(c) + 1]) = Position(c)
    BY <1>3, <2>2
  <2> QED BY <1>1, <2>2, <2>3
<1>6. ASSUME NEW i \in 1..n, NEW j \in 1..n, i < j PROVE Queue(S)[i][1] <= Queue(S)[j][1]
  <2>1. Queue(S)[i] \in S /\ Queue(S)[j] \in S
    BY <1>3
  <2>2. Position(Queue(S)[i]) < Position(Queue(S)[j])
    BY <1>3, <1>1, <1>6
  <2>3. <<Queue(S)[i], Queue(S)[j]>> \in ByCost(S)
    BY <1>1, <2>1, <2>2
  <2>4. Cheaper3(Queue(S)[i], Queue(S)[j])
    BY <2>3 DEF ByCost
  <2>5. Queue(S)[i][1] \in Nat /\ Queue(S)[j][1] \in Nat
    BY <2>1 DEF Triples
  <2> QED BY <2>4, <2>5 DEF Cheaper3
<1> QED BY <1>1, <1>4, <1>5, <1>6 DEF Sorted

\* What is taken of a list, one pair after the other.
Takes(g, n, list, limit) ==
    /\ g[0] = {}
    /\ \A k \in 1..n : g[k] = IF Blocked(limit, g[k - 1], list[k]) THEN g[k - 1]
                             ELSE g[k - 1] \cup {list[k]}
    /\ Taking(limit, list)[DOMAIN list] = g[n]

\* Every pair of the list is taken or left, in the order of the list.
LEMMA TakingRun ==
    ASSUME NEW S, NEW n \in Nat, NEW list \in [1..n -> S], NEW limit
    PROVE  \E g \in [0..n -> SUBSET S] : Takes(g, n, list, limit)
<1> DEFINE B == SUBSET S
           F == [k \in 1..n |-> [b \in B |->
                    IF Blocked(limit, b, list[k]) THEN b ELSE b \cup {list[k]}]]
<1>1. F \in [1..n -> [B -> B]]
  <2>1. ASSUME NEW k \in 1..n, NEW b \in B
        PROVE  (IF Blocked(limit, b, list[k]) THEN b ELSE b \cup {list[k]}) \in B
    OBVIOUS
  <2> QED BY <2>1
<1>2. PICK it \in [SUBSET (1..n) -> B] : Folds(it, n, {}, F)
  <2>1. {} \in B
    OBVIOUS
  <2> HIDE DEF F, B
  <2> QED BY <1>1, <2>1, FoldExists
<1>3. it = [T \in SUBSET DOMAIN list |->
              IF T = {} THEN {}
              ELSE IF Blocked(limit, it[T \ {Max(T)}], list[Max(T)]) THEN it[T \ {Max(T)}]
                   ELSE it[T \ {Max(T)}] \cup {list[Max(T)]}]
  <2>1. DOMAIN list = 1..n
    OBVIOUS
  <2>2. ASSUME NEW T \in SUBSET (1..n)
        PROVE  it[T] =
              IF T = {} THEN {}
              ELSE IF Blocked(limit, it[T \ {Max(T)}], list[Max(T)]) THEN it[T \ {Max(T)}]
                   ELSE it[T \ {Max(T)}] \cup {list[Max(T)]}
    <3>1. CASE T = {}
      BY <1>2, <3>1 DEF Folds
    <3>2. CASE T # {}
      <4>1. Max(T) \in 1..n /\ T \ {Max(T)} \in SUBSET (1..n)
        BY <3>2, MaxOfNumbers
      <4>2. it[T \ {Max(T)}] \in B
        BY <4>1
      <4>3. F[Max(T)][it[T \ {Max(T)}]] =
              IF Blocked(limit, it[T \ {Max(T)}], list[Max(T)]) THEN it[T \ {Max(T)}]
              ELSE it[T \ {Max(T)}] \cup {list[Max(T)]}
        BY <4>1, <4>2
      <4>4. it[T] = F[Max(T)][it[T \ {Max(T)}]]
        BY <1>2, <3>2 DEF Folds
      <4> QED BY <3>2, <4>3, <4>4
    <3> QED BY <3>1, <3>2
  <2> QED BY <2>1, <2>2
<1> DEFINE c == Taking(limit, list)
           g == [k \in 0..n |-> c[1..k]]
<1>4. c = [T \in SUBSET DOMAIN list |->
              IF T = {} THEN {}
              ELSE IF Blocked(limit, c[T \ {Max(T)}], list[Max(T)]) THEN c[T \ {Max(T)}]
                   ELSE c[T \ {Max(T)}] \cup {list[Max(T)]}]
  BY <1>3 DEF Taking
<1> HIDE DEF c
<1>5. \A T \in SUBSET (1..n) :
          c[T] = IF T = {} THEN {}
                 ELSE IF Blocked(limit, c[T \ {Max(T)}], list[Max(T)]) THEN c[T \ {Max(T)}]
                      ELSE c[T \ {Max(T)}] \cup {list[Max(T)]}
  BY <1>4
<1>6. g[0] = {}
  <2>1. 1..0 = {} /\ {} \in SUBSET (1..n) /\ 0 \in 0..n
    OBVIOUS
  <2>2. c[{}] = {}
    BY <1>5, <2>1
  <2> QED BY <2>1, <2>2
<1>7. ASSUME NEW k \in 1..n
      PROVE  g[k] = IF Blocked(limit, g[k - 1], list[k]) THEN g[k - 1]
                    ELSE g[k - 1] \cup {list[k]}
  <2>1. Max(1..k) = k /\ (1..k) \ {k} = 1..(k - 1) /\ 1..k # {} /\ 1..k \in SUBSET (1..n)
    BY MaxOfPrefix
  <2>2. c[1..k] = IF Blocked(limit, c[1..(k - 1)], list[k]) THEN c[1..(k - 1)]
                  ELSE c[1..(k - 1)] \cup {list[k]}
    BY <1>5, <2>1
  <2>3. k \in 0..n /\ k - 1 \in 0..n
    OBVIOUS
  <2> QED BY <2>2, <2>3
<1>8. c[DOMAIN list] = g[n]
  OBVIOUS
<1> DEFINE T == {k \in 0..n : g[k] \in SUBSET S}
<1>9. 0..n \subseteq T
  <2> HIDE DEF g
  <2>1. 0 \in T
    BY <1>6
  <2>2. ASSUME NEW k \in 1..n, k - 1 \in T PROVE k \in T
    <3>1. g[k - 1] \in SUBSET S /\ list[k] \in S /\ k \in 0..n
      BY <2>2
    <3>2. g[k] = g[k - 1] \/ g[k] = g[k - 1] \cup {list[k]}
      BY <1>7
    <3> QED BY <3>1, <3>2
  <2> HIDE DEF T
  <2> QED BY <2>1, <2>2, Induction
<1>10. g \in [0..n -> SUBSET S]
  <2>1. \A k \in 0..n : g[k] \in SUBSET S
    BY <1>9
  <2> QED BY <2>1
<1>11. Taking(limit, list)[DOMAIN list] = g[n]
  BY <1>8 DEF c
<1> HIDE DEF g
<1> QED BY <1>6, <1>7, <1>10, <1>11 DEF Takes

Matching(taken, S, limit) ==
    /\ taken \subseteq S
    /\ \A t \in taken : t[1] <= limit
    /\ \A t, u \in taken : t[2] = u[2] \/ t[3] = u[3] => t = u
    /\ \A c \in S : c[1] <= limit =>
          \E t \in taken : (t[2] = c[2] \/ t[3] = c[3]) /\ t[1] <= c[1]

\* What is taken is near enough, takes nothing twice, and leaves out no pair but for one
\* that costs no more.
LEMMA TakenFact ==
    ASSUME NEW S \in SUBSET Triples, NEW n \in Nat, NEW list \in [1..n -> S], NEW limit \in Nat,
           Sorted(list, n, S)
    PROVE  Matching(Taking(limit, list)[DOMAIN list], S, limit)
<1> DEFINE taken == Taking(limit, list)[DOMAIN list]
<1> USE DEF Sorted
<1>0. PICK g \in [0..n -> SUBSET S] : Takes(g, n, list, limit)
  BY TakingRun
<1>1. /\ g[0] = {}
      /\ \A k \in 1..n : g[k] = IF Blocked(limit, g[k - 1], list[k]) THEN g[k - 1]
                               ELSE g[k - 1] \cup {list[k]}
      /\ Taking(limit, list)[DOMAIN list] = g[n]
  BY <1>0 DEF Takes
<1> DEFINE Good(k) ==
              /\ \A t \in g[k] : \E i \in 1..k : t = list[i]
              /\ \A t \in g[k] : t[1] <= limit
              /\ \A t, u \in g[k] : t[2] = u[2] \/ t[3] = u[3] => t = u
              /\ \A i \in 1..k : list[i][1] <= limit =>
                    \E t \in g[k] : (t[2] = list[i][2] \/ t[3] = list[i][3])
                                    /\ t[1] <= list[i][1]
           T == {k \in 0..n : Good(k)}
<1>2. 0 \in T
  BY <1>1
<1>3. ASSUME NEW k \in 1..n, k - 1 \in T PROVE k \in T
  <2>1. Good(k - 1) /\ k \in 0..n /\ k - 1 \in 0..n
    <3> HIDE DEF Good
    <3> QED BY <1>3
  <2>2. \A i \in 1..k : list[i] \in S /\ list[i][1] \in Nat
    BY DEF Triples
  <2>3. CASE Blocked(limit, g[k - 1], list[k])
    <3>1. g[k] = g[k - 1]
      BY <1>1, <2>3
    <3>2. \A t \in g[k] : \E i \in 1..k : t = list[i]
      <4>1. \A i \in 1..(k - 1) : i \in 1..k
        OBVIOUS
      <4> QED BY <2>1, <3>1, <4>1
    <3>3. ASSUME NEW i \in 1..k, list[i][1] <= limit
          PROVE  \E t \in g[k] : (t[2] = list[i][2] \/ t[3] = list[i][3]) /\ t[1] <= list[i][1]
      <4>1. CASE i = k
        <5>1. PICK t \in g[k - 1] : t[2] = list[k][2] \/ t[3] = list[k][3]
          <6>1. ~(list[k][1] > limit)
            BY <2>2, <3>3, <4>1
          <6> QED BY <2>3, <6>1 DEF Blocked
        <5>2. PICK j \in 1..(k - 1) : t = list[j]
          BY <2>1
        <5>3. t[1] <= list[k][1]
          <6>1. j \in 1..n /\ k \in 1..n /\ j < k
            OBVIOUS
          <6> QED BY <5>2, <6>1
        <5> QED BY <3>1, <4>1, <5>1, <5>3
      <4>2. CASE i # k
        <5>1. i \in 1..(k - 1)
          BY <4>2
        <5> QED BY <2>1, <3>1, <3>3, <5>1
      <4> QED BY <4>1, <4>2
    <3>4. \A t \in g[k] : t[1] <= limit
      BY <2>1, <3>1
    <3>5. \A t, u \in g[k] : t[2] = u[2] \/ t[3] = u[3] => t = u
      BY <2>1, <3>1
    <3>6. Good(k)
      BY <3>2, <3>3, <3>4, <3>5
    <3> HIDE DEF Good
    <3> QED BY <2>1, <3>6
  <2>4. CASE ~Blocked(limit, g[k - 1], list[k])
    <3>1. g[k] = g[k - 1] \cup {list[k]}
      BY <1>1, <2>4
    <3>2. \A t \in g[k] : \E i \in 1..k : t = list[i]
      <4>1. (\A i \in 1..(k - 1) : i \in 1..k) /\ k \in 1..k
        OBVIOUS
      <4> QED BY <2>1, <3>1, <4>1
    <3>3. ASSUME NEW i \in 1..k, list[i][1] <= limit
          PROVE  \E t \in g[k] : (t[2] = list[i][2] \/ t[3] = list[i][3]) /\ t[1] <= list[i][1]
      <4>1. CASE i = k
        BY <2>2, <3>1, <4>1
      <4>2. CASE i # k
        <5>1. i \in 1..(k - 1)
          BY <4>2
        <5> QED BY <2>1, <3>1, <3>3, <5>1
      <4> QED BY <4>1, <4>2
    <3>4. \A t \in g[k] : t[1] <= limit
      <4>1. list[k][1] <= limit
        BY <2>2, <2>4 DEF Blocked
      <4> QED BY <2>1, <3>1, <4>1
    <3>5. \A t, u \in g[k] : t[2] = u[2] \/ t[3] = u[3] => t = u
      <4>1. \A t \in g[k - 1] : t[2] # list[k][2] /\ t[3] # list[k][3]
        BY <2>4 DEF Blocked
      <4> QED BY <2>1, <3>1, <4>1
    <3>6. Good(k)
      BY <3>2, <3>3, <3>4, <3>5
    <3> HIDE DEF Good
    <3> QED BY <2>1, <3>6
  <2> QED BY <2>3, <2>4
<1>4. n \in T
  <2> HIDE DEF T
  <2>1. 0..n \subseteq T
    BY <1>2, <1>3, Induction
  <2> QED BY <2>1
<1>5. Good(n)
  BY <1>4
<1>6. taken = g[n] /\ g[n] \in SUBSET S
  BY <1>1
<1>7. ASSUME NEW c \in S, c[1] <= limit
      PROVE  \E t \in taken : (t[2] = c[2] \/ t[3] = c[3]) /\ t[1] <= c[1]
  <2>1. PICK i \in 1..n : list[i] = c
    OBVIOUS
  <2> QED BY <1>5, <1>6, <1>7, <2>1
<1> HIDE DEF taken
<1>8. Matching(taken, S, limit)
  BY <1>5, <1>6, <1>7 DEF Matching
<1> QED BY <1>8 DEF taken

PairsOf(S, m, count, previous, cost) ==
    /\ S \in SUBSET Triples /\ IsFiniteSet(S)
    /\ \A t \in S : \E i \in 1..m, j \in 1..count :
          t[1] = cost[<<i, j>>] /\ t[2] = previous[i] /\ t[3] = j
    /\ \A i \in 1..m, j \in 1..count : \E t \in S :
          t[1] = cost[<<i, j>>] /\ t[2] = previous[i] /\ t[3] = j

\* A pair that is taken is one of its name and its index.
LEMMA PairsFact ==
    ASSUME NEW m \in Nat, NEW count \in Nat, NEW previous \in [1..m -> Nat],
           NEW cost \in [(1..m) \X (1..count) -> Nat]
    PROVE  PairsOf(Pairs(previous, count, cost), m, count, previous, cost)
<1> DEFINE D == (1..m) \X (1..count)
           P == {<<cost[d], previous[d[1]], d[2]>> : d \in D}
           f == [d \in D |-> <<cost[d], previous[d[1]], d[2]>>]
<1>1. Pairs(previous, count, cost) = P
  BY DEF Pairs
<1>2. IsFiniteSet(P)
  <2>1. IsFiniteSet(1..m) /\ IsFiniteSet(1..count)
    BY FS_Interval
  <2>2. IsFiniteSet(D)
    BY <2>1, FS_Product
  <2>3. f \in Surjection(D, P)
    BY DEF Surjection
  <2> HIDE DEF D, P, f
  <2> QED BY <2>2, <2>3, FS_Surjection
<1>3. P \in SUBSET Triples
  <2>1. ASSUME NEW d \in D PROVE <<cost[d], previous[d[1]], d[2]>> \in Triples
    <3>1. d[1] \in 1..m /\ d[2] \in 1..count
      OBVIOUS
    <3>2. cost[d] \in Nat /\ previous[d[1]] \in Nat /\ d[2] \in Int
      BY <3>1
    <3> QED BY <3>2 DEF Triples
  <2> QED BY <2>1
<1>4. ASSUME NEW t \in P
      PROVE  \E i \in 1..m, j \in 1..count :
                t[1] = cost[<<i, j>>] /\ t[2] = previous[i] /\ t[3] = j
  <2>1. PICK d \in D : t = <<cost[d], previous[d[1]], d[2]>>
    OBVIOUS
  <2>2. d[1] \in 1..m /\ d[2] \in 1..count /\ d = <<d[1], d[2]>>
    OBVIOUS
  <2>3. t[1] = cost[<<d[1], d[2]>>] /\ t[2] = previous[d[1]] /\ t[3] = d[2]
    BY <2>1, <2>2
  <2> QED BY <2>2, <2>3
<1>5. ASSUME NEW i \in 1..m, NEW j \in 1..count
      PROVE  \E t \in P : t[1] = cost[<<i, j>>] /\ t[2] = previous[i] /\ t[3] = j
  <2>1. <<i, j>> \in D /\ <<i, j>>[1] = i /\ <<i, j>>[2] = j
    OBVIOUS
  <2>2. <<cost[<<i, j>>], previous[i], j>> \in P
    BY <2>1
  <2> QED BY <2>2
<1> HIDE DEF P
<1> QED BY <1>1, <1>2, <1>3, <1>4, <1>5 DEF PairsOf

\* Every newcomer has a place of its own.
LEMMA NewcomersFact ==
    ASSUME NEW count \in Nat, NEW F \in SUBSET (1..count)
    PROVE  \E n \in Nat :
              /\ DOMAIN Newcomers(F) = 1..n /\ Len(Newcomers(F)) = n
              /\ \A j \in F : \E k \in 1..n : Newcomers(F)[k] = j
<1> DEFINE n == Cardinality(F)
           R == {d \in F \X F : d[1] < d[2]}
           Position(a) == Cardinality(Below(F, R, a))
<1>1. IsFiniteSet(F)
  <2>1. IsFiniteSet(1..count)
    BY FS_Interval
  <2> QED BY <2>1, FS_Subset
<1>2. StrictOrder(F, R)
  <2>1. \A a, b \in F : <<a, b>> \in R <=> a < b
    OBVIOUS
  <2>2. \A a \in F : a \in Nat
    OBVIOUS
  <2> HIDE DEF R
  <2> QED BY <2>1, <2>2 DEF StrictOrder
<1>3. /\ n \in Nat
      /\ \A a \in F : Position(a) \in 0..(n - 1)
      /\ \A a, b \in F : Position(a) = Position(b) => a = b
      /\ \A i \in 1..n : \E a \in F : Position(a) = i - 1
  <2> HIDE DEF R
  <2> QED BY <1>1, <1>2, Places
<1>4. ASSUME NEW a \in F PROVE Cardinality({b \in F : b < a}) = Position(a)
  <2>1. {b \in F : b < a} = Below(F, R, a)
    BY DEF Below
  <2> QED BY <2>1
<1> HIDE DEF R
<1>5. DOMAIN Newcomers(F) = 1..n
  BY DEF Newcomers
<1>6. ASSUME NEW i \in 1..n PROVE Newcomers(F)[i] \in F /\ Position(Newcomers(F)[i]) = i - 1
  <2>1. \E a \in F : Cardinality({b \in F : b < a}) = i - 1
    BY <1>3, <1>4
  <2>2. Newcomers(F)[i] = CHOOSE a \in F : Cardinality({b \in F : b < a}) = i - 1
    BY DEF Newcomers
  <2>3. Newcomers(F)[i] \in F /\ Cardinality({b \in F : b < Newcomers(F)[i]}) = i - 1
    BY <2>1, <2>2
  <2> QED BY <2>3, <1>4
<1>7. Newcomers(F) \in [1..n -> F]
  BY <1>6 DEF Newcomers
<1>8. Len(Newcomers(F)) = n
  <2>1. n \in Nat
    BY <1>3
  <2> HIDE DEF n
  <2> QED BY <1>7, <2>1, SequenceOf
<1>9. ASSUME NEW j \in F PROVE \E k \in 1..n : Newcomers(F)[k] = j
  <2>1. Position(j) \in 0..(n - 1)
    BY <1>3
  <2>2. Position(j) + 1 \in 1..n /\ (Position(j) + 1) - 1 = Position(j)
    BY <1>3, <2>1
  <2> HIDE DEF Position
  <2>3. Newcomers(F)[Position(j) + 1] \in F /\ Position(Newcomers(F)[Position(j) + 1]) = Position(j)
    BY <1>6, <2>2
  <2> QED BY <1>3, <2>2, <2>3
<1> QED BY <1>3, <1>5, <1>8, <1>9

\* What TracksStable says of an update, and the types it keeps.
Tracks(m, count, next, limit, previous, cost, names, after) ==
    /\ after \in Nat /\ after >= next
    /\ names \in [1..count -> 0..(after - 1)]
    /\ \A j, k \in 1..count : names[j] = names[k] => j = k
    /\ \A j \in 1..count : names[j] >= next \/ \E i \in 1..m : names[j] = previous[i]
    /\ \A i \in 1..m, j \in 1..count : previous[i] = names[j] => cost[<<i, j>>] <= limit
    /\ \A i \in 1..m, j \in 1..count : cost[<<i, j>>] <= limit =>
          \E k \in 1..m, l \in 1..count :
             /\ previous[k] = names[l] /\ (k = i \/ l = j)
             /\ cost[<<k, l>>] <= cost[<<i, j>>]

\* For every number of objects, every limit and every cost.
THEOREM UpdateTracks ==
    ASSUME NEW m \in Nat, NEW count \in Nat, NEW next \in Nat, NEW limit \in Nat,
           NEW previous \in [1..m -> 0..(next - 1)],
           \A i, k \in 1..m : previous[i] = previous[k] => i = k,
           NEW cost \in [(1..m) \X (1..count) -> Nat],
           NEW names, NEW after,
           names = Update(previous, count, cost, limit, next).names,
           after = Update(previous, count, cost, limit, next).next
    PROVE  Tracks(m, count, next, limit, previous, cost, names, after)
<1> DEFINE S == Pairs(previous, count, cost)
           taken == Taken(previous, count, cost, limit)
           F == (1..count) \ {t[3] : t \in taken}
           fresh == Newcomers(F)
           old(j) == CHOOSE t \in taken : t[3] = j
           place(j) == CHOOSE k \in DOMAIN fresh : fresh[k] = j
<1>1. /\ names = [j \in 1..count |-> IF \E t \in taken : t[3] = j THEN old(j)[2]
                                     ELSE next - 1 + place(j)]
      /\ after = next + Len(fresh)
  BY UpdateFact
<1>2. previous \in [1..m -> Nat]
  OBVIOUS
<1>3. /\ S \in SUBSET Triples /\ IsFiniteSet(S)
      /\ \A t \in S : \E i \in 1..m, j \in 1..count :
            t[1] = cost[<<i, j>>] /\ t[2] = previous[i] /\ t[3] = j
      /\ \A i \in 1..m, j \in 1..count : \E t \in S :
            t[1] = cost[<<i, j>>] /\ t[2] = previous[i] /\ t[3] = j
  <2>1. PairsOf(S, m, count, previous, cost)
    BY <1>2, PairsFact
  <2> HIDE DEF S
  <2> QED BY <2>1 DEF PairsOf
<1>4. /\ taken \subseteq S
      /\ \A t \in taken : t[1] <= limit
      /\ \A t, u \in taken : t[2] = u[2] \/ t[3] = u[3] => t = u
      /\ \A c \in S : c[1] <= limit =>
            \E t \in taken : (t[2] = c[2] \/ t[3] = c[3]) /\ t[1] <= c[1]
  <2> HIDE DEF S, taken
  <2>1. S \in SUBSET Triples /\ IsFiniteSet(S)
    BY <1>3
  <2>2. PICK n \in Nat : Queue(S) \in [1..n -> S] /\ Sorted(Queue(S), n, S)
    BY <2>1, QueueFact
  <2>3. taken = Taking(limit, Queue(S))[DOMAIN Queue(S)]
    BY DEF taken, S, Taken
  <2>4. Matching(Taking(limit, Queue(S))[DOMAIN Queue(S)], S, limit)
    BY <2>1, <2>2, TakenFact
  <2> QED BY <2>3, <2>4 DEF Matching
<1> HIDE DEF S, taken
<1>5. PICK n \in Nat :
              /\ DOMAIN fresh = 1..n /\ Len(fresh) = n
              /\ \A j \in F : \E k \in 1..n : fresh[k] = j
  <2>1. F \in SUBSET (1..count)
    OBVIOUS
  <2> HIDE DEF F
  <2> QED BY <2>1, NewcomersFact
<1> HIDE DEF fresh
<1>6. ASSUME NEW j \in 1..count, NEW t \in taken, t[3] = j
      PROVE  /\ names[j] = t[2] /\ j \notin F
             /\ \E i \in 1..m : t[2] = previous[i] /\ t[1] = cost[<<i, j>>]
  <2>1. old(j) \in taken /\ old(j)[3] = j
    BY <1>6
  <2>2. old(j) = t
    BY <1>4, <1>6, <2>1
  <2>3. names[j] = old(j)[2]
    BY <1>1, <1>6
  <2>4. \E i \in 1..m : t[2] = previous[i] /\ t[1] = cost[<<i, j>>]
    <3>1. t \in S
      BY <1>4
    <3>2. PICK i \in 1..m, k \in 1..count :
              t[1] = cost[<<i, k>>] /\ t[2] = previous[i] /\ t[3] = k
      BY <1>3, <3>1
    <3>3. k = j
      BY <1>6, <3>2
    <3> QED BY <3>2, <3>3
  <2>5. j \notin F
    BY <1>6
  <2> HIDE DEF F, old
  <2> QED BY <2>2, <2>3, <2>4, <2>5
<1>7. ASSUME NEW j \in F
      PROVE  /\ names[j] = next - 1 + place(j) /\ place(j) \in 1..n /\ fresh[place(j)] = j
             /\ names[j] >= next /\ names[j] <= after - 1
  <2>1. \E k \in DOMAIN fresh : fresh[k] = j
    BY <1>5
  <2>2. place(j) \in DOMAIN fresh /\ fresh[place(j)] = j
    BY <2>1
  <2>3. j \in 1..count /\ ~\E t \in taken : t[3] = j
    OBVIOUS
  <2>4. names[j] = next - 1 + place(j)
    BY <1>1, <2>3
  <2> HIDE DEF place
  <2> QED BY <1>1, <1>5, <2>2, <2>4
<1> HIDE DEF old, place
<1>8. ASSUME NEW j \in 1..count
      PROVE  \/ j \in F
             \/ \E t \in taken, i \in 1..m :
                  t[3] = j /\ names[j] = t[2] /\ t[2] = previous[i] /\ t[1] = cost[<<i, j>>]
  <2>1. j \in F \/ \E t \in taken : t[3] = j
    OBVIOUS
  <2> HIDE DEF F
  <2> QED BY <1>6, <2>1
<1>15. ASSUME NEW j \in 1..count, j \notin F PROVE \E i \in 1..m : names[j] = previous[i]
  <2> HIDE DEF F
  <2>1. \E t \in taken, i \in 1..m :
            t[3] = j /\ names[j] = t[2] /\ t[2] = previous[i] /\ t[1] = cost[<<i, j>>]
    BY <1>8, <1>15
  <2> QED BY <2>1
<1>9. after \in Nat /\ after >= next
  BY <1>1, <1>5
<1>10. \A j \in 1..count :
           /\ names[j] \in 0..(after - 1)
           /\ names[j] >= next \/ \E i \in 1..m : names[j] = previous[i]
  <2> SUFFICES ASSUME NEW j \in 1..count
               PROVE  /\ names[j] \in 0..(after - 1)
                      /\ names[j] >= next \/ \E i \in 1..m : names[j] = previous[i]
    OBVIOUS
  <2>1. CASE j \in F
    <3>1. names[j] = next - 1 + place(j) /\ place(j) \in 1..n
      BY <1>7, <2>1
    <3> HIDE DEF F
    <3> QED BY <1>1, <1>5, <3>1
  <2>2. CASE j \notin F
    <3>1. PICK i \in 1..m : names[j] = previous[i]
      <4> HIDE DEF F
      <4> QED BY <1>15, <2>2
    <3>2. previous[i] \in 0..(next - 1)
      OBVIOUS
    <3> QED BY <1>9, <3>1, <3>2
  <2> QED BY <2>1, <2>2
<1>11. names \in [1..count -> 0..(after - 1)]
  BY <1>1, <1>10
<1>12. ASSUME NEW j \in 1..count, NEW k \in 1..count, names[j] = names[k] PROVE j = k
  <2> HIDE DEF F
  <2>1. CASE j \in F /\ k \in F
    <3>1. place(j) \in Int /\ place(k) \in Int
      BY <1>7, <2>1
    <3>2. place(j) = place(k)
      BY <1>7, <1>12, <2>1, <3>1
    <3> QED BY <1>7, <2>1, <3>2
  <2>2. ASSUME NEW a \in 1..count, NEW b \in 1..count, a \in F, b \notin F
        PROVE  names[a] # names[b]
    <3>1. names[a] >= next
      BY <1>7, <2>2
    <3>2. PICK i \in 1..m : names[b] = previous[i]
      BY <1>15, <2>2
    <3>3. previous[i] \in 0..(next - 1)
      OBVIOUS
    <3> QED BY <3>1, <3>2, <3>3
  <2>3. CASE j \notin F /\ k \notin F
    <3>1. PICK t \in taken : t[3] = j /\ names[j] = t[2]
      BY <1>8, <2>3
    <3>2. PICK u \in taken : u[3] = k /\ names[k] = u[2]
      BY <1>8, <2>3
    <3>3. t = u
      BY <1>4, <1>12, <3>1, <3>2
    <3> QED BY <3>1, <3>2, <3>3
  <2> QED BY <1>12, <2>1, <2>2, <2>3
<1>13. ASSUME NEW i \in 1..m, NEW j \in 1..count, previous[i] = names[j]
       PROVE  cost[<<i, j>>] <= limit
  <2> HIDE DEF F
  <2>1. j \notin F
    <3>1. SUFFICES ASSUME j \in F PROVE FALSE
      OBVIOUS
    <3>2. names[j] >= next
      BY <1>7, <3>1
    <3>3. previous[i] \in 0..(next - 1)
      OBVIOUS
    <3> QED BY <1>13, <3>2, <3>3
  <2>2. PICK t \in taken, k \in 1..m :
            t[3] = j /\ names[j] = t[2] /\ t[2] = previous[k] /\ t[1] = cost[<<k, j>>]
    BY <1>8, <2>1
  <2>3. k = i
    BY <1>13, <2>2
  <2> QED BY <1>4, <2>2, <2>3
<1>14. ASSUME NEW i \in 1..m, NEW j \in 1..count, cost[<<i, j>>] <= limit
       PROVE  \E k \in 1..m, l \in 1..count :
                    /\ previous[k] = names[l] /\ (k = i \/ l = j)
                    /\ cost[<<k, l>>] <= cost[<<i, j>>]
  <2> HIDE DEF F
  <2>1. PICK c \in S : c[1] = cost[<<i, j>>] /\ c[2] = previous[i] /\ c[3] = j
    BY <1>3
  <2>2. PICK t \in taken : (t[2] = c[2] \/ t[3] = c[3]) /\ t[1] <= c[1]
    BY <1>4, <1>14, <2>1
  <2>3. PICK k \in 1..m, l \in 1..count :
            t[1] = cost[<<k, l>>] /\ t[2] = previous[k] /\ t[3] = l
    BY <1>3, <1>4
  <2>4. names[l] = t[2]
    BY <1>6, <2>3
  <2>5. k = i \/ l = j
    BY <2>1, <2>2, <2>3
  <2>6. cost[<<k, l>>] <= cost[<<i, j>>]
    BY <2>1, <2>2, <2>3
  <2>7. previous[k] = names[l]
    BY <2>3, <2>4
  <2> QED BY <2>5, <2>6, <2>7
<1> HIDE DEF F
<1> QED BY <1>9, <1>10, <1>11, <1>12, <1>13, <1>14 DEF Tracks

\* Names are different and older than the next one, and none is used of what is gone.
TrackInv ==
    case.kind = "track" =>
        /\ case.next \in Nat
        /\ \E n \in Nat : case.names \in [1..n -> 0..(case.next - 1)]
        /\ \A i, j \in DOMAIN case.names : case.names[i] = case.names[j] => i = j
        /\ \A x \in case.gone : x \in 0..(case.next - 1) /\ x \notin ToSet(case.names)
        /\ TracksStable

\* Scene after scene, Update keeps the names in order.
LEMMA TrackInvInductive ==
    /\ Init => TrackInv
    /\ Shaped /\ TrackInv /\ [Next]_case => TrackInv'
<1>1. ASSUME Init PROVE TrackInv
  <2>1. SUFFICES ASSUME case.kind = "track" PROVE TrackInv
    BY DEF TrackInv
  <2>2. PICK k \in 1..MaxTracked :
            case = [kind |-> "track", previous |-> <<>>, cost |-> <<>>,
                    names |-> Initialize(k, 0).names, next |-> Initialize(k, 0).next,
                    gone |-> {}]
    BY <1>1, <2>1, InitShaped DEF TrackCase
  <2>3. /\ case.next = k /\ case.names = [i \in 1..k |-> i - 1] /\ case.gone = {}
        /\ case.previous = <<>>
    <3>1. Initialize(k, 0).names = [i \in 1..k |-> 0 + i - 1] /\ Initialize(k, 0).next = 0 + k
      BY DEF Initialize
    <3>2. 0 + k = k /\ [i \in 1..k |-> 0 + i - 1] = [i \in 1..k |-> i - 1]
      BY BoundsAssumption
    <3> QED BY <2>2, <3>1, <3>2
  <2>4. k \in Nat
    BY BoundsAssumption
  <2>5. case.names \in [1..k -> 0..(case.next - 1)]
    BY <2>3, <2>4
  <2>6. \A i, j \in DOMAIN case.names : case.names[i] = case.names[j] => i = j
    BY <2>3, <2>4
  <2>7. DOMAIN case.previous = {}
    BY <2>3
  <2>8. TracksStable
    BY <2>3, <2>6, <2>7 DEF TracksStable
  <2> QED BY <2>3, <2>4, <2>5, <2>6, <2>8 DEF TrackInv
<1>2. ASSUME Shaped, TrackInv, Next PROVE TrackInv'
  <2>1. SUFFICES ASSUME case'.kind = "track" PROVE TrackInv'
    BY DEF TrackInv
  <2>2. case.kind = "track" /\ Track
    BY <1>2, <2>1, NextShaped DEF OfKind
  <2>3. /\ case.next \in Nat
        /\ \A i, j \in DOMAIN case.names : case.names[i] = case.names[j] => i = j
        /\ \A x \in case.gone : x \in 0..(case.next - 1) /\ x \notin ToSet(case.names)
    BY <1>2, <2>2 DEF TrackInv
  <2>4. PICK m \in Nat : case.names \in [1..m -> 0..(case.next - 1)]
    BY <1>2, <2>2 DEF TrackInv
  <2>17. PICK count \in 0..MaxTracked :
          \E cost \in [(DOMAIN case.names) \X (1..count) -> 0..(Limit + 1)] :
          LET new == Update(case.names, count, cost, Limit, case.next)
          IN  case' = [kind |-> "track", previous |-> case.names, cost |-> cost,
                       names |-> new.names, next |-> new.next,
                       gone |-> case.gone \cup (ToSet(case.names) \ ToSet(new.names))]
    BY <2>2 DEF Track
  <2>5. PICK cost \in [(DOMAIN case.names) \X (1..count) -> 0..(Limit + 1)] :
          LET new == Update(case.names, count, cost, Limit, case.next)
          IN  case' = [kind |-> "track", previous |-> case.names, cost |-> cost,
                       names |-> new.names, next |-> new.next,
                       gone |-> case.gone \cup (ToSet(case.names) \ ToSet(new.names))]
    BY <2>17
  <2> DEFINE names == Update(case.names, count, cost, Limit, case.next).names
             after == Update(case.names, count, cost, Limit, case.next).next
  <2>6. /\ case'.previous = case.names /\ case'.cost = cost /\ case'.names = names
        /\ case'.next = after
        /\ case'.gone = case.gone \cup (ToSet(case.names) \ ToSet(names))
    BY <2>5
  <2>7. Limit \in Nat /\ count \in Nat /\ DOMAIN case.names = 1..m
    BY <2>4, BoundsAssumption
  <2>8. cost \in [(1..m) \X (1..count) -> Nat]
    BY <2>7
  <2>9. Tracks(m, count, case.next, Limit, case.names, cost, names, after)
    <3>1. \A i, j \in 1..m : case.names[i] = case.names[j] => i = j
      BY <2>3, <2>7
    <3> QED BY <2>3, <2>4, <2>7, <2>8, <3>1, UpdateTracks
  <2> HIDE DEF names, after
  <2>10. /\ after \in Nat /\ after >= case.next
         /\ names \in [1..count -> 0..(after - 1)]
         /\ \A j, k \in 1..count : names[j] = names[k] => j = k
         /\ \A j \in 1..count :
               names[j] >= case.next \/ \E i \in 1..m : names[j] = case.names[i]
    BY <2>9 DEF Tracks
  <2>11. DOMAIN names = 1..count
    BY <2>10
  <2>12. /\ ToSet(names) = {names[j] : j \in 1..count}
         /\ ToSet(case.names) = {case.names[i] : i \in 1..m}
    BY <2>7, <2>11 DEF ToSet
  <2>13. ASSUME NEW x \in case'.gone PROVE x \in 0..(after - 1) /\ x \notin ToSet(names)
    <3>1. CASE x \in case.gone
      <4>1. x \in 0..(case.next - 1) /\ x \notin ToSet(case.names)
        BY <2>3, <3>1
      <4>2. ASSUME NEW j \in 1..count PROVE names[j] # x
        <5>1. CASE names[j] >= case.next
          BY <2>3, <4>1, <5>1
        <5>2. CASE \E i \in 1..m : names[j] = case.names[i]
          BY <2>12, <4>1, <5>2
        <5> QED BY <2>10, <5>1, <5>2
      <4> QED BY <2>3, <2>10, <2>12, <4>1, <4>2
    <3>2. CASE x \in ToSet(case.names) /\ x \notin ToSet(names)
      <4>1. PICK i \in 1..m : x = case.names[i]
        BY <2>12, <3>2
      <4>2. x \in 0..(case.next - 1)
        BY <2>4, <4>1
      <4> QED BY <2>3, <2>10, <3>2, <4>2
    <3> QED BY <2>6, <3>1, <3>2
  <2>14. TracksStable'
    <3> DEFINE same == {d \in (1..m) \X (1..count) : case.names[d[1]] = names[d[2]]}
    <3>1. \A d \in same : cost[d] <= Limit
      <4>1. ASSUME NEW d \in same PROVE cost[d] <= Limit
        <5>1. d[1] \in 1..m /\ d[2] \in 1..count /\ d = <<d[1], d[2]>>
              /\ case.names[d[1]] = names[d[2]]
          OBVIOUS
        <5>2. cost[<<d[1], d[2]>>] <= Limit
          BY <2>9, <5>1 DEF Tracks
        <5> QED BY <5>1, <5>2
      <4> QED BY <4>1
    <3>2. ASSUME NEW i \in 1..m, NEW j \in 1..count, cost[<<i, j>>] <= Limit
          PROVE  \E d \in same : (d[1] = i \/ d[2] = j) /\ cost[d] <= cost[<<i, j>>]
      <4>1. PICK k \in 1..m, l \in 1..count :
                 /\ case.names[k] = names[l] /\ (k = i \/ l = j)
                 /\ cost[<<k, l>>] <= cost[<<i, j>>]
        BY <2>9, <3>2 DEF Tracks
      <4>2. <<k, l>> \in same /\ <<k, l>>[1] = k /\ <<k, l>>[2] = l
        BY <4>1
      <4> HIDE DEF same
      <4> QED BY <4>1, <4>2
    <3>3. \A i, j \in DOMAIN names : names[i] = names[j] => i = j
      BY <2>10, <2>11
    <3>4. ToSet(names) \cap case'.gone = {}
      BY <2>13
    <3>5. {d \in (DOMAIN case'.previous) \X (DOMAIN case'.names) :
              case'.previous[d[1]] = case'.names[d[2]]} = same
      BY <2>6, <2>7, <2>11
    <3>6. DOMAIN case'.previous = 1..m /\ DOMAIN case'.names = 1..count
      BY <2>6, <2>7, <2>11
    <3> HIDE DEF same
    <3> QED BY <2>6, <2>11, <3>1, <3>2, <3>3, <3>4, <3>5, <3>6 DEF TracksStable
  <2>15. count \in Nat /\ case'.names \in [1..count -> 0..(case'.next - 1)]
    BY <2>6, <2>7, <2>10
  <2> QED BY <2>6, <2>10, <2>11, <2>13, <2>14, <2>15 DEF TrackInv
<1>3. ASSUME TrackInv, case' = case PROVE TrackInv'
  BY <1>3 DEF TrackInv, TracksStable
<1> QED BY <1>1, <1>2, <1>3

\* In every sequence of scenes, of any number of objects and at any cost, no object has the
\* name of another one or of one that is gone, and a cheaper pair goes before a dearer one
\* (tracking.py:50).
THEOREM TrackerIsStable == Spec => []TracksStable
<1>1. TrackInv => TracksStable
  BY DEF TrackInv, TracksStable
<1> QED BY <1>1, TrackInvInductive, AlwaysShaped, PTL DEF Spec

-----------------------------------------------------------------------------
(* The pixels a walk reaches                                               *)

\* No step leads out of the set into the rest of the free pixels.
Closed(set, free, steps) == \A p \in set : Around(p, steps) \cap free \subseteq set

\* The free pixels next to some of a set.
Onward(set, free, steps) == UNION {Around(p, steps) \cap free : p \in set}

\* One layer of a flood.
Grow(free, steps, last) ==
    [inner |-> last.inner \cup last.edge,
     edge |-> Onward(last.edge, free, steps) \ (last.inner \cup last.edge)]

IsFlood(g, region, free, steps, n) ==
    /\ g \in [0..n -> [inner : SUBSET (region \cup free), edge : SUBSET (region \cup free)]]
    /\ g[0] = [inner |-> {}, edge |-> region]
    /\ \A k \in 1..n : g[k] = Grow(free, steps, g[k - 1])

\* A flood grows layer by layer, as often as there are free pixels.
LEMMA FloodRun ==
    ASSUME NEW region, NEW free, IsFiniteSet(free), NEW steps
    PROVE  \E g : /\ IsFlood(g, region, free, steps, Cardinality(free))
                  /\ Flood(region, free, steps)
                         = g[Cardinality(free)].inner \cup g[Cardinality(free)].edge
<1> DEFINE n == Cardinality(free)
           B == [inner : SUBSET (region \cup free), edge : SUBSET (region \cup free)]
           base == [inner |-> {}, edge |-> region]
           F == [k \in 1..n |-> [b \in B |-> Grow(free, steps, b)]]
<1>1. n \in Nat
  BY FS_CardinalityType
<1>2. base \in B /\ \A b \in B : Grow(free, steps, b) \in B
  <2>1. base \in B
    OBVIOUS
  <2>2. ASSUME NEW b \in B PROVE Grow(free, steps, b) \in B
    <3>1. b.inner \subseteq region \cup free /\ b.edge \subseteq region \cup free
      OBVIOUS
    <3> QED BY <3>1 DEF Grow, Onward
  <2> QED BY <2>1, <2>2
<1> HIDE DEF B, base, n
<1>3. F \in [1..n -> [B -> B]]
  BY <1>2
<1>4. PICK g \in [0..n -> B] : g[0] = base /\ \A k \in 1..n : g[k] = F[k][g[k - 1]]
  <2> HIDE DEF F
  <2>1. PICK g \in [0..n -> B] : Runs(g, n, base, F)
    BY <1>1, <1>2, <1>3, RunExists
  <2> QED BY <2>1 DEF Runs
<1>5. ASSUME NEW k \in 0..n
      PROVE  g[k] = IF k = 0 THEN base ELSE Grow(free, steps, g[k - 1])
  <2>1. CASE k = 0
    BY <1>4, <2>1
  <2>2. CASE k # 0
    <3>1. k \in 1..n /\ k - 1 \in 0..n
      BY <1>1, <2>2
    <3>2. g[k - 1] \in B
      BY <3>1
    <3> QED BY <1>4, <2>2, <3>1, <3>2
  <2> QED BY <2>1, <2>2
<1>6. g = [k \in 0..n |-> IF k = 0 THEN base ELSE Grow(free, steps, g[k - 1])]
  BY <1>5
<1> DEFINE c == CHOOSE it : it = [k \in 0..n |->
                                    IF k = 0 THEN base ELSE Grow(free, steps, it[k - 1])]
<1>7. c = [k \in 0..n |-> IF k = 0 THEN base ELSE Grow(free, steps, c[k - 1])]
  BY <1>6
<1>8. Flood(region, free, steps) = c[n].inner \cup c[n].edge
  BY DEF Flood, Grow, Onward, base, n
<1> HIDE DEF c
<1>9. ASSUME NEW k \in 0..n PROVE c[k] = IF k = 0 THEN base ELSE Grow(free, steps, c[k - 1])
  BY <1>7
<1>10. c[0] = base /\ \A k \in 1..n : c[k] = Grow(free, steps, c[k - 1])
  <2>1. 0 \in 0..n
    BY <1>1
  <2>2. c[0] = base
    BY <2>1, <1>9
  <2>3. ASSUME NEW k \in 1..n PROVE c[k] = Grow(free, steps, c[k - 1])
    <3>1. k \in 0..n /\ k # 0
      BY <1>1
    <3> QED BY <3>1, <1>9
  <2> QED BY <2>2, <2>3
<1> DEFINE T == {k \in 0..n : c[k] \in B}
<1>11. 0..n \subseteq T
  <2>1. 0 \in T
    BY <1>1, <1>2, <1>10
  <2>2. ASSUME NEW k \in 1..n, k - 1 \in T PROVE k \in T
    <3>1. k \in 0..n /\ c[k - 1] \in B
      BY <1>1, <2>2
    <3> QED BY <3>1, <1>2, <1>10
  <2> HIDE DEF T
  <2> QED BY <1>1, <2>1, <2>2, Induction
<1>12. c \in [0..n -> B]
  <2>1. \A k \in 0..n : c[k] \in B
    BY <1>11
  <2>2. c = [k \in 0..n |-> c[k]]
    BY <1>7
  <2> QED BY <2>1, <2>2
<1>13. IsFlood(c, region, free, steps, n)
  BY <1>10, <1>12 DEF IsFlood, B, base
<1> QED BY <1>8, <1>13 DEF n

\* So it reaches a set no step leads out of, and the smallest one.
Flooded(set, region, free, steps) ==
    /\ region \subseteq set /\ set \subseteq region \cup free
    /\ Closed(set, free, steps)
    /\ \A other : region \subseteq other /\ Closed(other, free, steps) => set \subseteq other

\* A flood holds where it began and what it can walk to, and nothing that a closed set leaves
\* out.
LEMMA FloodReaches ==
    ASSUME NEW region, NEW free, IsFiniteSet(free), NEW steps
    PROVE  Flooded(Flood(region, free, steps), region, free, steps)
<1> DEFINE n == Cardinality(free)
<1>1. n \in Nat
  BY FS_CardinalityType
<1>2. PICK g : /\ IsFlood(g, region, free, steps, n)
               /\ Flood(region, free, steps) = g[n].inner \cup g[n].edge
  BY FloodRun
<1> DEFINE all(k) == g[k].inner \cup g[k].edge
<1>3. ASSUME NEW k \in 0..n
      PROVE  all(k) \subseteq region \cup free
  <2>1. g[k] \in [inner : SUBSET (region \cup free), edge : SUBSET (region \cup free)]
    BY <1>2 DEF IsFlood
  <2> QED BY <2>1
<1> HIDE DEF n
<1>4. /\ g[0].inner = {} /\ g[0].edge = region
      /\ \A k \in 1..n :
            /\ g[k].inner = all(k - 1)
            /\ g[k].edge = Onward(g[k - 1].edge, free, steps) \ all(k - 1)
  <2>1. g[0] = [inner |-> {}, edge |-> region]
    BY <1>2 DEF IsFlood
  <2>2. ASSUME NEW k \in 1..n
        PROVE  /\ g[k].inner = all(k - 1)
               /\ g[k].edge = Onward(g[k - 1].edge, free, steps) \ all(k - 1)
    <3>1. g[k] = Grow(free, steps, g[k - 1])
      BY <1>2 DEF IsFlood
    <3> QED BY <3>1 DEF Grow
  <2> QED BY <2>1, <2>2
<1> DEFINE Inner(k) == \A p \in g[k].inner : Around(p, steps) \cap free \subseteq all(k)
           T == {k \in 0..n : region \subseteq all(k) /\ Inner(k)
                              /\ (g[k].edge = {} \/ Cardinality(all(k) \cap free) >= k)}
<1>5. 0 \in T
  <2>1. IsFiniteSet(all(0) \cap free) /\ Cardinality(all(0) \cap free) \in Nat
    <3>1. IsFiniteSet(all(0) \cap free)
      BY FS_Intersection
    <3> QED BY <3>1, FS_CardinalityType
  <2>2. 0 \in 0..n /\ region \subseteq all(0) /\ Inner(0)
    BY <1>1, <1>4
  <2> HIDE DEF all, Inner
  <2>3. Cardinality(all(0) \cap free) >= 0
    BY <2>1
  <2> QED BY <2>2, <2>3
<1>6. ASSUME NEW k \in 1..n, k - 1 \in T PROVE k \in T
  <2> DEFINE j == k - 1
  <2>1. /\ j \in 0..n /\ region \subseteq all(j) /\ Inner(j)
        /\ g[j].edge = {} \/ Cardinality(all(j) \cap free) >= j
        /\ j + 1 = k /\ k \in 0..n
    BY <1>1, <1>6
  <2>2. /\ g[k].inner = all(j)
        /\ g[k].edge = Onward(g[j].edge, free, steps) \ all(j)
    BY <1>4
  <2> HIDE DEF j, T
  <2>3. region \subseteq all(k)
    BY <2>1, <2>2
  <2>4. Inner(k)
    <3>1. ASSUME NEW p \in g[k].inner, NEW q \in Around(p, steps) \cap free PROVE q \in all(k)
      <4>1. CASE p \in g[j].inner
        <5>1. q \in all(j)
          BY <2>1, <4>1
        <5> QED BY <2>2, <5>1
      <4>2. CASE p \in g[j].edge
        <5>1. Around(p, steps) \cap free \in {Around(r, steps) \cap free : r \in g[j].edge}
          BY <4>2
        <5>2. q \in Onward(g[j].edge, free, steps)
          BY <3>1, <5>1 DEF Onward
        <5>3. q \in g[k].inner \/ q \in g[k].edge
          BY <2>2, <5>2
        <5> QED BY <5>3
      <4>3. p \in all(j)
        BY <2>2, <3>1
      <4> QED BY <4>1, <4>2, <4>3
    <3> QED BY <3>1
  <2>5. ASSUME g[k].edge # {} PROVE Cardinality(all(k) \cap free) >= k
    <3>1. PICK q \in g[k].edge : TRUE
      BY <2>5
    <3>2. q \in free /\ q \notin all(j) /\ g[j].edge # {}
      <4>1. q \in Onward(g[j].edge, free, steps) /\ q \notin all(j)
        BY <2>2, <3>1
      <4>2. PICK r \in g[j].edge : q \in Around(r, steps) \cap free
        BY <4>1 DEF Onward
      <4> HIDE DEF all
      <4> QED BY <4>1, <4>2
    <3> DEFINE C == all(j) \cap free
               D == all(k) \cap free
    <3>3. IsFiniteSet(C) /\ IsFiniteSet(D) /\ C \cup {q} \subseteq D /\ q \notin C
      <4>1. IsFiniteSet(C) /\ IsFiniteSet(D)
        BY FS_Intersection
      <4> QED BY <4>1, <2>2, <3>2
    <3>4. Cardinality(C) >= j
      BY <2>1, <3>2
    <3> HIDE DEF C, D
    <3>5. Cardinality(C \cup {q}) = Cardinality(C) + 1
      BY <3>3, FS_AddElement
    <3>6. Cardinality(C \cup {q}) <= Cardinality(D)
      BY <3>3, FS_Subset
    <3>7. Cardinality(C) \in Nat /\ Cardinality(D) \in Nat
      BY <3>3, FS_CardinalityType
    <3>8. Cardinality(D) >= k
      BY <3>4, <3>5, <3>6, <3>7, <2>1
    <3> QED BY <3>8 DEF D
  <2> QED BY <2>1, <2>3, <2>4, <2>5 DEF T
<1>7. n \in T
  <2> HIDE DEF T
  <2>1. 0..n \subseteq T
    BY <1>1, <1>5, <1>6, Induction
  <2> QED BY <1>1, <2>1
<1>8. Closed(all(n), free, steps)
  <2>1. CASE g[n].edge = {}
    BY <1>7, <2>1 DEF Closed
  <2>2. CASE Cardinality(all(n) \cap free) >= n
    <3>1. all(n) \cap free \in SUBSET free
      OBVIOUS
    <3>2. Cardinality(all(n) \cap free) <= n
      BY <3>1, FS_Subset DEF n
    <3>3. IsFiniteSet(all(n) \cap free)
      BY FS_Intersection
    <3>4. Cardinality(all(n) \cap free) \in Nat
      BY <3>3, FS_CardinalityType
    <3>5. Cardinality(all(n) \cap free) = Cardinality(free)
      BY <1>1, <2>2, <3>2, <3>4 DEF n
    <3>6. all(n) \cap free = free
      BY <3>1, <3>5, FS_Subset
    <3> QED BY <3>6 DEF Closed
  <2> QED BY <1>7, <2>1, <2>2
<1>9. ASSUME NEW other, region \subseteq other, Closed(other, free, steps)
      PROVE  all(n) \subseteq other
  <2> DEFINE U == {k \in 0..n : all(k) \subseteq other}
  <2>1. 0 \in U
    BY <1>1, <1>4, <1>9
  <2>2. ASSUME NEW k \in 1..n, k - 1 \in U PROVE k \in U
    <3>1. all(k - 1) \subseteq other /\ k \in 0..n
      BY <1>1, <2>2
    <3>2. g[k].edge \subseteq other
      BY <1>4, <1>9, <3>1 DEF Closed, Onward
    <3> QED BY <1>4, <3>1, <3>2
  <2> HIDE DEF U
  <2>3. 0..n \subseteq U
    BY <1>1, <2>1, <2>2, Induction
  <2> QED BY <1>1, <2>3 DEF U
<1>10. n \in 0..n /\ region \subseteq all(n) /\ Flood(region, free, steps) = all(n)
  BY <1>1, <1>2, <1>7
<1>11. all(n) \subseteq region \cup free
  BY <1>3, <1>10
<1> HIDE DEF all
<1> QED BY <1>8, <1>9, <1>10, <1>11 DEF Flooded

-----------------------------------------------------------------------------
(* Regions                                                                 *)

\* Steps to both sides.
Symmetric(steps) ==
    /\ steps \subseteq Int \X Int
    /\ \A d \in steps : <<-d[1], -d[2]>> \in steps

\* Both ways of stepping go to both sides.
LEMMA StepsFact == Symmetric(Steps4) /\ Symmetric(Steps8) /\ Steps4 \subseteq Steps8
<1>1. Steps4 \subseteq Steps8
  BY DEF Steps8
<1>2. Steps4 \subseteq Int \X Int /\ Steps8 \subseteq Int \X Int
  BY DEF Steps4, Steps8
<1>3. ASSUME NEW d \in Steps4 PROVE <<-d[1], -d[2]>> \in Steps4
  <2>1. d = <<1, 0>> \/ d = <<-1, 0>> \/ d = <<0, 1>> \/ d = <<0, -1>>
    BY DEF Steps4
  <2>2. <<-d[1], -d[2]>> \in {<<-1, 0>>, <<1, 0>>, <<0, -1>>, <<0, 1>>}
    BY <2>1
  <2> QED BY <2>2 DEF Steps4
<1>4. ASSUME NEW d \in Steps8 \ Steps4 PROVE <<-d[1], -d[2]>> \in Steps8
  <2>1. d = <<1, 1>> \/ d = <<1, -1>> \/ d = <<-1, 1>> \/ d = <<-1, -1>>
    BY DEF Steps8
  <2>2. <<-d[1], -d[2]>> \in {<<-1, -1>>, <<-1, 1>>, <<1, -1>>, <<1, 1>>}
    BY <2>1
  <2> QED BY <2>2 DEF Steps8
<1> QED BY <1>1, <1>2, <1>3, <1>4 DEF Symmetric

\* What is around a pixel has the pixel around it.
LEMMA AroundFact ==
    ASSUME NEW steps, Symmetric(steps), NEW p \in Int \X Int, NEW q \in Int \X Int
    PROVE  /\ q \in Around(p, steps) <=> <<q[1] - p[1], q[2] - p[2]>> \in steps
           /\ q \in Around(p, steps) <=> p \in Around(q, steps)
<1>1. ASSUME NEW a \in Int \X Int, NEW b \in Int \X Int
      PROVE  b \in Around(a, steps) <=> <<b[1] - a[1], b[2] - a[2]>> \in steps
  <2>1. ASSUME b \in Around(a, steps) PROVE <<b[1] - a[1], b[2] - a[2]>> \in steps
    <3>1. PICK d \in steps : b = <<a[1] + d[1], a[2] + d[2]>>
      BY <2>1 DEF Around
    <3>2. d = <<d[1], d[2]>> /\ d[1] \in Int /\ d[2] \in Int /\ a[1] \in Int /\ a[2] \in Int
      BY DEF Symmetric
    <3>3. b[1] - a[1] = d[1] /\ b[2] - a[2] = d[2]
      BY <3>1, <3>2
    <3> QED BY <3>2, <3>3
  <2>2. ASSUME <<b[1] - a[1], b[2] - a[2]>> \in steps PROVE b \in Around(a, steps)
    <3> DEFINE d == <<b[1] - a[1], b[2] - a[2]>>
    <3>1. a[1] \in Int /\ a[2] \in Int /\ b[1] \in Int /\ b[2] \in Int /\ b = <<b[1], b[2]>>
      OBVIOUS
    <3>2. a[1] + d[1] = b[1] /\ a[2] + d[2] = b[2]
      BY <3>1
    <3>3. d \in steps /\ b = <<a[1] + d[1], a[2] + d[2]>>
      BY <2>2, <3>1, <3>2
    <3> HIDE DEF d
    <3> QED BY <3>3 DEF Around
  <2> QED BY <2>1, <2>2
<1>2. <<q[1] - p[1], q[2] - p[2]>> \in steps <=> <<p[1] - q[1], p[2] - q[2]>> \in steps
  <2>1. ASSUME NEW a \in Int \X Int, NEW b \in Int \X Int, <<b[1] - a[1], b[2] - a[2]>> \in steps
        PROVE  <<a[1] - b[1], a[2] - b[2]>> \in steps
    <3> DEFINE d == <<b[1] - a[1], b[2] - a[2]>>
    <3>1. a[1] \in Int /\ a[2] \in Int /\ b[1] \in Int /\ b[2] \in Int
      OBVIOUS
    <3>2. -d[1] = a[1] - b[1] /\ -d[2] = a[2] - b[2]
      BY <3>1
    <3>3. <<-d[1], -d[2]>> \in steps
      BY <2>1 DEF Symmetric
    <3> QED BY <3>2, <3>3
  <2> QED BY <2>1
<1> QED BY <1>1, <1>2

\* A region: not empty, with everything next to it, and nothing less is that.
IsRegion(region, pixels, steps) ==
    /\ region \subseteq pixels /\ region # {}
    /\ Closed(region, pixels, steps)
    /\ \A set \in SUBSET pixels :
           Closed(set, pixels, steps) /\ set \cap region # {} => region \subseteq set

\* What is left of closed pixels is closed.
LEMMA RestClosed ==
    ASSUME NEW pixels \in SUBSET (Int \X Int), NEW steps, Symmetric(steps),
           NEW set \in SUBSET pixels, Closed(set, pixels, steps)
    PROVE  Closed(pixels \ set, pixels, steps)
<1>1. ASSUME NEW p \in pixels \ set, NEW q \in Around(p, steps) \cap pixels, q \in set
      PROVE  FALSE
  <2>1. p \in Around(q, steps)
    BY <1>1, AroundFact
  <2> QED BY <1>1, <2>1 DEF Closed
<1> QED BY <1>1 DEF Closed

\* What is flooded from a pixel is a region with that pixel.
LEMMA RegionOf ==
    ASSUME NEW pixels \in SUBSET (Int \X Int), IsFiniteSet(pixels), NEW steps, Symmetric(steps),
           NEW p \in pixels
    PROVE  /\ IsRegion(Flood({p}, pixels \ {p}, steps), pixels, steps)
           /\ p \in Flood({p}, pixels \ {p}, steps)
<1> DEFINE R == Flood({p}, pixels \ {p}, steps)
<1>1. IsFiniteSet(pixels \ {p})
  BY FS_Difference
<1>2. Flooded(R, {p}, pixels \ {p}, steps)
  BY <1>1, FloodReaches
<1> HIDE DEF R
<1>3. p \in R /\ R \subseteq pixels /\ Closed(R, pixels, steps)
  BY <1>2 DEF Flooded, Closed
<1>4. ASSUME NEW set \in SUBSET pixels, Closed(set, pixels, steps), p \in set
      PROVE  R \subseteq set
  <2>1. Closed(set, pixels \ {p}, steps)
    BY <1>4 DEF Closed
  <2> QED BY <1>2, <1>4, <2>1 DEF Flooded
<1>5. ASSUME NEW set \in SUBSET pixels, Closed(set, pixels, steps), set \cap R # {}
      PROVE  R \subseteq set
  <2>1. CASE p \in set
    BY <1>4, <1>5, <2>1
  <2>2. CASE p \notin set
    <3>1. Closed(pixels \ set, pixels, steps)
      BY <1>5, RestClosed
    <3>2. R \subseteq pixels \ set
      BY <1>4, <2>2, <3>1
    <3> QED BY <1>5, <3>2
  <2> QED BY <2>1, <2>2
<1>6. IsRegion(R, pixels, steps)
  BY <1>3, <1>5 DEF IsRegion
<1> QED BY <1>3, <1>6 DEF R

\* Two regions are the same one or have nothing in common.
LEMMA RegionsApart ==
    ASSUME NEW pixels, NEW steps, NEW R, NEW Q,
           IsRegion(R, pixels, steps), IsRegion(Q, pixels, steps), R \cap Q # {}
    PROVE  R = Q
BY DEF IsRegion

\* Regions finds every region, and every pixel is in one.
LEMMA RegionsFact ==
    ASSUME NEW pixels \in SUBSET (Int \X Int), IsFiniteSet(pixels), NEW steps, Symmetric(steps)
    PROVE  /\ \A R : R \in Regions(pixels, steps) <=> IsRegion(R, pixels, steps)
           /\ \A p \in pixels : \E R \in Regions(pixels, steps) : p \in R
<1>1. ASSUME NEW R \in Regions(pixels, steps) PROVE IsRegion(R, pixels, steps)
  <2>1. PICK p \in pixels : R = Flood({p}, pixels \ {p}, steps)
    BY DEF Regions
  <2> QED BY <2>1, RegionOf
<1>2. ASSUME NEW p \in pixels
      PROVE  Flood({p}, pixels \ {p}, steps) \in Regions(pixels, steps)
             /\ p \in Flood({p}, pixels \ {p}, steps)
  BY RegionOf DEF Regions
<1>3. ASSUME NEW R, IsRegion(R, pixels, steps) PROVE R \in Regions(pixels, steps)
  <2>1. PICK p \in R : p \in pixels
    BY <1>3 DEF IsRegion
  <2>2. Flood({p}, pixels \ {p}, steps) \in Regions(pixels, steps)
        /\ p \in Flood({p}, pixels \ {p}, steps)
    BY <1>2, <2>1
  <2>3. R = Flood({p}, pixels \ {p}, steps)
    BY <1>1, <1>3, <2>1, <2>2, RegionsApart
  <2> QED BY <2>2, <2>3
<1> QED BY <1>1, <1>2, <1>3

\* A region is in one piece, and two of them are not.
LEMMA RegionJoined ==
    ASSUME NEW pixels \in SUBSET (Int \X Int), NEW steps, Symmetric(steps), NEW R,
           IsRegion(R, pixels, steps)
    PROVE  Joined(R, steps)
<1>1. ASSUME NEW part \in (SUBSET R) \ {{}, R},
             \A p \in part, q \in R \ part : <<q[1] - p[1], q[2] - p[2]>> \notin steps
      PROVE  FALSE
  <2>1. part \in SUBSET pixels /\ part \cap R # {} /\ ~(R \subseteq part)
    BY DEF IsRegion
  <2>2. ASSUME NEW p \in part, NEW q \in Around(p, steps) \cap pixels PROVE q \in part
    <3>1. q \in R
      BY DEF IsRegion, Closed
    <3>2. <<q[1] - p[1], q[2] - p[2]>> \in steps
      BY <2>1, AroundFact
    <3> QED BY <1>1, <3>1, <3>2
  <2>3. Closed(part, pixels, steps)
    BY <2>2 DEF Closed
  <2> QED BY <2>1, <2>3 DEF IsRegion
<1> QED BY <1>1 DEF Joined

\* Two regions have nothing in common, do not touch, and are not joined.
LEMMA RegionsNotJoined ==
    ASSUME NEW pixels \in SUBSET (Int \X Int), NEW steps, Symmetric(steps), NEW R, NEW Q,
           IsRegion(R, pixels, steps), IsRegion(Q, pixels, steps), R # Q
    PROVE  /\ R \cap Q = {}
           /\ ~Joined(R \cup Q, steps)
           /\ \A p \in R : Around(p, steps) \cap Q = {}
<1>1. R \cap Q = {} /\ R # {} /\ Q # {} /\ R \subseteq pixels /\ Q \subseteq pixels
  BY RegionsApart DEF IsRegion
<1>2. ASSUME NEW p \in R, NEW q \in Q, q \in Around(p, steps) PROVE FALSE
  <2>1. q \in R
    BY <1>1, <1>2 DEF IsRegion, Closed
  <2> QED BY <1>1, <2>1
<1>3. ~Joined(R \cup Q, steps)
  <2>1. R \in (SUBSET (R \cup Q)) \ {{}, R \cup Q} /\ (R \cup Q) \ R = Q
    BY <1>1
  <2>2. ASSUME NEW p \in R, NEW q \in Q PROVE <<q[1] - p[1], q[2] - p[2]>> \notin steps
    BY <1>1, <1>2, AroundFact
  <2> HIDE DEF IsRegion
  <2>3. SUFFICES ASSUME Joined(R \cup Q, steps) PROVE FALSE
    OBVIOUS
  <2>4. \E p \in R, q \in (R \cup Q) \ R : <<q[1] - p[1], q[2] - p[2]>> \in steps
    BY <2>1, <2>3 DEF Joined
  <2> QED BY <2>1, <2>2, <2>4
<1> QED BY <1>1, <1>2, <1>3

-----------------------------------------------------------------------------
(* Boxes                                                                   *)

\* A finite set that is not empty has a first element, in any strict order.
LEMMA FirstOf ==
    ASSUME NEW S, IsFiniteSet(S), S # {}, NEW R, StrictOrder(S, R)
    PROVE  \E x \in S : \A y \in S \ {x} : <<x, y>> \in R
<1> DEFINE Position(a) == Cardinality(Below(S, R, a))
<1>1. /\ Cardinality(S) \in Nat
      /\ \A a \in S : Position(a) \in 0..(Cardinality(S) - 1)
      /\ \A a, b \in S : <<a, b>> \in R <=> Position(a) < Position(b)
      /\ \A a, b \in S : Position(a) = Position(b) => a = b
      /\ \A i \in 1..Cardinality(S) : \E a \in S : Position(a) = i - 1
  BY Places
<1> HIDE DEF Position
<1>2. Cardinality(S) # 0
  BY FS_EmptySet
<1>3. 1 \in 1..Cardinality(S)
  BY <1>1, <1>2
<1>4. PICK x \in S : Position(x) = 1 - 1
  BY <1>1, <1>3
<1>5. ASSUME NEW y \in S \ {x} PROVE <<x, y>> \in R
  <2>1. Position(y) \in 0..(Cardinality(S) - 1) /\ Position(y) # Position(x) /\ y \in S
    BY <1>1
  <2>2. Position(x) < Position(y)
    BY <1>1, <1>4, <2>1
  <2> QED BY <1>1, <2>1, <2>2
<1> QED BY <1>5

\* A finite set of integers has a least and a largest one, and Min and Max find them.
LEMMA MinOfIntegers ==
    ASSUME NEW S \in SUBSET Int, IsFiniteSet(S), S # {}
    PROVE  /\ Min(S) \in S /\ \A y \in S : Min(S) <= y
           /\ Max(S) \in S /\ \A y \in S : y <= Max(S)
<1>1. \E x \in S : \A y \in S : x <= y
  <2> DEFINE R == {q \in S \X S : q[1] < q[2]}
  <2>1. StrictOrder(S, R)
    BY DEF StrictOrder
  <2> HIDE DEF R
  <2>2. PICK x \in S : \A y \in S \ {x} : <<x, y>> \in R
    BY <2>1, FirstOf
  <2>3. ASSUME NEW y \in S PROVE x <= y
    <3>1. x \in Int /\ y \in Int /\ (x = y \/ <<x, y>> \in R)
      BY <2>2
    <3> QED BY <3>1 DEF R
  <2> QED BY <2>3
<1>2. \E x \in S : \A y \in S : y <= x
  <2> DEFINE R == {q \in S \X S : q[2] < q[1]}
  <2>1. StrictOrder(S, R)
    BY DEF StrictOrder
  <2> HIDE DEF R
  <2>2. PICK x \in S : \A y \in S \ {x} : <<x, y>> \in R
    BY <2>1, FirstOf
  <2>3. ASSUME NEW y \in S PROVE y <= x
    <3>1. x \in Int /\ y \in Int /\ (x = y \/ <<x, y>> \in R)
      BY <2>2
    <3> QED BY <3>1 DEF R
  <2> QED BY <2>3
<1>3. Min(S) \in S /\ \A y \in S : Min(S) <= y
  BY <1>1 DEF Min
<1>4. Max(S) \in S /\ \A y \in S : Max(S) >= y
  BY <1>2 DEF Max
<1> QED BY <1>3, <1>4

ImageOf(f, S) == {f[x] : x \in S}

\* The values of a function on a finite set are finitely many.
LEMMA ImageFinite ==
    ASSUME NEW S, IsFiniteSet(S), NEW T, NEW f \in [S -> T]
    PROVE  IsFiniteSet(ImageOf(f, S))
<1>1. f \in Surjection(S, ImageOf(f, S))
  BY DEF Surjection, ImageOf
<1> QED BY <1>1, FS_Surjection

\* The box of some pixels, by its sides.
IsBox(box, pixels) ==
    /\ box = [x |-> box.x, y |-> box.y, width |-> box.width, height |-> box.height]
    /\ box.x \in Int /\ box.y \in Int /\ Right(box) \in Int /\ Bottom(box) \in Int
    /\ box.width = Right(box) - box.x + 1 /\ box.height = Bottom(box) - box.y + 1
    /\ \A p \in pixels : p[1] \in box.x..Right(box) /\ p[2] \in box.y..Bottom(box)
    /\ \E p \in pixels : p[1] = box.x
    /\ \E p \in pixels : p[1] = Right(box)
    /\ \E p \in pixels : p[2] = box.y
    /\ \E p \in pixels : p[2] = Bottom(box)

\* Box holds all pixels, and has one of them on each side.
LEMMA BoxFact ==
    ASSUME NEW pixels \in SUBSET (Int \X Int), IsFiniteSet(pixels), pixels # {}
    PROVE  IsBox(Box(pixels), pixels)
<1> DEFINE xs == {p[1] : p \in pixels}
           ys == {p[2] : p \in pixels}
           b == Box(pixels)
<1>1. xs \in SUBSET Int /\ xs # {} /\ IsFiniteSet(xs)
  <2> DEFINE f == [p \in pixels |-> p[1]]
  <2>1. f \in [pixels -> Int]
    OBVIOUS
  <2>2. xs = ImageOf(f, pixels)
    BY DEF ImageOf
  <2> HIDE DEF f
  <2>3. IsFiniteSet(xs)
    BY <2>1, <2>2, ImageFinite
  <2>4. xs \in SUBSET Int
    OBVIOUS
  <2>5. xs # {}
    OBVIOUS
  <2> QED BY <2>3, <2>4, <2>5
<1>2. ys \in SUBSET Int /\ ys # {} /\ IsFiniteSet(ys)
  <2> DEFINE f == [p \in pixels |-> p[2]]
  <2>1. f \in [pixels -> Int]
    OBVIOUS
  <2>2. ys = ImageOf(f, pixels)
    BY DEF ImageOf
  <2> HIDE DEF f
  <2>3. IsFiniteSet(ys)
    BY <2>1, <2>2, ImageFinite
  <2>4. ys \in SUBSET Int
    OBVIOUS
  <2>5. ys # {}
    OBVIOUS
  <2> QED BY <2>3, <2>4, <2>5
<1>3. b = [x |-> Min(xs), y |-> Min(ys),
           width |-> Max(xs) - Min(xs) + 1, height |-> Max(ys) - Min(ys) + 1]
  BY DEF Box
<1> DEFINE x1 == Min(xs)
           x2 == Max(xs)
           y1 == Min(ys)
           y2 == Max(ys)
<1> HIDE DEF b
<1>4. x1 \in xs /\ x2 \in xs /\ \A x \in xs : x1 <= x /\ x <= x2
  <2> HIDE DEF xs
  <2> QED BY <1>1, MinOfIntegers
<1>5. y1 \in ys /\ y2 \in ys /\ \A y \in ys : y1 <= y /\ y <= y2
  <2> HIDE DEF ys
  <2> QED BY <1>2, MinOfIntegers
<1> HIDE DEF x1, x2, y1, y2
<1>6. x1 \in Int /\ x2 \in Int /\ y1 \in Int /\ y2 \in Int
  BY <1>4, <1>5
<1>7. b = [x |-> x1, y |-> y1, width |-> x2 - x1 + 1, height |-> y2 - y1 + 1]
  BY <1>3 DEF x1, x2, y1, y2
<1>8. b.x = x1 /\ b.y = y1 /\ b.width = x2 - x1 + 1 /\ b.height = y2 - y1 + 1
  BY <1>7
<1>9. Right(b) = x2 /\ Bottom(b) = y2
  BY <1>6, <1>8 DEF Right, Bottom
<1>10. ASSUME NEW p \in pixels PROVE p[1] \in x1..x2 /\ p[2] \in y1..y2
  <2>1. p[1] \in xs /\ p[2] \in ys /\ p[1] \in Int /\ p[2] \in Int
    OBVIOUS
  <2> QED BY <1>4, <1>5, <1>6, <2>1
<1>11. /\ \E p \in pixels : p[1] = x1
       /\ \E p \in pixels : p[1] = x2
       /\ \E p \in pixels : p[2] = y1
       /\ \E p \in pixels : p[2] = y2
  BY <1>4, <1>5
<1>12. b = [x |-> b.x, y |-> b.y, width |-> b.width, height |-> b.height]
  BY <1>7, <1>8
<1>13. IsBox(b, pixels)
  <2> HIDE DEF xs, ys
  <2> QED BY <1>6, <1>8, <1>9, <1>10, <1>11, <1>12 DEF IsBox
<1> QED BY <1>13 DEF b

-----------------------------------------------------------------------------
(* Holes                                                                   *)

\* Numbers in a row, one after the other.
LEMMA RowCovered ==
    ASSUME NEW a \in Int, NEW b \in Int, NEW T, a \in T,
           \A k \in a..(b - 1) : k \in T => k + 1 \in T
    PROVE  a..b \subseteq T
<1>1. CASE b < a
  BY <1>1
<1>2. CASE a <= b
  <2> DEFINE n == b - a
             U == {i \in 0..n : a + i \in T}
  <2>1. n \in Nat
    BY <1>2
  <2>2. 0 \in U
    BY <2>1
  <2>3. ASSUME NEW i \in 1..n, i - 1 \in U PROVE i \in U
    <3> DEFINE k == a + (i - 1)
    <3>1. k \in a..(b - 1) /\ k \in T /\ k + 1 = a + i /\ i \in 0..n
      BY <2>1, <2>3
    <3> HIDE DEF k
    <3>2. k + 1 \in T
      BY <3>1
    <3> QED BY <3>1, <3>2
  <2> HIDE DEF U
  <2>4. 0..n \subseteq U
    BY <2>1, <2>2, <2>3, Induction
  <2>5. ASSUME NEW k \in a..b PROVE k \in T
    <3>1. k - a \in 0..n /\ a + (k - a) = k
      BY <1>2
    <3>2. k - a \in U
      BY <2>4, <3>1
    <3> QED BY <3>1, <3>2 DEF U
  <2> QED BY <2>5
<1> QED BY <1>1, <1>2

\* A box by its sides, the box with a margin, and what a walk around the box reaches.
Inner(l, r, t, m) == (l..r) \X (t..m)
Frame(l, r, t, m) == ((l - 1)..(r + 1)) \X ((t - 1)..(m + 1))
Outside(pixels, l, r, t, m) ==
    Flood({<<l - 1, t - 1>>}, Frame(l, r, t, m) \ pixels, Steps4)

Boxed(pixels, l, r, t, m) ==
    /\ l \in Int /\ r \in Int /\ t \in Int /\ m \in Int /\ l <= r /\ t <= m
    /\ pixels \subseteq Inner(l, r, t, m)

\* The outside holds the corner, leaves out the shape, and is closed.
LEMMA OutsideFact ==
    ASSUME NEW P, NEW l, NEW r, NEW t, NEW m, Boxed(P, l, r, t, m)
    PROVE  /\ Frame(l, r, t, m) \subseteq Int \X Int
           /\ IsFiniteSet(Frame(l, r, t, m)) /\ IsFiniteSet(Inner(l, r, t, m))
           /\ Inner(l, r, t, m) \subseteq Frame(l, r, t, m)
           /\ <<l - 1, t - 1>> \in Outside(P, l, r, t, m)
           /\ Outside(P, l, r, t, m) \subseteq Frame(l, r, t, m) \ P
           /\ Closed(Outside(P, l, r, t, m), Frame(l, r, t, m) \ P, Steps4)
           /\ \A set : /\ <<l - 1, t - 1>> \in set
                       /\ Closed(set, Frame(l, r, t, m) \ P, Steps4)
                       => Outside(P, l, r, t, m) \subseteq set
<1> DEFINE F == Frame(l, r, t, m)
           corner == <<l - 1, t - 1>>
           out == Outside(P, l, r, t, m)
<1>1. F \subseteq Int \X Int /\ IsFiniteSet(F) /\ IsFiniteSet(Inner(l, r, t, m))
  <2>1. l - 1 \in Int /\ r + 1 \in Int /\ t - 1 \in Int /\ m + 1 \in Int
        /\ l \in Int /\ r \in Int /\ t \in Int /\ m \in Int
    BY DEF Boxed
  <2>2. IsFiniteSet((l - 1)..(r + 1)) /\ IsFiniteSet((t - 1)..(m + 1))
        /\ IsFiniteSet(l..r) /\ IsFiniteSet(t..m)
    BY <2>1, FS_Interval
  <2>3. IsFiniteSet(F) /\ IsFiniteSet(Inner(l, r, t, m))
    BY <2>2, FS_Product DEF Frame, Inner
  <2>4. F \subseteq Int \X Int
    BY <2>1 DEF Frame
  <2> QED BY <2>3, <2>4
<1>2. Inner(l, r, t, m) \subseteq F
  BY DEF Boxed, Inner, Frame
<1>3. corner \in F \ P
  BY DEF Boxed, Inner, Frame
<1>4. IsFiniteSet(F \ P)
  BY <1>1, FS_Difference
<1> HIDE DEF F, corner
<1>5. Flooded(out, {corner}, F \ P, Steps4)
  BY <1>4, FloodReaches DEF Outside, F, corner
<1> HIDE DEF out
<1>6. corner \in out /\ out \subseteq F \ P /\ Closed(out, F \ P, Steps4)
  BY <1>3, <1>5 DEF Flooded
<1>7. \A set : corner \in set /\ Closed(set, F \ P, Steps4) => out \subseteq set
  BY <1>5 DEF Flooded
<1> QED BY <1>1, <1>2, <1>6, <1>7 DEF F, corner, out

\* Steps along a row and along a column.
LEMMA NextPixels ==
    ASSUME NEW k \in Int, NEW j \in Int
    PROVE  /\ <<k + 1, j>> \in Around(<<k, j>>, Steps4)
           /\ <<k - 1, j>> \in Around(<<k, j>>, Steps4)
           /\ <<k, j + 1>> \in Around(<<k, j>>, Steps4)
           /\ <<k, j - 1>> \in Around(<<k, j>>, Steps4)
<1> DEFINE p == <<k, j>>
<1>1. \A d \in Steps4 : <<p[1] + d[1], p[2] + d[2]>> \in Around(p, Steps4)
  BY DEF Around
<1>2. <<1, 0>> \in Steps4 /\ <<-1, 0>> \in Steps4 /\ <<0, 1>> \in Steps4 /\ <<0, -1>> \in Steps4
  BY DEF Steps4
<1>3. p[1] = k /\ p[2] = j
  OBVIOUS
<1> HIDE DEF p
<1>4. <<k + 1, j + 0>> \in Around(p, Steps4)
  BY <1>1, <1>2, <1>3
<1>5. <<k + (-1), j + 0>> \in Around(p, Steps4)
  BY <1>1, <1>2, <1>3
<1>6. <<k + 0, j + 1>> \in Around(p, Steps4)
  BY <1>1, <1>2, <1>3
<1>7. <<k + 0, j + (-1)>> \in Around(p, Steps4)
  BY <1>1, <1>2, <1>3
<1>8. j + 0 = j /\ k + 0 = k /\ k + (-1) = k - 1 /\ j + (-1) = j - 1
  OBVIOUS
<1> QED BY <1>4, <1>5, <1>6, <1>7, <1>8 DEF p

\* The margin of the box is outside.
LEMMA MarginOutside ==
    ASSUME NEW P, NEW l, NEW r, NEW t, NEW m, Boxed(P, l, r, t, m),
           NEW q \in Frame(l, r, t, m) \ Inner(l, r, t, m)
    PROVE  q \in Outside(P, l, r, t, m)
<1> DEFINE F == Frame(l, r, t, m)
           out == Outside(P, l, r, t, m)
<1>1. l \in Int /\ r \in Int /\ t \in Int /\ m \in Int /\ l <= r /\ t <= m
  BY DEF Boxed
<1>2. <<l - 1, t - 1>> \in out /\ Closed(out, F \ P, Steps4)
  BY OutsideFact
<1>3. \A x, y \in Int : <<x, y>> \in F <=> l - 1 <= x /\ x <= r + 1 /\ t - 1 <= y /\ y <= m + 1
  BY <1>1 DEF Frame
<1>4. \A x, y \in Int : x < l \/ x > r \/ y < t \/ y > m => <<x, y>> \notin P
  BY <1>1 DEF Boxed, Inner
<1> HIDE DEF F, out
<1>5. ASSUME NEW x \in Int, NEW y \in Int, <<x, y>> \in out
      PROVE  /\ <<x + 1, y>> \in F \ P => <<x + 1, y>> \in out
             /\ <<x, y + 1>> \in F \ P => <<x, y + 1>> \in out
  <2>1. <<x + 1, y>> \in Around(<<x, y>>, Steps4) /\ <<x, y + 1>> \in Around(<<x, y>>, Steps4)
    BY NextPixels
  <2>2. Around(<<x, y>>, Steps4) \cap (F \ P) \subseteq out
    BY <1>2, <1>5 DEF Closed
  <2> QED BY <2>1, <2>2
<1>6. ASSUME NEW y \in {t - 1, m + 1}, <<l - 1, y>> \in out
      PROVE  \A x \in (l - 1)..(r + 1) : <<x, y>> \in out
  <2> DEFINE T == {x \in Int : <<x, y>> \in out}
             a == l - 1
             b == r + 1
  <2>1. y \in Int /\ (y < t \/ y > m) /\ t - 1 <= y /\ y <= m + 1 /\ a \in Int /\ b \in Int
    BY <1>1
  <2>2. a \in T
    BY <1>6, <2>1
  <2>3. ASSUME NEW k \in a..(b - 1), k \in T PROVE k + 1 \in T
    <3>1. k \in Int /\ k + 1 \in Int /\ l - 1 <= k + 1 /\ k + 1 <= r + 1
      BY <1>1, <2>1
    <3>2. <<k + 1, y>> \in F \ P
      BY <1>3, <1>4, <2>1, <3>1
    <3> QED BY <1>5, <2>1, <2>3, <3>1, <3>2
  <2> HIDE DEF T, a, b
  <2>4. a..b \subseteq T
    BY <2>1, <2>2, <2>3, RowCovered
  <2> QED BY <2>4 DEF T, a, b
<1>7. ASSUME NEW x \in {l - 1, r + 1}, <<x, t - 1>> \in out
      PROVE  \A y \in (t - 1)..(m + 1) : <<x, y>> \in out
  <2> DEFINE T == {y \in Int : <<x, y>> \in out}
             a == t - 1
             b == m + 1
  <2>1. x \in Int /\ (x < l \/ x > r) /\ l - 1 <= x /\ x <= r + 1 /\ a \in Int /\ b \in Int
    BY <1>1
  <2>2. a \in T
    BY <1>7, <2>1
  <2>3. ASSUME NEW k \in a..(b - 1), k \in T PROVE k + 1 \in T
    <3>1. k \in Int /\ k + 1 \in Int /\ t - 1 <= k + 1 /\ k + 1 <= m + 1
      BY <1>1, <2>1
    <3>2. <<x, k + 1>> \in F \ P
      BY <1>3, <1>4, <2>1, <3>1
    <3> QED BY <1>5, <2>1, <2>3, <3>1, <3>2
  <2> HIDE DEF T, a, b
  <2>4. a..b \subseteq T
    BY <2>1, <2>2, <2>3, RowCovered
  <2> QED BY <2>4 DEF T, a, b
<1>8. \A x \in (l - 1)..(r + 1) : <<x, t - 1>> \in out
  BY <1>2, <1>6
<1>9. \A y \in (t - 1)..(m + 1) : <<l - 1, y>> \in out
  BY <1>2, <1>7
<1>10. <<r + 1, t - 1>> \in out /\ <<l - 1, m + 1>> \in out
  <2>1. r + 1 \in (l - 1)..(r + 1) /\ m + 1 \in (t - 1)..(m + 1)
    BY <1>1
  <2> QED BY <1>8, <1>9, <2>1
<1>11. \A x \in (l - 1)..(r + 1) : <<x, m + 1>> \in out
  BY <1>6, <1>10
<1>12. \A y \in (t - 1)..(m + 1) : <<r + 1, y>> \in out
  BY <1>7, <1>10
<1>13. PICK x \in (l - 1)..(r + 1), y \in (t - 1)..(m + 1) : q = <<x, y>>
  BY DEF Frame
<1>14. x = l - 1 \/ x = r + 1 \/ y = t - 1 \/ y = m + 1
  <2>1. ~(x \in l..r /\ y \in t..m)
    BY <1>13 DEF Inner
  <2> QED BY <1>1, <2>1
<1>15. q \in out
  BY <1>8, <1>9, <1>11, <1>12, <1>13, <1>14
<1> QED BY <1>15 DEF out

OnSide(p, l, r, t, m) == p[1] \in {l, r} \/ p[2] \in {t, m}

\* From a pixel of the box that is not at its border no step leads out of the box, and
\* from one that is, some step does.
LEMMA SideFact ==
    ASSUME NEW P, NEW l, NEW r, NEW t, NEW m, Boxed(P, l, r, t, m), NEW p \in Inner(l, r, t, m)
    PROVE  /\ ~OnSide(p, l, r, t, m) => Around(p, Steps4) \subseteq Inner(l, r, t, m)
           /\ OnSide(p, l, r, t, m) =>
                \E q \in Around(p, Steps4) : q \in Frame(l, r, t, m) \ Inner(l, r, t, m)
<1>1. l \in Int /\ r \in Int /\ t \in Int /\ m \in Int /\ l <= r /\ t <= m
  BY DEF Boxed
<1>2. PICK x \in l..r, y \in t..m : p = <<x, y>>
  BY DEF Inner
<1>3. x \in Int /\ y \in Int /\ p[1] = x /\ p[2] = y
  BY <1>1, <1>2
<1>4. ASSUME ~OnSide(p, l, r, t, m), NEW q \in Around(p, Steps4) PROVE q \in Inner(l, r, t, m)
  <2>1. x # l /\ x # r /\ y # t /\ y # m
    BY <1>3, <1>4 DEF OnSide
  <2>2. x - 1 \in l..r /\ x + 1 \in l..r /\ y - 1 \in t..m /\ y + 1 \in t..m
    BY <1>1, <1>2, <2>1
  <2>3. PICK d \in Steps4 : q = <<x + d[1], y + d[2]>>
    BY <1>3, <1>4 DEF Around
  <2>4. d = <<1, 0>> \/ d = <<-1, 0>> \/ d = <<0, 1>> \/ d = <<0, -1>>
    BY DEF Steps4
  <2>5. q = <<x + 1, y>> \/ q = <<x - 1, y>> \/ q = <<x, y + 1>> \/ q = <<x, y - 1>>
    <3>1. x + 0 = x /\ y + 0 = y /\ x + (-1) = x - 1 /\ y + (-1) = y - 1
      BY <1>3
    <3> QED BY <2>3, <2>4, <3>1
  <2> QED BY <1>2, <2>2, <2>5 DEF Inner
<1>5. ASSUME OnSide(p, l, r, t, m)
      PROVE  \E q \in Around(p, Steps4) : q \in Frame(l, r, t, m) \ Inner(l, r, t, m)
  <2>1. x = l \/ x = r \/ y = t \/ y = m
    BY <1>3, <1>5 DEF OnSide
  <2>2. /\ <<x + 1, y>> \in Around(p, Steps4) /\ <<x - 1, y>> \in Around(p, Steps4)
        /\ <<x, y + 1>> \in Around(p, Steps4) /\ <<x, y - 1>> \in Around(p, Steps4)
    BY <1>2, <1>3, NextPixels
  <2>3. CASE x = l
    <3>1. <<x - 1, y>> \in Frame(l, r, t, m) \ Inner(l, r, t, m)
      BY <1>1, <1>2, <2>3 DEF Frame, Inner
    <3> QED BY <2>2, <3>1
  <2>4. CASE x = r
    <3>1. <<x + 1, y>> \in Frame(l, r, t, m) \ Inner(l, r, t, m)
      BY <1>1, <1>2, <2>4 DEF Frame, Inner
    <3> QED BY <2>2, <3>1
  <2>5. CASE y = t
    <3>1. <<x, y - 1>> \in Frame(l, r, t, m) \ Inner(l, r, t, m)
      BY <1>1, <1>2, <2>5 DEF Frame, Inner
    <3> QED BY <2>2, <3>1
  <2>6. CASE y = m
    <3>1. <<x, y + 1>> \in Frame(l, r, t, m) \ Inner(l, r, t, m)
      BY <1>1, <1>2, <2>6 DEF Frame, Inner
    <3> QED BY <2>2, <3>1
  <2> QED BY <2>1, <2>3, <2>4, <2>5, <2>6
<1> QED BY <1>4, <1>5

\* The gaps away from the border are what the outside does not reach.
LEMMA GapsEnclosed ==
    ASSUME NEW P, NEW l, NEW r, NEW t, NEW m, Boxed(P, l, r, t, m), NEW G
    PROVE  IsRegion(G, Inner(l, r, t, m) \ P, Steps4) /\ (\A p \in G : ~OnSide(p, l, r, t, m))
           <=> IsRegion(G, Frame(l, r, t, m) \ (P \cup Outside(P, l, r, t, m)), Steps4)
<1> DEFINE F == Frame(l, r, t, m)
           I == Inner(l, r, t, m)
           out == Outside(P, l, r, t, m)
           corner == <<l - 1, t - 1>>
           Y == F \ (P \cup out)
<1>1. /\ F \subseteq Int \X Int /\ I \subseteq F /\ corner \in out /\ out \subseteq F \ P
      /\ Closed(out, F \ P, Steps4)
      /\ \A set : corner \in set /\ Closed(set, F \ P, Steps4) => out \subseteq set
  BY OutsideFact
<1>2. \A q \in F \ I : q \in out
  BY MarginOutside
<1>3. /\ \A p \in I : ~OnSide(p, l, r, t, m) => Around(p, Steps4) \subseteq I
      /\ \A p \in I : OnSide(p, l, r, t, m) => \E q \in Around(p, Steps4) : q \in F \ I
  BY SideFact
<1>4. corner \notin I
  BY DEF Boxed, Inner
<1>5. P \subseteq I
  BY DEF Boxed
<1>6. Symmetric(Steps4)
  BY StepsFact
<1> HIDE DEF F, I, out, corner
<1>7. ASSUME IsRegion(G, I \ P, Steps4), \A p \in G : ~OnSide(p, l, r, t, m)
      PROVE  IsRegion(G, Y, Steps4)
  <2>1. G \subseteq I \ P /\ G # {} /\ Closed(G, I \ P, Steps4)
    BY <1>7 DEF IsRegion
  <2>2. Closed(G, F \ P, Steps4)
    BY <1>1, <1>3, <1>7, <2>1 DEF Closed
  <2>3. G \cap out = {}
    <3>1. F \ P \in SUBSET (Int \X Int) /\ G \in SUBSET (F \ P)
      BY <1>1, <2>1
    <3>2. Closed((F \ P) \ G, F \ P, Steps4)
      BY <1>6, <2>2, <3>1, RestClosed
    <3>3. corner \in (F \ P) \ G
      BY <1>1, <1>4, <2>1
    <3>4. out \subseteq (F \ P) \ G
      BY <1>1, <3>2, <3>3
    <3> QED BY <3>4
  <2>4. G \subseteq Y /\ Closed(G, Y, Steps4)
    BY <1>1, <2>1, <2>2, <2>3 DEF Closed
  <2>5. ASSUME NEW set \in SUBSET Y, Closed(set, Y, Steps4), set \cap G # {}
        PROVE  G \subseteq set
    <3>1. Y \subseteq I \ P
      BY <1>2
    <3>2. ASSUME NEW p \in set, NEW q \in Around(p, Steps4) \cap (I \ P) PROVE q \in set
      <4>1. p \in F \ P /\ q \in F \ P /\ p \in Int \X Int /\ q \in Int \X Int /\ p \notin out
        BY <1>1, <2>5, <3>1
      <4>2. p \in Around(q, Steps4)
        BY <1>6, <3>2, <4>1, AroundFact
      <4>3. q \notin out
        BY <1>1, <4>1, <4>2 DEF Closed
      <4> QED BY <2>5, <3>2, <4>1, <4>3 DEF Closed
    <3>3. set \in SUBSET (I \ P) /\ Closed(set, I \ P, Steps4)
      BY <2>5, <3>1, <3>2 DEF Closed
    <3> QED BY <1>7, <2>5, <3>3 DEF IsRegion
  <2> QED BY <2>1, <2>4, <2>5 DEF IsRegion
<1>8. ASSUME IsRegion(G, Y, Steps4)
      PROVE  IsRegion(G, I \ P, Steps4) /\ \A p \in G : ~OnSide(p, l, r, t, m)
  <2>1. G \subseteq Y /\ G # {} /\ Closed(G, Y, Steps4)
    BY <1>8 DEF IsRegion
  <2>2. G \subseteq I \ P
    BY <1>2, <2>1
  <2>3. ASSUME NEW p \in G, NEW q \in Around(p, Steps4), q \in F \ P PROVE q \in G
    <3>1. p \in F \ P /\ p \in Int \X Int /\ q \in Int \X Int /\ p \notin out
      BY <1>1, <2>1, <2>3
    <3>2. p \in Around(q, Steps4)
      BY <1>6, <2>3, <3>1, AroundFact
    <3>3. q \notin out
      BY <1>1, <3>1, <3>2 DEF Closed
    <3> QED BY <2>1, <2>3, <3>3 DEF Closed
  <2>4. Closed(G, I \ P, Steps4)
    BY <1>1, <2>3 DEF Closed
  <2>5. ASSUME NEW set \in SUBSET (I \ P), Closed(set, I \ P, Steps4), set \cap G # {}
        PROVE  G \subseteq set
    <3>1. Closed(set \cap Y, Y, Steps4)
      BY <1>2, <2>5 DEF Closed
    <3>2. set \cap Y \in SUBSET Y /\ (set \cap Y) \cap G # {}
      BY <2>1, <2>5
    <3> HIDE DEF Y
    <3>3. G \subseteq set \cap Y
      BY <1>8, <3>1, <3>2 DEF IsRegion
    <3> QED BY <3>3
  <2>6. ASSUME NEW p \in G, OnSide(p, l, r, t, m) PROVE FALSE
    <3>1. PICK q \in Around(p, Steps4) : q \in F \ I
      BY <1>3, <2>2, <2>6
    <3>2. q \in F \ P /\ q \in out
      BY <1>2, <1>5, <3>1
    <3>3. q \in G
      BY <2>3, <3>2
    <3> QED BY <2>1, <3>2, <3>3
  <2> QED BY <2>1, <2>2, <2>4, <2>5, <2>6 DEF IsRegion
<1> QED BY <1>7, <1>8 DEF F, I, out

\* For every shape, the code's holes are the parts the outside does not reach.
LEMMA HolesEnclosed ==
    ASSUME NEW P \in SUBSET (Int \X Int), IsFiniteSet(P), P # {},
           NEW o, o.pixels = P, o.box = Box(P)
    PROVE  Holes(P) = Enclosed(o)
<1> DEFINE b == Box(P)
           l == b.x
           r == Right(b)
           t == b.y
           m == Bottom(b)
           I == Inner(l, r, t, m)
           F == Frame(l, r, t, m)
           Y == F \ (P \cup Outside(P, l, r, t, m))
           gaps == {G \in Regions(I \ P, Steps4) : \A p \in G : ~OnSide(p, l, r, t, m)}
<1>1. Boxed(P, l, r, t, m)
  <2>1. IsBox(b, P)
    BY BoxFact
  <2> HIDE DEF b
  <2>2. /\ l \in Int /\ r \in Int /\ t \in Int /\ m \in Int
        /\ \A p \in P : p[1] \in l..r /\ p[2] \in t..m
    BY <2>1 DEF IsBox
  <2>3. P \subseteq I
    <3>1. \A p \in P : p = <<p[1], p[2]>>
      OBVIOUS
    <3> QED BY <2>2, <3>1 DEF Inner
  <2>4. l <= r /\ t <= m
    <3>1. PICK p \in P : TRUE
      OBVIOUS
    <3> QED BY <2>2, <3>1
  <2> QED BY <2>2, <2>3, <2>4 DEF Boxed
<1>2. Holes(P) = Cardinality(gaps)
  BY DEF Holes, Inner, OnSide
<1>3. Enclosed(o) = Cardinality(Regions(Y, Steps4))
  BY DEF Enclosed, Frame, Outside
<1> HIDE DEF l, r, t, m
<1>4. /\ F \subseteq Int \X Int /\ IsFiniteSet(F) /\ IsFiniteSet(I) /\ I \subseteq F
  <2> HIDE DEF F, I
  <2>1. F \subseteq Int \X Int
    <3>1. l - 1 \in Int /\ r + 1 \in Int /\ t - 1 \in Int /\ m + 1 \in Int
      BY <1>1 DEF Boxed
    <3> QED BY <3>1 DEF F, Frame
  <2>2. IsFiniteSet(F)
    BY <1>1, OutsideFact DEF F
  <2>3. IsFiniteSet(I)
    BY <1>1, OutsideFact DEF I
  <2>4. I \subseteq F
    BY <1>1, OutsideFact DEF F, I
  <2> QED BY <2>1, <2>2, <2>3, <2>4
<1>5. ASSUME NEW G
      PROVE  IsRegion(G, I \ P, Steps4) /\ (\A p \in G : ~OnSide(p, l, r, t, m))
             <=> IsRegion(G, Y, Steps4)
  BY <1>1, GapsEnclosed
<1>6. IsFiniteSet(I \ P) /\ IsFiniteSet(Y) /\ I \ P \in SUBSET (Int \X Int)
      /\ Y \in SUBSET (Int \X Int) /\ Symmetric(Steps4)
  <2>1. IsFiniteSet(I \ P) /\ IsFiniteSet(Y)
    BY <1>4, FS_Difference
  <2> QED BY <1>4, <2>1, StepsFact
<1> HIDE DEF I, Y
<1>7. \A G : G \in Regions(I \ P, Steps4) <=> IsRegion(G, I \ P, Steps4)
  <2> DEFINE X == I \ P
  <2>1. X \in SUBSET (Int \X Int) /\ IsFiniteSet(X)
    BY <1>6
  <2> HIDE DEF X
  <2>2. \A G : G \in Regions(X, Steps4) <=> IsRegion(G, X, Steps4)
    BY <1>6, <2>1, RegionsFact
  <2> QED BY <2>2 DEF X
<1>8. \A G : G \in Regions(Y, Steps4) <=> IsRegion(G, Y, Steps4)
  BY <1>6, RegionsFact
<1>9. gaps = Regions(Y, Steps4)
  <2>1. \A G : G \in gaps <=> G \in Regions(I \ P, Steps4)
                              /\ \A p \in G : ~OnSide(p, l, r, t, m)
    OBVIOUS
  <2>2. \A G : G \in gaps <=> G \in Regions(Y, Steps4)
    BY <1>5, <1>7, <1>8, <2>1
  <2> HIDE DEF gaps
  <2> QED BY <2>2
<1> QED BY <1>2, <1>3, <1>9

-----------------------------------------------------------------------------
(* The objects of a scene in their order                                   *)

\* A grid of numbered colors.
Pictured(grid) ==
    /\ IsFiniteSet(DOMAIN grid) /\ DOMAIN grid \subseteq Int \X Int
    /\ \A p \in DOMAIN grid : grid[p] \in Int

\* The pixels of one color.
Colored(grid, background, c) == {p \in {q \in DOMAIN grid : grid[q] # background} : grid[p] = c}

ObjectsOf(grid, background, steps) ==
    UNION {{MakeObject(c, region) : region \in Regions(Colored(grid, background, c), steps)} :
              c \in {grid[p] : p \in {q \in DOMAIN grid : grid[q] # background}}}

\* What is ranked, by what the rank is made of.
FirstPixel(o) == CHOOSE p \in o.pixels : \A q \in o.pixels \ {p} : Reads(p, q)

RankLess(a, b) ==
    \/ a.box.y < b.box.y
    \/ /\ a.box.y = b.box.y
       /\ \/ a.box.x < b.box.x
          \/ /\ a.box.x = b.box.x
             /\ \/ a.color < b.color
                \/ a.color = b.color /\ Area(b) < Area(a)

RankSame(a, b) ==
    /\ a.box.y = b.box.y /\ a.box.x = b.box.x /\ a.color = b.color /\ Area(a) = Area(b)

\* The first coordinate in which two ranks differ decides.
LEMMA Lexical ==
    ASSUME NEW a, NEW b, \A i \in 1..4 : a[i] \in Int /\ b[i] \in Int
    PROVE  (\E i \in 1..4 : a[i] < b[i] /\ \A j \in 1..(i - 1) : a[j] = b[j])
           <=> \/ a[1] < b[1]
               \/ /\ a[1] = b[1]
                  /\ \/ a[2] < b[2]
                     \/ /\ a[2] = b[2]
                        /\ \/ a[3] < b[3]
                           \/ a[3] = b[3] /\ a[4] < b[4]
<1>1. /\ a[1] \in Int /\ a[2] \in Int /\ a[3] \in Int /\ a[4] \in Int
      /\ b[1] \in Int /\ b[2] \in Int /\ b[3] \in Int /\ b[4] \in Int
  OBVIOUS
<1> DEFINE At(i) == a[i] < b[i] /\ \A j \in 1..(i - 1) : a[j] = b[j]
<1>2. 1..(1 - 1) = {} /\ 1..(2 - 1) = {1} /\ 1..(3 - 1) = {1, 2} /\ 1..(4 - 1) = {1, 2, 3}
      /\ 1..4 = {1, 2, 3, 4}
  OBVIOUS
<1>3. At(1) <=> a[1] < b[1]
  BY <1>1, <1>2
<1>4. At(2) <=> a[1] = b[1] /\ a[2] < b[2]
  BY <1>1, <1>2
<1>5. At(3) <=> a[1] = b[1] /\ a[2] = b[2] /\ a[3] < b[3]
  BY <1>1, <1>2
<1>6. At(4) <=> a[1] = b[1] /\ a[2] = b[2] /\ a[3] = b[3] /\ a[4] < b[4]
  BY <1>1, <1>2
<1> HIDE DEF At
<1>7. (\E i \in 1..4 : At(i)) <=> At(1) \/ At(2) \/ At(3) \/ At(4)
  BY <1>2
<1>8. (\E i \in 1..4 : At(i))
           <=> \/ a[1] < b[1]
               \/ /\ a[1] = b[1]
                  /\ \/ a[2] < b[2]
                     \/ /\ a[2] = b[2]
                        /\ \/ a[3] < b[3]
                           \/ a[3] = b[3] /\ a[4] < b[4]
  BY <1>3, <1>4, <1>5, <1>6, <1>7
<1> QED BY <1>8 DEF At

Measured(o) == o.box.y \in Int /\ o.box.x \in Int /\ o.color \in Int /\ Area(o) \in Int

\* Before in the words of these definitions.
LEMMA BeforeFact ==
    ASSUME NEW a, NEW b, Measured(a), Measured(b)
    PROVE  Before(a, b) <=> \/ RankLess(a, b)
                            \/ RankSame(a, b) /\ Reads(FirstPixel(a), FirstPixel(b))
<1> DEFINE ra == <<a.box.y, a.box.x, a.color, -Area(a)>>
           rb == <<b.box.y, b.box.x, b.color, -Area(b)>>
           less == \E i \in 1..4 : ra[i] < rb[i] /\ \A j \in 1..(i - 1) : ra[j] = rb[j]
<1>1. Before(a, b) = IF ra = rb THEN Reads(FirstPixel(a), FirstPixel(b)) ELSE less
  BY DEF Before, FirstPixel
<1>2. ra = rb <=> RankSame(a, b)
  BY DEF Measured, RankSame
<1>3. less <=> RankLess(a, b)
  <2> DEFINE m == Area(a)
             n == Area(b)
  <2>1. m \in Int /\ n \in Int /\ -m \in Int /\ -n \in Int /\ (-m < -n <=> n < m)
    BY DEF Measured
  <2> HIDE DEF m, n
  <2>2. less <=> \/ a.box.y < b.box.y
                 \/ /\ a.box.y = b.box.y
                    /\ \/ a.box.x < b.box.x
                       \/ /\ a.box.x = b.box.x
                          /\ \/ a.color < b.color
                             \/ a.color = b.color /\ -m < -n
    <3>1. ra = <<a.box.y, a.box.x, a.color, -m>> /\ rb = <<b.box.y, b.box.x, b.color, -n>>
      BY DEF m, n
    <3>2. /\ ra[1] = a.box.y /\ ra[2] = a.box.x /\ ra[3] = a.color /\ ra[4] = -m
          /\ rb[1] = b.box.y /\ rb[2] = b.box.x /\ rb[3] = b.color /\ rb[4] = -n
      BY <3>1
    <3> HIDE DEF ra, rb
    <3>3. \A i \in 1..4 : ra[i] \in Int /\ rb[i] \in Int
      <4>1. 1..4 = {1, 2, 3, 4}
        OBVIOUS
      <4> QED BY <2>1, <3>2, <4>1 DEF Measured
    <3>4. less <=> \/ ra[1] < rb[1]
                   \/ /\ ra[1] = rb[1]
                      /\ \/ ra[2] < rb[2]
                         \/ /\ ra[2] = rb[2]
                            /\ \/ ra[3] < rb[3]
                               \/ ra[3] = rb[3] /\ ra[4] < rb[4]
      BY <3>3, Lexical
    <3> HIDE DEF less
    <3> QED BY <3>2, <3>4
  <2> HIDE DEF less
  <2> QED BY <2>1, <2>2 DEF RankLess, m, n
<1> HIDE DEF less, ra, rb
<1>4. ~(RankSame(a, b) /\ RankLess(a, b))
  BY DEF RankSame, RankLess, Measured
<1> QED BY <1>1, <1>2, <1>3, <1>4

\* An object is what is made of a region of its color.
Drawn(o, grid, background, steps) ==
    /\ IsRegion(o.pixels, Colored(grid, background, o.color), steps)
    /\ o = MakeObject(o.color, o.pixels)

\* The fields of an object.
LEMMA MakeObjectFact ==
    ASSUME NEW c, NEW P
    PROVE  /\ MakeObject(c, P).color = c /\ MakeObject(c, P).pixels = P
           /\ MakeObject(c, P).box = Box(P) /\ MakeObject(c, P).holes = Holes(P)
BY DEF MakeObject

\* The pixels of a color are pixels of the grid.
LEMMA ColoredFact ==
    ASSUME NEW grid, Pictured(grid), NEW background, NEW c
    PROVE  /\ Colored(grid, background, c) \in SUBSET (Int \X Int)
           /\ IsFiniteSet(Colored(grid, background, c))
           /\ Colored(grid, background, c) \subseteq DOMAIN grid
<1>1. Colored(grid, background, c) \subseteq DOMAIN grid
  BY DEF Colored
<1>2. IsFiniteSet(Colored(grid, background, c))
  BY <1>1, FS_Subset DEF Pictured
<1> QED BY <1>1, <1>2 DEF Pictured

\* The objects of a grid are exactly what is drawn on it.
LEMMA ObjectsFact ==
    ASSUME NEW grid, Pictured(grid), NEW background, NEW steps, Symmetric(steps)
    PROVE  \A o : o \in ObjectsOf(grid, background, steps)
                  <=> Drawn(o, grid, background, steps)
<1> DEFINE Of(c) == Colored(grid, background, c)
           colors == {grid[p] : p \in {q \in DOMAIN grid : grid[q] # background}}
           O == ObjectsOf(grid, background, steps)
<1>1. \A o : o \in O <=> \E c \in colors : \E R \in Regions(Of(c), steps) : o = MakeObject(c, R)
  BY DEF ObjectsOf
<1>2. ASSUME NEW c, NEW R PROVE R \in Regions(Of(c), steps) <=> IsRegion(R, Of(c), steps)
  <2> HIDE DEF Of
  <2>1. Of(c) \in SUBSET (Int \X Int) /\ IsFiniteSet(Of(c))
    BY ColoredFact DEF Of
  <2> DEFINE X == Of(c)
  <2> HIDE DEF X
  <2>2. X \in SUBSET (Int \X Int) /\ IsFiniteSet(X)
    BY <2>1 DEF X
  <2>3. R \in Regions(X, steps) <=> IsRegion(R, X, steps)
    BY <2>2, RegionsFact
  <2> QED BY <2>3 DEF X
<1>3. ASSUME NEW c, NEW R, IsRegion(R, Of(c), steps) PROVE c \in colors
  <2>1. PICK p \in R : p \in Of(c)
    BY <1>3 DEF IsRegion
  <2> QED BY <2>1 DEF Colored
<1> HIDE DEF O, Of, colors
<1>4. ASSUME NEW o, o \in O PROVE IsRegion(o.pixels, Of(o.color), steps)
                                  /\ o = MakeObject(o.color, o.pixels)
  <2>1. PICK c, R : IsRegion(R, Of(c), steps) /\ o = MakeObject(c, R)
    BY <1>1, <1>2, <1>4
  <2>2. o.color = c /\ o.pixels = R
    BY <2>1, MakeObjectFact
  <2> QED BY <2>1, <2>2
<1>5. ASSUME NEW o, IsRegion(o.pixels, Of(o.color), steps), o = MakeObject(o.color, o.pixels)
      PROVE  o \in O
  <2> DEFINE c == o.color
             R == o.pixels
  <2>1. IsRegion(R, Of(c), steps) /\ o = MakeObject(c, R)
    BY <1>5
  <2> HIDE DEF c, R
  <2> QED BY <1>1, <1>2, <1>3, <2>1
<1> QED BY <1>4, <1>5 DEF O, Of, Drawn

\* A grid has finitely many objects: no more than pixels.
LEMMA ObjectsFinite ==
    ASSUME NEW grid, Pictured(grid), NEW background, NEW steps, Symmetric(steps)
    PROVE  IsFiniteSet(ObjectsOf(grid, background, steps))
<1> DEFINE figure == {q \in DOMAIN grid : grid[q] # background}
           Of(c) == Colored(grid, background, c)
           O == ObjectsOf(grid, background, steps)
           f == [p \in figure |-> MakeObject(grid[p], Flood({p}, Of(grid[p]) \ {p}, steps))]
<1>1. IsFiniteSet(figure)
  <2>1. figure \subseteq DOMAIN grid
    OBVIOUS
  <2> HIDE DEF figure
  <2> QED BY <2>1, FS_Subset DEF Pictured
<1>2. ASSUME NEW o \in O PROVE \E p \in figure : o = f[p]
  <2>1. PICK c \in {grid[p] : p \in figure} :
            \E R \in Regions(Of(c), steps) : o = MakeObject(c, R)
    BY DEF ObjectsOf
  <2>2. PICK R \in Regions(Of(c), steps) : o = MakeObject(c, R)
    BY <2>1
  <2>3. PICK p \in Of(c) : R = Flood({p}, Of(c) \ {p}, steps)
    BY DEF Regions
  <2>4. p \in figure /\ grid[p] = c
    BY DEF Colored
  <2> QED BY <2>2, <2>3, <2>4
<1> DEFINE T == {f[p] : p \in figure}
<1>3. f \in [figure -> T]
  OBVIOUS
<1> HIDE DEF f, T
<1>4. IsFiniteSet(ImageOf(f, figure))
  BY <1>1, <1>3, ImageFinite
<1>5. O \subseteq ImageOf(f, figure)
  BY <1>2 DEF ImageOf
<1> HIDE DEF O
<1>6. IsFiniteSet(O)
  BY <1>4, <1>5, FS_Subset
<1> QED BY <1>6 DEF O

\* What is known of every object.
ObjectOK(o, grid, background) ==
    /\ o.pixels \in SUBSET (Int \X Int) /\ IsFiniteSet(o.pixels) /\ o.pixels # {}
    /\ o.box = Box(o.pixels) /\ IsBox(o.box, o.pixels)
    /\ o.color \in Int /\ Area(o) \in Nat \ {0}
    /\ o.pixels \subseteq DOMAIN grid /\ o.color # background
    /\ \A p \in o.pixels : grid[p] = o.color
    /\ o.holes = Holes(o.pixels)

\* So it is of what is drawn.
LEMMA DrawnFact ==
    ASSUME NEW grid, Pictured(grid), NEW background, NEW steps, NEW o,
           Drawn(o, grid, background, steps)
    PROVE  ObjectOK(o, grid, background)
<1> DEFINE P == o.pixels
           c == o.color
           X == Colored(grid, background, c)
<1>1. X \in SUBSET (Int \X Int) /\ IsFiniteSet(X) /\ X \subseteq DOMAIN grid
  BY ColoredFact
<1>2. P \subseteq X /\ P # {}
  BY DEF Drawn, IsRegion
<1>3. o.box = Box(P) /\ o.holes = Holes(P)
  <2>1. o = MakeObject(c, P)
    BY DEF Drawn
  <2> QED BY <2>1, MakeObjectFact
<1>4. \A p \in P : grid[p] = c /\ c # background /\ p \in DOMAIN grid
  BY <1>2 DEF Colored
<1> HIDE DEF P, c, X
<1>5. P \in SUBSET (Int \X Int) /\ IsFiniteSet(P)
  BY <1>1, <1>2, FS_Subset
<1>6. IsBox(Box(P), P)
  BY <1>2, <1>5, BoxFact
<1>7. Cardinality(P) \in Nat \ {0}
  BY <1>2, <1>5, FS_CardinalityType, FS_EmptySet
<1>8. c \in Int /\ c # background /\ P \subseteq DOMAIN grid
  BY <1>2, <1>4 DEF Pictured
<1> QED BY <1>2, <1>3, <1>4, <1>5, <1>6, <1>7, <1>8 DEF ObjectOK, Area, P, c

\* An object has a pixel that is read first.
LEMMA FirstPixelFact ==
    ASSUME NEW o, o.pixels \in SUBSET (Int \X Int), IsFiniteSet(o.pixels), o.pixels # {}
    PROVE  FirstPixel(o) \in o.pixels
<1> DEFINE P == o.pixels
           R == {m \in P \X P : Reads(m[1], m[2])}
<1>1. \A p \in P : p[1] \in Int /\ p[2] \in Int /\ p = <<p[1], p[2]>>
  OBVIOUS
<1>2. StrictOrder(P, R)
  <2>1. \A p, q \in P : <<p, q>> \in R <=> Reads(p, q)
    OBVIOUS
  <2>2. \A p \in P : ~Reads(p, p)
    BY <1>1 DEF Reads
  <2>3. \A p, q, r \in P : Reads(p, q) /\ Reads(q, r) => Reads(p, r)
    BY <1>1 DEF Reads
  <2>4. \A p, q \in P : p = q \/ Reads(p, q) \/ Reads(q, p)
    BY <1>1 DEF Reads
  <2> HIDE DEF P, R
  <2> QED BY <2>1, <2>2, <2>3, <2>4 DEF StrictOrder
<1> HIDE DEF R
<1>3. \E p \in P : \A q \in P \ {p} : <<p, q>> \in R
  <2>1. IsFiniteSet(P) /\ P # {}
    OBVIOUS
  <2> HIDE DEF P
  <2> QED BY <1>2, <2>1, FirstOf
<1>4. \E p \in P : \A q \in P \ {p} : Reads(p, q)
  BY <1>3 DEF R
<1> QED BY <1>4 DEF FirstPixel

ByPlace(O) == {m \in O \X O : Before(m[1], m[2])}

\* No two objects of a grid have the same rank and the same first pixel.
LEMMA ObjectsOrdered ==
    ASSUME NEW grid, Pictured(grid), NEW background, NEW steps, Symmetric(steps),
           NEW O, O = ObjectsOf(grid, background, steps)
    PROVE  StrictOrder(O, ByPlace(O)) /\ \A a, b \in O : Before(a, b) => a.box.y <= b.box.y
<1>1. ASSUME NEW o \in O PROVE Drawn(o, grid, background, steps) /\ ObjectOK(o, grid, background)
  <2>1. Drawn(o, grid, background, steps)
    BY ObjectsFact
  <2> QED BY <2>1, DrawnFact
<1>2. ASSUME NEW o \in O
      PROVE  Measured(o) /\ FirstPixel(o) \in o.pixels /\ FirstPixel(o)[1] \in Int
             /\ FirstPixel(o)[2] \in Int
             /\ FirstPixel(o) = <<FirstPixel(o)[1], FirstPixel(o)[2]>>
  <2>1. FirstPixel(o) \in o.pixels /\ o.pixels \in SUBSET (Int \X Int)
    BY <1>1, FirstPixelFact DEF ObjectOK
  <2>2. o.box.y \in Int /\ o.box.x \in Int
    <3>1. IsBox(o.box, o.pixels)
      BY <1>1 DEF ObjectOK
    <3> QED BY <3>1 DEF IsBox
  <2>3. o.color \in Int /\ Area(o) \in Int
    BY <1>1 DEF ObjectOK
  <2> QED BY <2>1, <2>2, <2>3 DEF Measured
<1>3. ASSUME NEW a \in O, NEW b \in O, a.color = b.color, FirstPixel(a) = FirstPixel(b)
      PROVE  a = b
  <2>1. a.pixels \cap b.pixels # {}
    BY <1>2, <1>3
  <2>2. a.pixels = b.pixels
    <3> DEFINE X == Colored(grid, background, a.color)
    <3>1. IsRegion(a.pixels, X, steps) /\ IsRegion(b.pixels, X, steps)
      BY <1>1, <1>3 DEF Drawn
    <3> DEFINE A == a.pixels
               B == b.pixels
    <3>2. IsRegion(A, X, steps) /\ IsRegion(B, X, steps) /\ A \cap B # {}
      BY <2>1, <3>1
    <3> HIDE DEF X, A, B
    <3>3. A = B
      BY <3>2, RegionsApart
    <3> QED BY <3>3 DEF A, B
  <2> QED BY <1>1, <1>3, <2>2 DEF Drawn
<1>4. ASSUME NEW a \in O, NEW b \in O
      PROVE  Before(a, b) <=> \/ RankLess(a, b)
                              \/ RankSame(a, b) /\ Reads(FirstPixel(a), FirstPixel(b))
  <2>1. Measured(a) /\ Measured(b)
    BY <1>2
  <2> QED BY <2>1, BeforeFact
<1>5. ASSUME NEW a \in O PROVE ~Before(a, a)
  BY <1>2, <1>4 DEF RankLess, RankSame, Reads, Measured
<1>6. ASSUME NEW a \in O, NEW b \in O, NEW d \in O, Before(a, b), Before(b, d)
      PROVE  Before(a, d)
  <2>1. /\ RankLess(a, b) \/ (RankSame(a, b) /\ Reads(FirstPixel(a), FirstPixel(b)))
        /\ RankLess(b, d) \/ (RankSame(b, d) /\ Reads(FirstPixel(b), FirstPixel(d)))
    BY <1>4, <1>6
  <2>2. Measured(a) /\ Measured(b) /\ Measured(d)
    BY <1>2
  <2>3. RankLess(a, b) /\ RankLess(b, d) => RankLess(a, d)
    BY <2>2 DEF RankLess, Measured
  <2>4. RankLess(a, b) /\ RankSame(b, d) => RankLess(a, d)
    BY <2>2 DEF RankLess, RankSame, Measured
  <2>5. RankSame(a, b) /\ RankLess(b, d) => RankLess(a, d)
    BY <2>2 DEF RankLess, RankSame, Measured
  <2>6. RankSame(a, b) /\ RankSame(b, d) => RankSame(a, d)
    BY DEF RankSame
  <2>7. Reads(FirstPixel(a), FirstPixel(b)) /\ Reads(FirstPixel(b), FirstPixel(d))
        => Reads(FirstPixel(a), FirstPixel(d))
    BY <1>2 DEF Reads
  <2>8. Before(a, d) <=> \/ RankLess(a, d)
                         \/ RankSame(a, d) /\ Reads(FirstPixel(a), FirstPixel(d))
    BY <1>4
  <2> QED BY <2>1, <2>3, <2>4, <2>5, <2>6, <2>7, <2>8
<1>7. ASSUME NEW a \in O, NEW b \in O PROVE a = b \/ Before(a, b) \/ Before(b, a)
  <2>1. Measured(a) /\ Measured(b)
    BY <1>2
  <2>2. RankLess(a, b) \/ RankLess(b, a) \/ RankSame(a, b)
    BY <2>1 DEF RankLess, RankSame, Measured
  <2>3. RankSame(a, b) => RankSame(b, a) /\ a.color = b.color
    BY DEF RankSame
  <2>4. Reads(FirstPixel(a), FirstPixel(b)) \/ Reads(FirstPixel(b), FirstPixel(a))
        \/ FirstPixel(a) = FirstPixel(b)
    BY <1>2 DEF Reads
  <2>5. /\ Before(a, b) <=> \/ RankLess(a, b)
                            \/ RankSame(a, b) /\ Reads(FirstPixel(a), FirstPixel(b))
        /\ Before(b, a) <=> \/ RankLess(b, a)
                            \/ RankSame(b, a) /\ Reads(FirstPixel(b), FirstPixel(a))
    BY <1>4
  <2>6. a.color = b.color /\ FirstPixel(a) = FirstPixel(b) => a = b
    BY <1>3
  <2> QED BY <2>2, <2>3, <2>4, <2>5, <2>6
<1>8. StrictOrder(O, ByPlace(O))
  <2>1. \A a, b \in O : <<a, b>> \in ByPlace(O) <=> Before(a, b)
    BY DEF ByPlace
  <2> QED BY <1>5, <1>6, <1>7, <2>1 DEF StrictOrder
<1>9. ASSUME NEW a \in O, NEW b \in O, Before(a, b) PROVE a.box.y <= b.box.y
  <2>1. Measured(a) /\ Measured(b)
    BY <1>2
  <2> QED BY <1>4, <1>9, <2>1 DEF RankLess, RankSame, Measured
<1> QED BY <1>8, <1>9

\* A scene lists every object once, the higher ones first.
Lists(scene, n, O) ==
    /\ scene \in [1..n -> O]
    /\ \A o \in O : \E i \in 1..n : scene[i] = o
    /\ \A i, j \in 1..n : scene[i] = scene[j] => i = j
    /\ \A i, j \in 1..n : i < j => scene[i].box.y <= scene[j].box.y

\* ParseScene in the words of these definitions.
InPlace(O) ==
    [i \in 1..Cardinality(O) |->
        CHOOSE a \in O : Cardinality({b \in O : Before(b, a)}) = i - 1]

\* A parsed scene is the order of the objects of the grid.
LEMMA ParseSceneFact ==
    ASSUME NEW grid, NEW background, NEW steps
    PROVE  ParseScene(grid, background, steps) = InPlace(ObjectsOf(grid, background, steps))
BY DEF ParseScene, InPlace, ObjectsOf, Colored, Ranked

\* Every object has one place in the scene.
LEMMA SceneLists ==
    ASSUME NEW grid, Pictured(grid), NEW background, NEW steps, Symmetric(steps),
           NEW O, O = ObjectsOf(grid, background, steps)
    PROVE  \E n \in Nat : Lists(ParseScene(grid, background, steps), n, O)
<1> DEFINE n == Cardinality(O)
           Position(a) == Cardinality(Below(O, ByPlace(O), a))
           scene == InPlace(O)
<1>0. IsFiniteSet(O)
  BY ObjectsFinite
<1>1. StrictOrder(O, ByPlace(O)) /\ \A a, b \in O : Before(a, b) => a.box.y <= b.box.y
  BY ObjectsOrdered
<1>2. /\ n \in Nat
      /\ \A a \in O : Position(a) \in 0..(n - 1)
      /\ \A a, b \in O : <<a, b>> \in ByPlace(O) <=> Position(a) < Position(b)
      /\ \A a, b \in O : Position(a) = Position(b) => a = b
      /\ \A i \in 1..n : \E a \in O : Position(a) = i - 1
  BY <1>0, <1>1, Places
<1>3. ASSUME NEW a \in O PROVE Cardinality({b \in O : Before(b, a)}) = Position(a)
  <2>1. {b \in O : Before(b, a)} = Below(O, ByPlace(O), a)
    BY DEF Below, ByPlace
  <2> QED BY <2>1
<1>4. ASSUME NEW i \in 1..n PROVE scene[i] \in O /\ Position(scene[i]) = i - 1
  <2>1. \E a \in O : Cardinality({b \in O : Before(b, a)}) = i - 1
    BY <1>2, <1>3
  <2>2. scene[i] = CHOOSE a \in O : Cardinality({b \in O : Before(b, a)}) = i - 1
    BY DEF InPlace
  <2>3. scene[i] \in O /\ Cardinality({b \in O : Before(b, scene[i])}) = i - 1
    BY <2>1, <2>2
  <2> QED BY <1>3, <2>3
<1>5. scene \in [1..n -> O]
  BY <1>4 DEF InPlace
<1> HIDE DEF Position, scene, n
<1>6. ASSUME NEW o \in O PROVE \E i \in 1..n : scene[i] = o
  <2> DEFINE k == Position(o) + 1
  <2>1. k \in 1..n /\ k - 1 = Position(o)
    BY <1>2
  <2> HIDE DEF k
  <2>2. scene[k] \in O /\ Position(scene[k]) = Position(o)
    BY <1>4, <2>1
  <2> QED BY <1>2, <2>1, <2>2
<1>7. ASSUME NEW i \in 1..n, NEW j \in 1..n, scene[i] = scene[j] PROVE i = j
  <2>1. i - 1 = j - 1 /\ i \in Int /\ j \in Int
    BY <1>2, <1>4, <1>7
  <2> QED BY <2>1
<1>8. ASSUME NEW i \in 1..n, NEW j \in 1..n, i < j PROVE scene[i].box.y <= scene[j].box.y
  <2>1. Position(scene[i]) < Position(scene[j]) /\ scene[i] \in O /\ scene[j] \in O
    BY <1>2, <1>4, <1>8
  <2>2. Before(scene[i], scene[j])
    BY <1>2, <2>1 DEF ByPlace
  <2> QED BY <1>1, <2>1, <2>2
<1>9. Lists(scene, n, O)
  BY <1>5, <1>6, <1>7, <1>8 DEF Lists
<1>10. Lists(ParseScene(grid, background, steps), n, O) /\ n \in Nat
  BY <1>2, <1>9, ParseSceneFact DEF scene
<1> QED BY <1>10

-----------------------------------------------------------------------------
(* Segmentation                                                            *)

\* What SceneSegmented says of a scene.
Segmented(scene, grid, background, steps) ==
    /\ UNION {scene[i].pixels : i \in DOMAIN scene}
           = {p \in DOMAIN grid : grid[p] # background}
    /\ \A i, j \in DOMAIN scene :
         i < j =>
            /\ scene[i].pixels \cap scene[j].pixels = {}
            /\ scene[i].box.y <= scene[j].box.y
            /\ scene[i].color = scene[j].color =>
                 /\ ~Touching(scene[i], scene[j])
                 /\ ~Joined(scene[i].pixels \cup scene[j].pixels, steps)
    /\ \A i \in DOMAIN scene :
         /\ \A p \in scene[i].pixels : grid[p] = scene[i].color
         /\ Joined(scene[i].pixels, steps)
         /\ scene[i].holes = Enclosed(scene[i])

\* Two objects share no pixel, and do not touch when they have one color.
LEMMA ObjectsApart ==
    ASSUME NEW grid, Pictured(grid), NEW background, NEW steps, Symmetric(steps),
           Steps4 \subseteq steps, NEW a, NEW b, a # b,
           Drawn(a, grid, background, steps), Drawn(b, grid, background, steps)
    PROVE  /\ a.pixels \cap b.pixels = {}
           /\ a.color = b.color => /\ ~Touching(a, b)
                                   /\ ~Joined(a.pixels \cup b.pixels, steps)
<1>1. ObjectOK(a, grid, background) /\ ObjectOK(b, grid, background)
  BY DrawnFact
<1>2. CASE a.color # b.color
  <2>1. a.pixels \cap b.pixels = {}
    BY <1>1, <1>2 DEF ObjectOK
  <2> QED BY <1>2, <2>1
<1>3. CASE a.color = b.color
  <2> DEFINE X == Colored(grid, background, a.color)
             A == a.pixels
             B == b.pixels
  <2>1. IsRegion(A, X, steps) /\ IsRegion(B, X, steps)
    BY <1>3 DEF Drawn
  <2>2. X \in SUBSET (Int \X Int)
    BY ColoredFact
  <2>3. A # B
    BY <1>3 DEF Drawn
  <2> HIDE DEF X, A, B
  <2>4. A \cap B = {} /\ ~Joined(A \cup B, steps) /\ \A p \in A : Around(p, steps) \cap B = {}
    BY <2>1, <2>2, <2>3, RegionsNotJoined
  <2>5. ASSUME NEW p PROVE Around(p, Steps4) \subseteq Around(p, steps)
    BY DEF Around
  <2>6. \A p \in A : Around(p, Steps4) \cap B = {}
    BY <2>4, <2>5
  <2>7. ~Touching(a, b)
    BY <2>6 DEF Touching, A, B
  <2>8. a.pixels \cap b.pixels = {} /\ ~Joined(a.pixels \cup b.pixels, steps)
    BY <2>4 DEF A, B
  <2> QED BY <2>7, <2>8
<1> QED BY <1>2, <1>3

\* Every pixel of the figure belongs to an object.
LEMMA FigureCovered ==
    ASSUME NEW grid, Pictured(grid), NEW background, NEW steps, Symmetric(steps),
           NEW p \in DOMAIN grid, grid[p] # background
    PROVE  \E o : Drawn(o, grid, background, steps) /\ p \in o.pixels
<1> DEFINE c == grid[p]
           X == Colored(grid, background, c)
<1>1. X \in SUBSET (Int \X Int) /\ IsFiniteSet(X)
  BY ColoredFact
<1>2. p \in X
  BY DEF Colored
<1> HIDE DEF X
<1>3. PICK R \in Regions(X, steps) : p \in R
  BY <1>1, <1>2, RegionsFact
<1>4. IsRegion(R, X, steps)
  BY <1>1, RegionsFact
<1> DEFINE o == MakeObject(c, R)
<1>5. o.color = c /\ o.pixels = R
  BY MakeObjectFact
<1>6. o = MakeObject(o.color, o.pixels)
  BY <1>5
<1> HIDE DEF o
<1>7. Drawn(o, grid, background, steps) /\ p \in o.pixels
  BY <1>3, <1>4, <1>5, <1>6 DEF Drawn, X
<1> QED BY <1>7

\* That is so of any grid, any background, and both ways of stepping.
THEOREM ScenesSegmented ==
    ASSUME NEW grid, Pictured(grid), NEW background, NEW steps, Symmetric(steps),
           Steps4 \subseteq steps
    PROVE  Segmented(ParseScene(grid, background, steps), grid, background, steps)
<1> DEFINE O == ObjectsOf(grid, background, steps)
           scene == ParseScene(grid, background, steps)
<1>1. PICK n \in Nat : Lists(scene, n, O)
  BY SceneLists
<1>2. \A o : o \in O <=> Drawn(o, grid, background, steps)
  BY ObjectsFact
<1> HIDE DEF O, scene
<1>3. DOMAIN scene = 1..n /\ \A i \in 1..n : scene[i] \in O
  BY <1>1 DEF Lists
<1>4. ASSUME NEW i \in 1..n
      PROVE  Drawn(scene[i], grid, background, steps) /\ ObjectOK(scene[i], grid, background)
  <2>1. Drawn(scene[i], grid, background, steps)
    BY <1>2, <1>3
  <2> DEFINE o == scene[i]
  <2>2. Drawn(o, grid, background, steps)
    BY <2>1
  <2> HIDE DEF o
  <2>3. ObjectOK(o, grid, background)
    BY <2>2, DrawnFact
  <2> QED BY <2>1, <2>3 DEF o
<1>5. UNION {scene[i].pixels : i \in DOMAIN scene} = {p \in DOMAIN grid : grid[p] # background}
  <2>1. ASSUME NEW i \in 1..n, NEW p \in scene[i].pixels
        PROVE  p \in DOMAIN grid /\ grid[p] # background
    BY <1>4 DEF ObjectOK
  <2>2. ASSUME NEW p \in DOMAIN grid, grid[p] # background
        PROVE  \E i \in 1..n : p \in scene[i].pixels
    <3>1. PICK o : Drawn(o, grid, background, steps) /\ p \in o.pixels
      BY <2>2, FigureCovered
    <3>2. PICK i \in 1..n : scene[i] = o
      BY <1>1, <1>2, <3>1 DEF Lists
    <3> QED BY <3>1, <3>2
  <2> QED BY <1>3, <2>1, <2>2
<1>6. ASSUME NEW i \in 1..n, NEW j \in 1..n, i < j
      PROVE  /\ scene[i].pixels \cap scene[j].pixels = {}
             /\ scene[i].box.y <= scene[j].box.y
             /\ scene[i].color = scene[j].color =>
                  /\ ~Touching(scene[i], scene[j])
                  /\ ~Joined(scene[i].pixels \cup scene[j].pixels, steps)
  <2> DEFINE a == scene[i]
             b == scene[j]
  <2>1. a # b /\ a.box.y <= b.box.y
    BY <1>1, <1>6 DEF Lists
  <2>2. Drawn(a, grid, background, steps) /\ Drawn(b, grid, background, steps)
    BY <1>4
  <2> HIDE DEF a, b
  <2>3. /\ a.pixels \cap b.pixels = {}
        /\ a.color = b.color => /\ ~Touching(a, b)
                                /\ ~Joined(a.pixels \cup b.pixels, steps)
    BY <2>1, <2>2, ObjectsApart
  <2> QED BY <2>1, <2>3 DEF a, b
<1>7. ASSUME NEW i \in 1..n
      PROVE  /\ \A p \in scene[i].pixels : grid[p] = scene[i].color
             /\ Joined(scene[i].pixels, steps)
             /\ scene[i].holes = Enclosed(scene[i])
  <2> DEFINE o == scene[i]
             P == o.pixels
             X == Colored(grid, background, o.color)
  <2>1. Drawn(o, grid, background, steps) /\ ObjectOK(o, grid, background)
    BY <1>4
  <2>2. X \in SUBSET (Int \X Int) /\ IsRegion(P, X, steps)
    BY <2>1, ColoredFact DEF Drawn
  <2>3. Joined(P, steps)
    <3> HIDE DEF X, P
    <3> QED BY <2>2, RegionJoined
  <2>4. P \in SUBSET (Int \X Int) /\ IsFiniteSet(P) /\ P # {} /\ o.box = Box(P)
        /\ o.holes = Holes(P) /\ \A p \in P : grid[p] = o.color
    BY <2>1 DEF ObjectOK
  <2> HIDE DEF o
  <2>5. o.pixels = P
    OBVIOUS
  <2> HIDE DEF P
  <2>6. Holes(P) = Enclosed(o)
    BY <2>4, <2>5, HolesEnclosed
  <2>7. /\ \A p \in o.pixels : grid[p] = o.color
        /\ Joined(o.pixels, steps)
        /\ o.holes = Enclosed(o)
    BY <2>3, <2>4, <2>5, <2>6
  <2> QED BY <2>7 DEF o
<1>8. Segmented(scene, grid, background, steps)
  BY <1>3, <1>5, <1>6, <1>7 DEF Segmented
<1> QED BY <1>8 DEF scene

\* The grids of a case have numbered colors, on all pixels of the rectangle.
GridPixels(b) == (0..(b.width - 1)) \X (0..(b.height - 1))

GridInv ==
    case.kind = "grids" =>
        /\ {"bound", "before", "after"} \subseteq DOMAIN case
        /\ case.bound \in GridBounds
        /\ case.before \in [GridPixels(case.bound) -> Int]
        /\ case.after \in [GridPixels(case.bound) -> Int]

\* Painting keeps the grids in shape.
LEMMA GridInvInductive ==
    /\ Init => GridInv
    /\ Shaped /\ GridInv /\ [Next]_case => GridInv'
<1>1. ASSUME Init PROVE GridInv
  <2>1. SUFFICES ASSUME case.kind = "grids" PROVE GridInv
    BY DEF GridInv
  <2>2. PICK b \in GridBounds :
            case = [kind |-> "grids", bound |-> b, before |-> Blank(b), after |-> Blank(b)]
    BY <1>1, <2>1, InitShaped DEF GridCase
  <2>3. Blank(b) \in [GridPixels(b) -> Int]
    BY DEF Blank, GridPixels
  <2> QED BY <2>2, <2>3 DEF GridInv
<1>2. ASSUME Shaped, GridInv, Next PROVE GridInv'
  <2>1. SUFFICES ASSUME case'.kind = "grids" PROVE GridInv'
    BY DEF GridInv
  <2>2. case.kind = "grids" /\ Paint
    BY <1>2, <2>1, NextShaped DEF OfKind
  <2>3. /\ {"bound", "before", "after"} \subseteq DOMAIN case
        /\ case.bound \in GridBounds
        /\ case.before \in [GridPixels(case.bound) -> Int]
        /\ case.after \in [GridPixels(case.bound) -> Int]
    BY <1>2, <2>2 DEF GridInv
  <2>4. PICK p \in DOMAIN case.before, color \in case.bound.colors :
         \/ case' = [case EXCEPT !.before[p] = color, !.after[p] = color]
         \/ case' = [case EXCEPT !.after[p] = color]
    BY <2>2 DEF Paint
  <2>5. color \in Int
    BY <2>3, GridsAssumption
  <2>6. /\ DOMAIN case' = DOMAIN case /\ case'.bound = case.bound
        /\ case'.before = case.before \/ case'.before = [case.before EXCEPT ![p] = color]
        /\ case'.after = [case.after EXCEPT ![p] = color]
    BY <2>3, <2>4 DEF Shaped
  <2>7. [case.before EXCEPT ![p] = color] \in [GridPixels(case.bound) -> Int]
        /\ [case.after EXCEPT ![p] = color] \in [GridPixels(case.bound) -> Int]
    BY <2>3, <2>5
  <2> QED BY <2>3, <2>6, <2>7 DEF GridInv
<1>3. ASSUME GridInv, case' = case PROVE GridInv'
  BY <1>3 DEF GridInv
<1> QED BY <1>1, <1>2, <1>3

\* Within the bounds, a grid has finitely many pixels.
LEMMA GridsPictured ==
    ASSUME GridInv, case.kind = "grids"
    PROVE  Pictured(case.before) /\ Pictured(case.after)
           /\ DOMAIN case.before = DOMAIN case.after
<1>1. /\ case.bound \in GridBounds
      /\ case.before \in [GridPixels(case.bound) -> Int]
      /\ case.after \in [GridPixels(case.bound) -> Int]
  BY DEF GridInv
<1> DEFINE w == case.bound.width
           h == case.bound.height
           D == (0..(w - 1)) \X (0..(h - 1))
<1>2. w \in Nat /\ h \in Nat
  BY <1>1, GridsAssumption
<1>3. IsFiniteSet(0..(w - 1)) /\ IsFiniteSet(0..(h - 1))
  <2> DEFINE x == w - 1
             y == h - 1
  <2>1. x \in Int /\ y \in Int /\ 0 \in Int
    BY <1>2
  <2> HIDE DEF x, y
  <2>2. IsFiniteSet(0..x) /\ IsFiniteSet(0..y)
    BY <2>1, FS_Interval
  <2> QED BY <2>2 DEF x, y
<1>4. IsFiniteSet(D)
  BY <1>3, FS_Product
<1>5. D \subseteq Int \X Int
  OBVIOUS
<1>6. case.before \in [D -> Int] /\ case.after \in [D -> Int]
  BY <1>1 DEF GridPixels
<1> HIDE DEF D
<1> QED BY <1>4, <1>5, <1>6 DEF Pictured

\* Of all grids within the bounds, painted in any number of steps: a scene is the figure cut
\* into as few joined, one-colored pieces as there can be, the higher ones first, and its
\* holes are what the outside cannot reach (components.py:37).
THEOREM SceneIsSegmented == Spec => []SceneSegmented
<1>1. ASSUME GridInv PROVE SceneSegmented
  <2>1. SUFFICES ASSUME case.kind = "grids", NEW background \in case.bound.colors,
                        NEW steps \in {Steps4, Steps8}
                 PROVE  Segmented(ParseScene(case.after, background, steps), case.after,
                                  background, steps)
    BY DEF SceneSegmented, Segmented
  <2>2. Symmetric(steps) /\ Steps4 \subseteq steps
    BY StepsFact
  <2> DEFINE grid == case.after
  <2>3. Pictured(grid)
    BY <1>1, <2>1, GridsPictured
  <2> HIDE DEF grid
  <2>4. Segmented(ParseScene(grid, background, steps), grid, background, steps)
    BY <2>2, <2>3, ScenesSegmented
  <2> QED BY <2>4 DEF grid
<1> QED BY <1>1, GridInvInductive, AlwaysShaped, PTL DEF Spec

-----------------------------------------------------------------------------
(* Sums over pixels                                                        *)

\* The function behind the sum of a coordinate.
Adding(S, k) ==
    CHOOSE it : it = [s \in SUBSET S |->
                         IF s = {} THEN 0
                         ELSE (CHOOSE x \in s : TRUE)[k] + it[s \ {CHOOSE x \in s : TRUE}]]

\* The sums of an object in the words of this function.
LEMMA SumFact ==
    ASSUME NEW o
    PROVE  SumX(o) = Adding(o.pixels, 1)[o.pixels] /\ SumY(o) = Adding(o.pixels, 2)[o.pixels]
BY DEF SumX, SumY, Adding, MapThenSumSet, MapThenFoldSet

Drop(s) == s \ {CHOOSE x \in s : TRUE}

\* What is left of a set is smaller.
LEMMA DropFact ==
    ASSUME NEW S \in SUBSET (Int \X Int), IsFiniteSet(S), NEW k \in {1, 2}, NEW s \in SUBSET S
    PROVE  /\ Cardinality(s) \in 0..Cardinality(S) /\ Cardinality(S) \in Nat
           /\ s = {} <=> Cardinality(s) = 0
           /\ s # {} => /\ (CHOOSE x \in s : TRUE)[k] \in Int
                        /\ Drop(s) \in SUBSET S /\ Cardinality(Drop(s)) = Cardinality(s) - 1
<1>1. IsFiniteSet(s) /\ Cardinality(s) <= Cardinality(S)
  BY FS_Subset
<1>2. Cardinality(s) \in Nat /\ Cardinality(S) \in Nat /\ (Cardinality(s) = 0 <=> s = {})
  BY <1>1, FS_CardinalityType, FS_EmptySet
<1>3. ASSUME s # {}
      PROVE  /\ (CHOOSE x \in s : TRUE)[k] \in Int
             /\ Drop(s) \in SUBSET S /\ Cardinality(Drop(s)) = Cardinality(s) - 1
  <2> DEFINE x == CHOOSE x \in s : TRUE
  <2>1. x \in s
    BY <1>3
  <2> HIDE DEF x
  <2>2. x[k] \in Int
    <3>1. x \in Int \X Int
      BY <2>1
    <3> QED BY <3>1
  <2>3. Cardinality(s \ {x}) = Cardinality(s) - 1
    BY <1>1, <2>1, FS_RemoveElement
  <2>4. Drop(s) = s \ {x}
    BY DEF Drop, x
  <2> QED BY <2>2, <2>3, <2>4 DEF x
<1>4. Cardinality(s) \in 0..Cardinality(S)
  BY <1>1, <1>2
<1> QED BY <1>2, <1>3, <1>4

\* A function of this kind exists, so the sum is a number.
LEMMA SumType ==
    ASSUME NEW S \in SUBSET (Int \X Int), IsFiniteSet(S), NEW k \in {1, 2}
    PROVE  Adding(S, k)[S] \in Int
<1> DEFINE N == Cardinality(S)
           First(s) == (CHOOSE x \in s : TRUE)[k]
           Small(n) == {s \in SUBSET S : Cardinality(s) <= n}
           Good(n, it) == \A s \in Small(n) :
                              it[s] = IF s = {} THEN 0 ELSE First(s) + it[Drop(s)]
           T == {n \in 0..N : \E it \in [Small(n) -> Int] : Good(n, it)}
<1>1. N \in Nat
  BY FS_CardinalityType
<1>2. ASSUME NEW s \in SUBSET S
      PROVE  /\ Cardinality(s) \in 0..N /\ (s = {} <=> Cardinality(s) = 0)
             /\ s # {} => /\ First(s) \in Int /\ Drop(s) \in SUBSET S
                          /\ Cardinality(Drop(s)) = Cardinality(s) - 1
  BY DropFact
<1> HIDE DEF First, N
<1>3. 0 \in T
  <2>1. \A s \in Small(0) : s = {}
    BY <1>1, <1>2
  <2>2. [s \in Small(0) |-> 0] \in [Small(0) -> Int]
    OBVIOUS
  <2>3. Good(0, [s \in Small(0) |-> 0])
    BY <2>1
  <2> HIDE DEF Good, Small
  <2>4. \E it \in [Small(0) -> Int] : Good(0, it)
    BY <2>2, <2>3
  <2> QED BY <1>1, <2>4
<1>4. ASSUME NEW n \in 1..N, n - 1 \in T PROVE n \in T
  <2>1. PICK old \in [Small(n - 1) -> Int] : Good(n - 1, old)
    BY <1>4
  <2> DEFINE new == [s \in Small(n) |-> IF s \in Small(n - 1) THEN old[s]
                                        ELSE First(s) + old[Drop(s)]]
  <2>2. ASSUME NEW s \in Small(n), s # {}
        PROVE  Drop(s) \in Small(n - 1) /\ Drop(s) \in Small(n) /\ First(s) \in Int
    BY <1>1, <1>2, <2>2
  <2>3. Small(n - 1) \subseteq Small(n) /\ {} \in Small(n - 1)
    <3>1. Cardinality({}) = 0
      BY FS_EmptySet
    <3>2. \A s \in SUBSET S : Cardinality(s) <= n - 1 => Cardinality(s) <= n
      BY <1>1, <1>2
    <3> QED BY <1>1, <3>1, <3>2
  <2> HIDE DEF Small
  <2>4. new \in [Small(n) -> Int]
    <3>1. ASSUME NEW s \in Small(n)
          PROVE  (IF s \in Small(n - 1) THEN old[s] ELSE First(s) + old[Drop(s)]) \in Int
      <4>1. CASE s \in Small(n - 1)
        BY <4>1
      <4>2. CASE s \notin Small(n - 1)
        <5>1. s # {}
          BY <2>3, <4>2
        <5>2. First(s) \in Int /\ old[Drop(s)] \in Int
          BY <2>2, <5>1
        <5> QED BY <4>2, <5>2
      <4> QED BY <4>1, <4>2
    <3> QED BY <3>1
  <2>5. ASSUME NEW s \in Small(n)
        PROVE  new[s] = IF s = {} THEN 0 ELSE First(s) + new[Drop(s)]
    <3>1. CASE s = {}
      <4>1. new[s] = old[s] /\ old[s] = 0
        BY <2>1, <2>3, <3>1
      <4> QED BY <3>1, <4>1
    <3>2. CASE s # {}
      <4>1. Drop(s) \in Small(n - 1) /\ Drop(s) \in Small(n)
        BY <2>2, <3>2
      <4>2. new[Drop(s)] = old[Drop(s)]
        BY <4>1
      <4>3. new[s] = First(s) + old[Drop(s)]
        <5>1. CASE s \in Small(n - 1)
          <6>1. old[s] = First(s) + old[Drop(s)]
            BY <2>1, <3>2, <5>1
          <6>2. new[s] = old[s]
            BY <5>1
          <6> QED BY <6>1, <6>2
        <5>2. CASE s \notin Small(n - 1)
          BY <5>2
        <5> QED BY <5>1, <5>2
      <4> HIDE DEF new
      <4> QED BY <3>2, <4>2, <4>3
    <3> QED BY <3>1, <3>2
  <2> HIDE DEF new
  <2>6. Good(n, new)
    BY <2>5
  <2> HIDE DEF Good
  <2>7. \E it \in [Small(n) -> Int] : Good(n, it)
    BY <2>4, <2>6
  <2>8. n \in 0..N
    BY <1>1
  <2> QED BY <2>7, <2>8
<1> HIDE DEF T
<1>5. 0..N \subseteq T
  BY <1>1, <1>3, <1>4, Induction
<1>6. PICK it \in [Small(N) -> Int] : Good(N, it)
  <2>1. N \in T
    BY <1>1, <1>5
  <2> HIDE DEF Small, Good
  <2> QED BY <2>1 DEF T
<1>7. Small(N) = SUBSET S
  BY <1>1, <1>2
<1> DEFINE c == Adding(S, k)
<1>8. c = [s \in SUBSET S |-> IF s = {} THEN 0 ELSE First(s) + c[Drop(s)]]
  <2>1. it = [s \in SUBSET S |-> IF s = {} THEN 0 ELSE First(s) + it[Drop(s)]]
    <3>1. it \in [SUBSET S -> Int]
      BY <1>7
    <3>2. \A s \in SUBSET S : it[s] = IF s = {} THEN 0 ELSE First(s) + it[Drop(s)]
      BY <1>6, <1>7
    <3> QED BY <3>1, <3>2
  <2>2. c = CHOOSE f : f = [s \in SUBSET S |-> IF s = {} THEN 0 ELSE First(s) + f[Drop(s)]]
    BY DEF Adding, First, Drop
  <2> HIDE DEF c
  <2> QED BY <2>1, <2>2
<1> HIDE DEF c
<1>9. \A s \in SUBSET S : c[s] = IF s = {} THEN 0 ELSE First(s) + c[Drop(s)]
  BY <1>8
<1> DEFINE U == {n \in 0..N : \A s \in SUBSET S : Cardinality(s) = n => c[s] \in Int}
<1>10. 0 \in U
  BY <1>1, <1>2, <1>9
<1>11. ASSUME NEW n \in 1..N, n - 1 \in U PROVE n \in U
  <2>1. ASSUME NEW s \in SUBSET S, Cardinality(s) = n PROVE c[s] \in Int
    <3>1. s # {} /\ First(s) \in Int /\ Drop(s) \in SUBSET S /\ Cardinality(Drop(s)) = n - 1
      BY <1>1, <1>2, <2>1
    <3>2. c[Drop(s)] \in Int
      BY <1>11, <3>1
    <3> QED BY <1>9, <3>1, <3>2
  <2>2. n \in 0..N
    BY <1>1
  <2> QED BY <2>1, <2>2
<1> HIDE DEF U
<1>12. 0..N \subseteq U
  BY <1>1, <1>10, <1>11, Induction
<1>13. c[S] \in Int
  <2>1. N \in U
    BY <1>1, <1>12
  <2> QED BY <2>1 DEF U, N
<1> QED BY <1>13 DEF c

-----------------------------------------------------------------------------
(* Matching objects                                                        *)

\* An object with pixels.
Solid(o) == o.pixels \in SUBSET (Int \X Int) /\ IsFiniteSet(o.pixels) /\ o.pixels # {}

\* Its sums and its area are numbers.
LEMMA SolidFact ==
    ASSUME NEW o, Solid(o)
    PROVE  SumX(o) \in Int /\ SumY(o) \in Int /\ Area(o) \in Nat \ {0}
<1> DEFINE P == o.pixels
<1>1. P \in SUBSET (Int \X Int) /\ IsFiniteSet(P) /\ P # {}
  BY DEF Solid
<1> HIDE DEF P
<1>2. Adding(P, 1)[P] \in Int /\ Adding(P, 2)[P] \in Int
  BY <1>1, SumType
<1>3. SumX(o) = Adding(P, 1)[P] /\ SumY(o) = Adding(P, 2)[P]
  BY SumFact DEF P
<1>4. Area(o) = Cardinality(P)
  BY DEF Area, P
<1>5. Cardinality(P) \in Nat \ {0}
  BY <1>1, FS_CardinalityType, FS_EmptySet
<1> QED BY <1>2, <1>3, <1>4, <1>5

\* A difference is a natural number.
LEMMA AbsDiffFact ==
    ASSUME NEW a \in Int, NEW b \in Int
    PROVE  AbsDiff(a, b) \in Nat /\ AbsDiff(a, a) = 0
BY DEF AbsDiff

\* So is a distance, and an object is at no distance from itself.
LEMMA DistanceFact ==
    ASSUME NEW a, NEW b, Solid(a), Solid(b)
    PROVE  ObjectDistance(a, b) \in Nat /\ ObjectDistance(a, a) = 0
<1>1. /\ SumX(a) \in Int /\ SumY(a) \in Int /\ Area(a) \in Nat \ {0}
      /\ SumX(b) \in Int /\ SumY(b) \in Int /\ Area(b) \in Nat \ {0}
  BY SolidFact
<1>2. ASSUME NEW m \in Nat, NEW n \in Nat PROVE m * n \in Nat
  BY <1>2
<1>3. ObjectDistance(a, b) \in Nat
  <2> DEFINE m == Area(a)
             n == Area(b)
             u == SumX(a) * n
             v == SumX(b) * m
             s == SumY(a) * n
             t == SumY(b) * m
             small == IF m < n THEN m ELSE n
             other == IF a.color = b.color THEN 0 ELSE 4 * m * n
  <2>1. m \in Nat /\ n \in Nat /\ u \in Int /\ v \in Int /\ s \in Int /\ t \in Int /\ small \in Nat
    BY <1>1
  <2>2. ObjectDistance(a, b) = AbsDiff(u, v) + AbsDiff(s, t) + other + AbsDiff(m, n) * small
    BY DEF ObjectDistance
  <2>3. other \in Nat
    <3>1. (4 * m) * n \in Nat
      <4> DEFINE f == 4 * m
      <4>1. f \in Nat
        BY <2>1
      <4> HIDE DEF f, m, n
      <4>2. f * n \in Nat
        BY <1>2, <2>1, <4>1
      <4> QED BY <4>2 DEF f
    <3> HIDE DEF m, n
    <3> QED BY <3>1
  <2> HIDE DEF m, n, u, v, s, t, small, other
  <2>4. AbsDiff(u, v) \in Nat /\ AbsDiff(s, t) \in Nat /\ AbsDiff(m, n) \in Nat
    BY <2>1, AbsDiffFact
  <2>5. AbsDiff(m, n) * small \in Nat
    BY <1>2, <2>1, <2>4
  <2> DEFINE e == AbsDiff(u, v)
             f == AbsDiff(s, t)
             g == AbsDiff(m, n) * small
  <2> HIDE DEF e, f, g
  <2>6. e \in Nat /\ f \in Nat /\ g \in Nat
    BY <2>4, <2>5 DEF e, f, g
  <2>7. e + f + other + g \in Nat
    BY <2>3, <2>6
  <2> QED BY <2>2, <2>7 DEF e, f, g
<1>4. ObjectDistance(a, a) = 0
  <2> DEFINE m == Area(a)
             u == SumX(a) * m
             s == SumY(a) * m
  <2>1. m \in Int /\ u \in Int /\ s \in Int
    BY <1>1
  <2>2. ObjectDistance(a, a) = AbsDiff(u, u) + AbsDiff(s, s) + 0
                               + AbsDiff(m, m) * (IF m < m THEN m ELSE m)
    BY DEF ObjectDistance
  <2> HIDE DEF m, u, s
  <2>3. AbsDiff(u, u) = 0 /\ AbsDiff(s, s) = 0 /\ AbsDiff(m, m) = 0
    BY <2>1, AbsDiffFact
  <2> QED BY <2>1, <2>2, <2>3
<1> QED BY <1>3, <1>4

\* The object is no farther from the first of two than from the other, and earlier if it
\* is as far.
Closer(o, scene, j, k) ==
    LET dj == ObjectDistance(o, scene[j]) * Area(scene[k])
        dk == ObjectDistance(o, scene[k]) * Area(scene[j])
    IN  dj < dk \/ (dj = dk /\ j <= k)

\* An object has one nearest at most.
LEMMA NearestOne ==
    ASSUME NEW m \in Nat, NEW scene, \A i \in 1..m : Solid(scene[i]), NEW o, Solid(o),
           NEW left \in SUBSET (1..m)
    PROVE  /\ Nearest(o, scene, left) \subseteq left
           /\ \A i, j \in Nearest(o, scene, left) : i = j
<1>1. \A j \in Nearest(o, scene, left) : j \in left /\ \A k \in left : Closer(o, scene, j, k)
  BY DEF Nearest, Closer
<1>2. ASSUME NEW i \in 1..m, NEW j \in 1..m, Closer(o, scene, i, j), Closer(o, scene, j, i)
      PROVE  i = j
  <2> DEFINE di == ObjectDistance(o, scene[i]) * Area(scene[j])
             dj == ObjectDistance(o, scene[j]) * Area(scene[i])
  <2>1. di \in Int /\ dj \in Int
    <3> DEFINE a == scene[i]
               b == scene[j]
    <3>1. Solid(a) /\ Solid(b)
      OBVIOUS
    <3> HIDE DEF a, b
    <3>2. ObjectDistance(o, a) \in Nat /\ ObjectDistance(o, b) \in Nat
          /\ Area(a) \in Nat /\ Area(b) \in Nat
      BY <3>1, DistanceFact, SolidFact
    <3> QED BY <3>2 DEF a, b
  <2>2. (di < dj \/ (di = dj /\ i <= j)) /\ (dj < di \/ (dj = di /\ j <= i))
    BY <1>2 DEF Closer
  <2> HIDE DEF di, dj
  <2> QED BY <2>1, <2>2
<1> HIDE DEF Closer
<1> QED BY <1>1, <1>2

\* In a scene an object is its own nearest, when those before it are taken.
LEMMA NearestSelf ==
    ASSUME NEW m \in Nat, NEW scene, \A i \in 1..m : Solid(scene[i]), NEW k \in 1..m
    PROVE  Nearest(scene[k], scene, k..m) = {k}
<1> DEFINE o == scene[k]
           N == Nearest(o, scene, k..m)
<1>1. Solid(o)
  OBVIOUS
<1>2. ObjectDistance(o, o) = 0 /\ Area(o) \in Nat
  <2> HIDE DEF o
  <2> QED BY <1>1, DistanceFact, SolidFact
<1>3. N \subseteq k..m /\ \A i, j \in N : i = j
  <2>1. k..m \in SUBSET (1..m)
    OBVIOUS
  <2> HIDE DEF o
  <2> DEFINE left == k..m
  <2>2. left \in SUBSET (1..m)
    BY <2>1
  <2> HIDE DEF left
  <2>3. /\ Nearest(o, scene, left) \subseteq left
        /\ \A i, j \in Nearest(o, scene, left) : i = j
    BY <1>1, <2>2, NearestOne
  <2> QED BY <2>3 DEF left
<1>4. ASSUME NEW l \in k..m PROVE Closer(o, scene, k, l)
  <2> DEFINE b == scene[l]
             d == ObjectDistance(o, b) * Area(o)
             z == ObjectDistance(o, o) * Area(b)
  <2>1. Solid(b)
    OBVIOUS
  <2> HIDE DEF o, b
  <2>2. ObjectDistance(o, b) \in Nat /\ Area(b) \in Nat
    BY <1>1, <2>1, DistanceFact, SolidFact
  <2>3. d \in Nat
    <3> DEFINE x == ObjectDistance(o, b)
               y == Area(o)
    <3>1. x \in Nat /\ y \in Nat
      BY <1>2, <2>2
    <3> HIDE DEF x, y
    <3>2. x * y \in Nat
      BY <3>1
    <3> QED BY <3>2 DEF x, y
  <2>4. z = 0
    BY <1>2, <2>2
  <2>5. k <= l
    OBVIOUS
  <2>6. z < d \/ (z = d /\ k <= l)
    <3> HIDE DEF z, d
    <3> QED BY <2>3, <2>4, <2>5
  <2> QED BY <2>6 DEF Closer, o, b
<1>5. k \in k..m
  OBVIOUS
<1>6. ObjectDistance(o, o) <= Reach * Area(o) * Area(o)
  <2> DEFINE a == Area(o)
  <2>1. a \in Nat
    BY <1>2
  <2> HIDE DEF a
  <2>2. (10 * a) * a \in Nat
    BY <2>1
  <2>3. 0 <= 10 * a * a
    BY <2>2
  <2> HIDE DEF o
  <2> QED BY <1>2, <2>3 DEF Reach, a
<1>7. k \in N
  BY <1>4, <1>5, <1>6 DEF Nearest, Closer
<1> HIDE DEF N
<1>8. N = {k}
  BY <1>3, <1>7
<1> QED BY <1>8 DEF N

\* What CompareScenes adds to the pairs for one expected object.
FirstsOf(pairs) == {m[1] : m \in pairs}
SecondsOf(pairs)   == {m[2] : m \in pairs}

WithMatch(expected, actual, acc, i) ==
    acc \cup {<<i, j>> : j \in Nearest(expected[i], actual, DOMAIN actual \ SecondsOf(acc))}

\* The function behind the choice of pairs.
MatchingBy(expected, actual, list) ==
    CHOOSE it : it = [S \in SUBSET DOMAIN list |->
                         IF S = {} THEN {}
                         ELSE WithMatch(expected, actual, it[S \ {Max(S)}], list[Max(S)])]

Matched(expected, actual) ==
    LET list == [i \in 1..Len(expected) |-> i]
    IN  MatchingBy(expected, actual, list)[DOMAIN list]

Deltas(expected, actual, matched) ==
    (UNION {{<<c, m[1], m[2]>> : c \in Changes(expected[m[1]], actual[m[2]])} : m \in matched})
    \cup {<<"removed", i, 0>> : i \in DOMAIN expected \ FirstsOf(matched)}
    \cup {<<"created", 0, j>> : j \in DOMAIN actual \ SecondsOf(matched)}

Partner(actual, matched, i) == CHOOSE j \in DOMAIN actual : <<i, j>> \in matched

TiesForeseen(expected, actual, matched) ==
    {<<Partner(actual, matched, r[1]), r[2], Partner(actual, matched, r[3])>> :
        r \in {q \in Relations(expected) : {q[1], q[3]} \subseteq FirstsOf(matched)}}

TiesFound(actual, matched) ==
    {r \in Relations(actual) : {r[1], r[3]} \subseteq SecondsOf(matched)}

\* CompareScenes in the words of these definitions.
LEMMA CompareFact ==
    ASSUME NEW expected, NEW actual, NEW matched, matched = Matched(expected, actual)
    PROVE  CompareScenes(expected, actual) =
               [matched |-> matched, deltas |-> Deltas(expected, actual, matched),
                added |-> TiesFound(actual, matched) \ TiesForeseen(expected, actual, matched),
                removed |-> TiesForeseen(expected, actual, matched) \ TiesFound(actual, matched)]
BY DEF CompareScenes, Matched, MatchingBy, WithMatch, FirstsOf, SecondsOf, Deltas, Partner,
       TiesForeseen, TiesFound, FoldLeft, MapThenFoldSet

\* One object after the other.
Matches(g, n, expected, actual) ==
    /\ g[0] = {}
    /\ \A k \in 1..n : g[k] = WithMatch(expected, actual, g[k - 1], k)
    /\ Matched(expected, actual) = g[n]

\* The expected objects are matched in their order.
LEMMA MatchingRun ==
    ASSUME NEW n \in Nat, NEW m \in Nat, NEW expected, Len(expected) = n,
           NEW actual, DOMAIN actual = 1..m
    PROVE  \E g \in [0..n -> SUBSET ((1..n) \X (1..m))] : Matches(g, n, expected, actual)
<1> DEFINE B == SUBSET ((1..n) \X (1..m))
           Add(b, k) == WithMatch(expected, actual, b, k)
           F == [k \in 1..n |-> [b \in B |-> Add(b, k)]]
           list == [i \in 1..n |-> i]
<1>1. ASSUME NEW k \in 1..n, NEW b \in B PROVE Add(b, k) \in B
  <2> DEFINE near == Nearest(expected[k], actual, DOMAIN actual \ SecondsOf(b))
  <2>1. near \subseteq 1..m
    BY DEF Nearest
  <2>2. Add(b, k) = b \cup {<<k, j>> : j \in near}
    BY DEF WithMatch
  <2> HIDE DEF near, Add
  <2>3. {<<k, j>> : j \in near} \in B
    BY <2>1
  <2> QED BY <2>2, <2>3
<1>2. F \in [1..n -> [B -> B]]
  BY <1>1
<1>3. PICK it \in [SUBSET (1..n) -> B] : Folds(it, n, {}, F)
  <2>1. {} \in B
    OBVIOUS
  <2> HIDE DEF F, B
  <2> QED BY <1>2, <2>1, FoldExists
<1>4. DOMAIN list = 1..n /\ \A i \in 1..n : list[i] = i
  OBVIOUS
<1> HIDE DEF Add, list
<1>5. it = [T \in SUBSET DOMAIN list |->
              IF T = {} THEN {} ELSE Add(it[T \ {Max(T)}], list[Max(T)])]
  <2>2. ASSUME NEW T \in SUBSET (1..n)
        PROVE  it[T] = IF T = {} THEN {} ELSE Add(it[T \ {Max(T)}], list[Max(T)])
    <3>1. CASE T = {}
      BY <1>3, <3>1 DEF Folds
    <3>2. CASE T # {}
      <4>1. Max(T) \in 1..n /\ T \ {Max(T)} \in SUBSET (1..n)
        BY <3>2, MaxOfNumbers
      <4>2. it[T \ {Max(T)}] \in B
        BY <4>1
      <4>3. F[Max(T)][it[T \ {Max(T)}]] = Add(it[T \ {Max(T)}], list[Max(T)])
        BY <1>4, <4>1, <4>2
      <4>4. it[T] = F[Max(T)][it[T \ {Max(T)}]]
        BY <1>3, <3>2 DEF Folds
      <4> QED BY <3>2, <4>3, <4>4
    <3> QED BY <3>1, <3>2
  <2> QED BY <1>4, <2>2
<1> DEFINE c == MatchingBy(expected, actual, list)
           g == [k \in 0..n |-> c[1..k]]
<1>6. c = [T \in SUBSET DOMAIN list |->
              IF T = {} THEN {} ELSE Add(c[T \ {Max(T)}], list[Max(T)])]
  <2>1. c = CHOOSE f : f = [T \in SUBSET DOMAIN list |->
                               IF T = {} THEN {} ELSE Add(f[T \ {Max(T)}], list[Max(T)])]
    BY DEF MatchingBy, Add
  <2> HIDE DEF c
  <2> QED BY <1>5, <2>1
<1> HIDE DEF c
<1>7. \A T \in SUBSET (1..n) : c[T] = IF T = {} THEN {} ELSE Add(c[T \ {Max(T)}], list[Max(T)])
  BY <1>4, <1>6
<1>8. g[0] = {}
  <2>1. 1..0 = {} /\ {} \in SUBSET (1..n) /\ 0 \in 0..n
    OBVIOUS
  <2>2. c[{}] = {}
    BY <1>7, <2>1
  <2> QED BY <2>1, <2>2
<1>9. ASSUME NEW k \in 1..n PROVE g[k] = Add(g[k - 1], k)
  <2>1. Max(1..k) = k /\ (1..k) \ {k} = 1..(k - 1) /\ 1..k # {} /\ 1..k \in SUBSET (1..n)
    BY MaxOfPrefix
  <2>2. c[1..k] = Add(c[1..(k - 1)], k)
    BY <1>4, <1>7, <2>1
  <2>3. k \in 0..n /\ k - 1 \in 0..n
    OBVIOUS
  <2> QED BY <2>2, <2>3
<1>10. Matched(expected, actual) = g[n]
  <2>1. Matched(expected, actual) = c[DOMAIN list]
    BY DEF Matched, c, list
  <2> QED BY <1>4, <2>1
<1> DEFINE T == {k \in 0..n : g[k] \in B}
<1>11. 0..n \subseteq T
  <2> HIDE DEF g, B
  <2>1. 0 \in T
    BY <1>8 DEF B
  <2>2. ASSUME NEW k \in 1..n, k - 1 \in T PROVE k \in T
    <3>1. g[k - 1] \in B /\ k \in 0..n
      BY <2>2
    <3> QED BY <1>1, <1>9, <3>1
  <2> HIDE DEF T
  <2> QED BY <2>1, <2>2, Induction
<1>12. g \in [0..n -> B]
  <2>1. \A k \in 0..n : g[k] \in B
    BY <1>11
  <2> QED BY <2>1
<1> HIDE DEF g
<1> QED BY <1>8, <1>9, <1>10, <1>12 DEF Matches, Add

\* No object is matched twice.
OneToOne(pairs) ==
    \A a, b \in pairs : a[1] = b[1] \/ a[2] = b[2] => a = b

\* What CompareScenes matches is within the two scenes, and matched once.
LEMMA MatchedOnce ==
    ASSUME NEW n \in Nat, NEW m \in Nat, NEW expected, Len(expected) = n,
           \A i \in 1..n : Solid(expected[i]),
           NEW actual, DOMAIN actual = 1..m, \A j \in 1..m : Solid(actual[j])
    PROVE  /\ Matched(expected, actual) \subseteq (1..n) \X (1..m)
           /\ OneToOne(Matched(expected, actual))
<1>1. PICK g \in [0..n -> SUBSET ((1..n) \X (1..m))] : Matches(g, n, expected, actual)
  BY MatchingRun
<1> DEFINE Good(k) == /\ OneToOne(g[k])
                      /\ \A p \in g[k] : p[1] \in 1..k
           T == {k \in 0..n : Good(k)}
<1>2. 0 \in T
  BY <1>1 DEF Matches, OneToOne
<1>3. ASSUME NEW k \in 1..n, k - 1 \in T PROVE k \in T
  <2> DEFINE old == g[k - 1]
             left == (1..m) \ SecondsOf(old)
             near == Nearest(expected[k], actual, left)
  <2>1. g[k] = old \cup {<<k, j>> : j \in near}
    BY <1>1 DEF Matches, WithMatch
  <2>2. OneToOne(old) /\ \A p \in old : p[1] \in 1..(k - 1)
    BY <1>3
  <2>3. near \subseteq left /\ \A i, j \in near : i = j
    <3> DEFINE o == expected[k]
    <3>1. Solid(o) /\ left \in SUBSET (1..m)
      OBVIOUS
    <3> HIDE DEF o, left
    <3>2. /\ Nearest(o, actual, left) \subseteq left
          /\ \A i, j \in Nearest(o, actual, left) : i = j
      BY <3>1, NearestOne
    <3> QED BY <3>2 DEF o
  <2>4. \A p \in old : p[2] \notin left
    BY DEF SecondsOf
  <2>5. k \notin 1..(k - 1) /\ 1..(k - 1) \subseteq 1..k /\ k \in 1..k /\ k \in 0..n
    OBVIOUS
  <2> HIDE DEF old, left, near
  <2>6. ASSUME NEW a \in g[k], NEW b \in g[k], a[1] = b[1] \/ a[2] = b[2] PROVE a = b
    <3>1. CASE a \in old /\ b \in old
      BY <2>2, <2>6, <3>1 DEF OneToOne
    <3>2. CASE a \in old /\ b \notin old
      <4>1. PICK j \in near : b = <<k, j>>
        BY <2>1, <3>2
      <4>2. a[1] # b[1] /\ a[2] # b[2]
        BY <2>2, <2>3, <2>4, <2>5, <3>2, <4>1
      <4> QED BY <2>6, <4>2
    <3>3. CASE a \notin old /\ b \in old
      <4>1. PICK j \in near : a = <<k, j>>
        BY <2>1, <3>3
      <4>2. a[1] # b[1] /\ a[2] # b[2]
        BY <2>2, <2>3, <2>4, <2>5, <3>3, <4>1
      <4> QED BY <2>6, <4>2
    <3>4. CASE a \notin old /\ b \notin old
      BY <2>1, <2>3, <3>4
    <3> QED BY <3>1, <3>2, <3>3, <3>4
  <2>7. ASSUME NEW p \in g[k] PROVE p[1] \in 1..k
    BY <2>1, <2>2, <2>5
  <2>8. OneToOne(g[k])
    BY <2>6 DEF OneToOne
  <2> QED BY <2>5, <2>7, <2>8
<1> HIDE DEF T
<1>4. n \in T
  <2>1. 0..n \subseteq T
    BY <1>2, <1>3, Induction
  <2> QED BY <2>1
<1>5. OneToOne(g[n]) /\ g[n] \in SUBSET ((1..n) \X (1..m))
  BY <1>4 DEF T
<1> QED BY <1>1, <1>5 DEF Matches

\* Compared with itself, a scene is matched object by object.
LEMMA MatchedSelf ==
    ASSUME NEW n \in Nat, NEW scene, Len(scene) = n, DOMAIN scene = 1..n,
           \A i \in 1..n : Solid(scene[i])
    PROVE  Matched(scene, scene) = {<<i, i>> : i \in 1..n}
<1>1. PICK g \in [0..n -> SUBSET ((1..n) \X (1..n))] : Matches(g, n, scene, scene)
  BY MatchingRun
<1> DEFINE Same(k) == {<<i, i>> : i \in 1..k}
           T == {k \in 0..n : g[k] = Same(k)}
<1>2. 0 \in T
  <2>1. 1..0 = {}
    OBVIOUS
  <2> QED BY <1>1, <2>1 DEF Matches
<1>3. ASSUME NEW k \in 1..n, k - 1 \in T PROVE k \in T
  <2>1. g[k] = WithMatch(scene, scene, Same(k - 1), k)
    BY <1>1, <1>3 DEF Matches
  <2>2. SecondsOf(Same(k - 1)) = 1..(k - 1)
    <3> DEFINE j == k - 1
    <3>1. \A e : e \in SecondsOf(Same(j)) <=> e \in 1..j
      <4>1. \A p \in Same(j) : p[2] \in 1..j
        OBVIOUS
      <4>2. \A e \in 1..j : <<e, e>> \in Same(j) /\ <<e, e>>[2] = e
        OBVIOUS
      <4>3. \A e : e \in SecondsOf(Same(j)) <=> \E p \in Same(j) : p[2] = e
        BY DEF SecondsOf
      <4> HIDE DEF Same, j
      <4> QED BY <4>1, <4>2, <4>3
    <3> HIDE DEF Same
    <3> QED BY <3>1
  <2>3. (1..n) \ (1..(k - 1)) = k..n
    OBVIOUS
  <2>4. Nearest(scene[k], scene, k..n) = {k}
    BY NearestSelf
  <2>5. WithMatch(scene, scene, Same(k - 1), k) = Same(k - 1) \cup {<<k, k>>}
    <3> DEFINE old == Same(k - 1)
               near == Nearest(scene[k], scene, DOMAIN scene \ SecondsOf(old))
    <3>1. near = {k}
      BY <2>2, <2>3, <2>4
    <3>2. WithMatch(scene, scene, old, k) = old \cup {<<k, j>> : j \in near}
      BY DEF WithMatch
    <3> HIDE DEF old, near
    <3> QED BY <3>1, <3>2 DEF old
  <2>6. 1..k = (1..(k - 1)) \cup {k} /\ k \in 0..n
    OBVIOUS
  <2>7. Same(k - 1) \cup {<<k, k>>} = Same(k)
    BY <2>6
  <2> QED BY <2>1, <2>5, <2>6, <2>7
<1> HIDE DEF T
<1>4. n \in T
  <2>1. 0..n \subseteq T
    BY <1>2, <1>3, Induction
  <2> QED BY <2>1
<1> QED BY <1>1, <1>4 DEF Matches, T

\* An object with its box.
Framed(o) == Solid(o) /\ o.box.x \in Int /\ o.box.y \in Int

\* Objects that differ in nothing have the same pixels.
LEMMA SamePixels ==
    ASSUME NEW a, NEW b, Framed(a), Framed(b), Changes(a, b) = {}
    PROVE  a.color = b.color /\ a.pixels = b.pixels
<1>1. a.color = b.color /\ Shape(a) = Shape(b) /\ a.box = b.box
  <2> DEFINE c == IF a.color = b.color THEN {} ELSE {"recolored"}
             s == IF Shape(a) = Shape(b) THEN {} ELSE {"reshaped"}
             m == IF a.box = b.box THEN {} ELSE {"moved"}
  <2>1. c = {} /\ s = {} /\ m = {}
    <3>1. c \cup s \cup m = {}
      BY DEF Changes
    <3> HIDE DEF c, s, m
    <3> QED BY <3>1
  <2>2. "recolored" \in {"recolored"} /\ "reshaped" \in {"reshaped"} /\ "moved" \in {"moved"}
    OBVIOUS
  <2>3. a.color = b.color
    BY <2>1, <2>2
  <2>4. Shape(a) = Shape(b)
    BY <2>1, <2>2
  <2>5. a.box = b.box
    BY <2>1, <2>2
  <2> QED BY <2>3, <2>4, <2>5
<1>2. ASSUME NEW c, NEW d, c.box = d.box, Shape(c) = Shape(d), Framed(c), Framed(d),
             NEW p \in c.pixels
      PROVE  p \in d.pixels
  <2> DEFINE x == c.box.x
             y == c.box.y
  <2>1. x \in Int /\ y \in Int /\ d.box.x = x /\ d.box.y = y
    BY <1>2 DEF Framed
  <2>2. p \in Int \X Int /\ \A q \in d.pixels : q \in Int \X Int
    BY <1>2 DEF Framed, Solid
  <2> HIDE DEF x, y
  <2>3. <<p[1] - x, p[2] - y>> \in Shape(d)
    <3>1. <<p[1] - x, p[2] - y>> \in Shape(c)
      BY DEF Shape, x, y
    <3> QED BY <1>2, <3>1
  <2>4. PICK q \in d.pixels : <<p[1] - x, p[2] - y>> = <<q[1] - x, q[2] - y>>
    BY <2>1, <2>3 DEF Shape
  <2>5. p[1] - x = q[1] - x /\ p[2] - y = q[2] - y
    BY <2>4
  <2>6. p[1] \in Int /\ p[2] \in Int /\ q[1] \in Int /\ q[2] \in Int
        /\ p = <<p[1], p[2]>> /\ q = <<q[1], q[2]>>
    BY <2>2
  <2>7. p[1] = q[1] /\ p[2] = q[2]
    BY <2>1, <2>5, <2>6
  <2> QED BY <2>6, <2>7
<1>3. a.pixels \subseteq b.pixels
  BY <1>1, <1>2
<1>4. b.pixels \subseteq a.pixels
  BY <1>1, <1>2
<1> QED BY <1>1, <1>3, <1>4

\* What the difference of two scenes leaves out.
LEMMA NoDeltas ==
    ASSUME NEW expected, NEW actual, NEW matched, Deltas(expected, actual, matched) = {}
    PROVE  /\ DOMAIN expected \subseteq FirstsOf(matched)
           /\ DOMAIN actual \subseteq SecondsOf(matched)
           /\ \A p \in matched : Changes(expected[p[1]], actual[p[2]]) = {}
<1> DEFINE D == Deltas(expected, actual, matched)
<1>1. ASSUME NEW i \in DOMAIN expected, i \notin FirstsOf(matched) PROVE FALSE
  <2>1. <<"removed", i, 0>> \in D
    BY <1>1 DEF Deltas
  <2> QED BY <2>1
<1>2. ASSUME NEW j \in DOMAIN actual, j \notin SecondsOf(matched) PROVE FALSE
  <2>1. <<"created", 0, j>> \in D
    BY <1>2 DEF Deltas
  <2> QED BY <2>1
<1>3. ASSUME NEW p \in matched, NEW c \in Changes(expected[p[1]], actual[p[2]]) PROVE FALSE
  <2>1. <<c, p[1], p[2]>> \in D
    BY DEF Deltas
  <2> QED BY <2>1
<1> QED BY <1>1, <1>2, <1>3

\* Scenes without a difference show the same objects.
LEMMA EqualShows ==
    ASSUME NEW n \in Nat, NEW m \in Nat, NEW from, Len(from) = n, DOMAIN from = 1..n,
           \A i \in 1..n : Framed(from[i]),
           NEW to, DOMAIN to = 1..m, \A j \in 1..m : Framed(to[j]),
           SceneEqual(CompareScenes(from, to))
    PROVE  Figure(from) = Figure(to)
<1> DEFINE matched == Matched(from, to)
<1>1. Deltas(from, to, matched) = {}
  BY CompareFact DEF SceneEqual
<1>2. matched \subseteq (1..n) \X (1..m)
  <2>1. (\A i \in 1..n : Solid(from[i])) /\ \A j \in 1..m : Solid(to[j])
    BY DEF Framed
  <2> QED BY <2>1, MatchedOnce
<1> HIDE DEF matched
<1>3. /\ 1..n \subseteq FirstsOf(matched) /\ 1..m \subseteq SecondsOf(matched)
      /\ \A p \in matched : Changes(from[p[1]], to[p[2]]) = {}
  BY <1>1, NoDeltas
<1>4. ASSUME NEW p \in matched
      PROVE  /\ p[1] \in 1..n /\ p[2] \in 1..m
             /\ from[p[1]].color = to[p[2]].color /\ from[p[1]].pixels = to[p[2]].pixels
  <2>1. p[1] \in 1..n /\ p[2] \in 1..m
    BY <1>2
  <2> DEFINE a == from[p[1]]
             b == to[p[2]]
  <2>2. Framed(a) /\ Framed(b) /\ Changes(a, b) = {}
    BY <1>3, <2>1
  <2> HIDE DEF a, b
  <2>3. a.color = b.color /\ a.pixels = b.pixels
    BY <2>2, SamePixels
  <2> QED BY <2>1, <2>3 DEF a, b
<1>5. ASSUME NEW i \in 1..n PROVE \E j \in 1..m : from[i].color = to[j].color
                                                  /\ from[i].pixels = to[j].pixels
  <2>1. PICK p \in matched : p[1] = i
    BY <1>3 DEF FirstsOf
  <2> QED BY <1>4, <2>1
<1>6. ASSUME NEW j \in 1..m PROVE \E i \in 1..n : from[i].color = to[j].color
                                                  /\ from[i].pixels = to[j].pixels
  <2>1. PICK p \in matched : p[2] = j
    BY <1>3 DEF SecondsOf
  <2> QED BY <1>4, <2>1
<1>7. ASSUME NEW f PROVE f \in Figure(from) <=> f \in Figure(to)
  <2>1. f \in Figure(from) <=> \E i \in 1..n : f = <<from[i].color, from[i].pixels>>
    BY DEF Figure
  <2>2. f \in Figure(to) <=> \E j \in 1..m : f = <<to[j].color, to[j].pixels>>
    BY DEF Figure
  <2>3. ASSUME f \in Figure(from) PROVE f \in Figure(to)
    <3>1. PICK i \in 1..n : f = <<from[i].color, from[i].pixels>>
      BY <2>1, <2>3
    <3>2. PICK j \in 1..m : from[i].color = to[j].color /\ from[i].pixels = to[j].pixels
      BY <1>5
    <3> QED BY <2>2, <3>1, <3>2
  <2>4. ASSUME f \in Figure(to) PROVE f \in Figure(from)
    <3>1. PICK j \in 1..m : f = <<to[j].color, to[j].pixels>>
      BY <2>2, <2>4
    <3>2. PICK i \in 1..n : from[i].color = to[j].color /\ from[i].pixels = to[j].pixels
      BY <1>6
    <3> QED BY <2>1, <3>1, <3>2
  <2> QED BY <2>3, <2>4
<1> QED BY <1>7

\* A scene does not differ from itself.
LEMMA SelfEqual ==
    ASSUME NEW n \in Nat, NEW scene, Len(scene) = n, DOMAIN scene = 1..n,
           \A i \in 1..n : Solid(scene[i])
    PROVE  SceneEqual(CompareScenes(scene, scene))
<1> DEFINE matched == Matched(scene, scene)
<1>1. matched = {<<i, i>> : i \in 1..n}
  BY MatchedSelf
<1>2. CompareScenes(scene, scene) =
          [matched |-> matched, deltas |-> Deltas(scene, scene, matched),
           added |-> TiesFound(scene, matched) \ TiesForeseen(scene, scene, matched),
           removed |-> TiesForeseen(scene, scene, matched) \ TiesFound(scene, matched)]
  BY CompareFact
<1> HIDE DEF matched
<1>3. FirstsOf(matched) = 1..n /\ SecondsOf(matched) = 1..n
  <2>1. \A p \in matched : p[1] \in 1..n /\ p[2] \in 1..n
    BY <1>1
  <2>2. \A i \in 1..n : <<i, i>> \in matched /\ <<i, i>>[1] = i /\ <<i, i>>[2] = i
    BY <1>1
  <2>3. \A i \in 1..n : i \in FirstsOf(matched) /\ i \in SecondsOf(matched)
    BY <2>2 DEF FirstsOf, SecondsOf
  <2>4. FirstsOf(matched) \subseteq 1..n /\ SecondsOf(matched) \subseteq 1..n
    BY <2>1 DEF FirstsOf, SecondsOf
  <2> QED BY <2>3, <2>4
<1>4. Deltas(scene, scene, matched) = {}
  <2>1. ASSUME NEW d \in Deltas(scene, scene, matched) PROVE FALSE
    <3>1. \E p \in matched : \E c \in Changes(scene[p[1]], scene[p[2]]) : d = <<c, p[1], p[2]>>
      BY <1>3 DEF Deltas
    <3>2. PICK p \in matched : \E c \in Changes(scene[p[1]], scene[p[2]]) : d = <<c, p[1], p[2]>>
      BY <3>1
    <3>3. p[1] = p[2]
      BY <1>1
    <3>4. Changes(scene[p[1]], scene[p[2]]) = {}
      BY <3>3 DEF Changes
    <3> QED BY <3>2, <3>4
  <2> QED BY <2>1
<1>5. ASSUME NEW i \in 1..n PROVE Partner(scene, matched, i) = i
  <2>1. \A j \in 1..n : <<i, j>> \in matched <=> j = i
    BY <1>1
  <2> QED BY <2>1 DEF Partner
<1>6. ASSUME NEW r \in Relations(scene)
      PROVE  r[1] \in 1..n /\ r[3] \in 1..n /\ r = <<r[1], r[2], r[3]>>
  BY DEF Relations
<1>7. TiesFound(scene, matched) = Relations(scene)
  BY <1>3, <1>6 DEF TiesFound
<1>8. TiesForeseen(scene, scene, matched) = Relations(scene)
  <2>1. {q \in Relations(scene) : {q[1], q[3]} \subseteq FirstsOf(matched)} = Relations(scene)
    BY <1>3, <1>6
  <2>2. \A r \in Relations(scene) :
            <<Partner(scene, matched, r[1]), r[2], Partner(scene, matched, r[3])>> = r
    BY <1>5, <1>6
  <2>3. TiesForeseen(scene, scene, matched) =
            {<<Partner(scene, matched, r[1]), r[2], Partner(scene, matched, r[3])>> :
                r \in Relations(scene)}
    BY <2>1 DEF TiesForeseen
  <2> QED BY <2>2, <2>3
<1> QED BY <1>2, <1>4, <1>7, <1>8 DEF SceneEqual

\* What is reported of an object is that it was removed or created, or that it was matched.
Reported(n, m, matched, deltas) ==
    /\ \A i \in 1..n : Cardinality({p \in matched : p[1] = i})
                       + Cardinality({d \in deltas : d = <<"removed", i, 0>>}) = 1
    /\ \A j \in 1..m : Cardinality({p \in matched : p[2] = j})
                       + Cardinality({d \in deltas : d = <<"created", 0, j>>}) = 1

\* So it is of what CompareScenes matches and reports.
LEMMA ReportedOnce ==
    ASSUME NEW n \in Nat, NEW m \in Nat, NEW expected, DOMAIN expected = 1..n,
           NEW actual, DOMAIN actual = 1..m, NEW matched \in SUBSET ((1..n) \X (1..m)),
           OneToOne(matched), NEW D, D = Deltas(expected, actual, matched)
    PROVE  Reported(n, m, matched, D)
<1>1. ASSUME NEW d \in D
      PROVE  \/ \E p \in matched : \E c \in {"recolored", "reshaped", "moved"} :
                   d = <<c, p[1], p[2]>>
             \/ \E i \in (1..n) \ FirstsOf(matched) : d = <<"removed", i, 0>>
             \/ \E j \in (1..m) \ SecondsOf(matched) : d = <<"created", 0, j>>
  <2>1. \A a, b : Changes(a, b) \subseteq {"recolored", "reshaped", "moved"}
    BY DEF Changes
  <2>2. \/ \E p \in matched : \E c \in Changes(expected[p[1]], actual[p[2]]) :
              d = <<c, p[1], p[2]>>
        \/ \E i \in (1..n) \ FirstsOf(matched) : d = <<"removed", i, 0>>
        \/ \E j \in (1..m) \ SecondsOf(matched) : d = <<"created", 0, j>>
    BY DEF Deltas
  <2> QED BY <2>1, <2>2
<1>2. ASSUME NEW i \in 1..n
      PROVE  Cardinality({p \in matched : p[1] = i})
             + Cardinality({d \in D : d = <<"removed", i, 0>>}) = 1
  <2> DEFINE M == {p \in matched : p[1] = i}
             x == <<"removed", i, 0>>
             R == {d \in D : d = x}
  <2>1. CASE i \in FirstsOf(matched)
    <3>1. PICK p \in matched : p[1] = i
      BY <2>1 DEF FirstsOf
    <3>2. M = {p}
      BY <3>1 DEF OneToOne
    <3>3. x \notin D
      <4>1. SUFFICES ASSUME x \in D PROVE FALSE
        OBVIOUS
      <4>2. \A u, v : \A c \in {"recolored", "reshaped", "moved"} : x # <<c, u, v>>
        OBVIOUS
      <4>3. \A k \in (1..n) \ FirstsOf(matched) : x # <<"removed", k, 0>>
        BY <2>1
      <4>4. \A j : x # <<"created", 0, j>>
        OBVIOUS
      <4> HIDE DEF x
      <4> QED BY <1>1, <4>1, <4>2, <4>3, <4>4
    <3>4. R = {}
      BY <3>3
    <3> HIDE DEF M, R
    <3>5. Cardinality(M) = 1 /\ Cardinality(R) = 0
      BY <3>2, <3>4, FS_Singleton, FS_EmptySet
    <3>6. Cardinality(M) + Cardinality(R) = 1
      BY <3>5
    <3> QED BY <3>6 DEF M, R
  <2>2. CASE i \notin FirstsOf(matched)
    <3>1. M = {}
      BY <2>2 DEF FirstsOf
    <3>2. x \in D
      BY <2>2 DEF Deltas
    <3>3. R = {x}
      BY <3>2
    <3> HIDE DEF M, R, x
    <3>4. Cardinality(M) = 0 /\ Cardinality(R) = 1
      BY <3>1, <3>3, FS_Singleton, FS_EmptySet
    <3>5. Cardinality(M) + Cardinality(R) = 1
      BY <3>4
    <3> QED BY <3>5 DEF M, R, x
  <2> QED BY <2>1, <2>2
<1>3. ASSUME NEW j \in 1..m
      PROVE  Cardinality({p \in matched : p[2] = j})
             + Cardinality({d \in D : d = <<"created", 0, j>>}) = 1
  <2> DEFINE M == {p \in matched : p[2] = j}
             x == <<"created", 0, j>>
             R == {d \in D : d = x}
  <2>1. CASE j \in SecondsOf(matched)
    <3>1. PICK p \in matched : p[2] = j
      BY <2>1 DEF SecondsOf
    <3>2. M = {p}
      BY <3>1 DEF OneToOne
    <3>3. x \notin D
      <4>1. SUFFICES ASSUME x \in D PROVE FALSE
        OBVIOUS
      <4>2. \A u, v : \A c \in {"recolored", "reshaped", "moved"} : x # <<c, u, v>>
        OBVIOUS
      <4>3. \A k \in (1..m) \ SecondsOf(matched) : x # <<"created", 0, k>>
        BY <2>1
      <4>4. \A i : x # <<"removed", i, 0>>
        OBVIOUS
      <4> HIDE DEF x
      <4> QED BY <1>1, <4>1, <4>2, <4>3, <4>4
    <3>4. R = {}
      BY <3>3
    <3> HIDE DEF M, R
    <3>5. Cardinality(M) = 1 /\ Cardinality(R) = 0
      BY <3>2, <3>4, FS_Singleton, FS_EmptySet
    <3>6. Cardinality(M) + Cardinality(R) = 1
      BY <3>5
    <3> QED BY <3>6 DEF M, R
  <2>2. CASE j \notin SecondsOf(matched)
    <3>1. M = {}
      BY <2>2 DEF SecondsOf
    <3>2. x \in D
      BY <2>2 DEF Deltas
    <3>3. R = {x}
      BY <3>2
    <3> HIDE DEF M, R, x
    <3>4. Cardinality(M) = 0 /\ Cardinality(R) = 1
      BY <3>1, <3>3, FS_Singleton, FS_EmptySet
    <3>5. Cardinality(M) + Cardinality(R) = 1
      BY <3>4
    <3> QED BY <3>5 DEF M, R, x
  <2> QED BY <2>1, <2>2
<1> QED BY <1>2, <1>3 DEF Reported

-----------------------------------------------------------------------------
(* The boxes of the changes                                                *)

\* Steps are of one pixel.
LEMMA StepOfOne ==
    ASSUME NEW d \in Steps4
    PROVE  d[1] \in {-1, 0, 1} /\ d[2] \in {-1, 0, 1}
<1>1. d = <<1, 0>> \/ d = <<-1, 0>> \/ d = <<0, 1>> \/ d = <<0, -1>>
  BY DEF Steps4
<1> QED BY <1>1

\* What is in one piece is in every column and in every row of its box.
LEMMA NoGapAcross ==
    ASSUME NEW R \in SUBSET (Int \X Int), Joined(R, Steps4), NEW side \in {1, 2},
           NEW a \in Int, NEW b \in Int, \E p \in R : p[side] = a, \E p \in R : p[side] = b
    PROVE  \A x \in a..b : \E p \in R : p[side] = x
<1> DEFINE T == {p[side] : p \in R}
<1>1. a \in T
  OBVIOUS
<1>2. ASSUME NEW k \in a..(b - 1), k \in T PROVE k + 1 \in T
  <2> DEFINE part == {p \in R : p[side] <= k}
  <2>0. k \in Int /\ k < b
    OBVIOUS
  <2>1. \A p \in R : p[side] \in Int
    OBVIOUS
  <2>2. part \in (SUBSET R) \ {{}, R}
    <3>1. PICK p \in R : p[side] = k
      BY <1>2
    <3>2. PICK q \in R : q[side] = b
      OBVIOUS
    <3>3. p \in part /\ q \notin part
      BY <2>0, <3>1, <3>2
    <3> QED BY <3>2, <3>3
  <2>3. PICK p \in part, q \in R \ part : <<q[1] - p[1], q[2] - p[2]>> \in Steps4
    <3> HIDE DEF part
    <3> QED BY <2>2 DEF Joined
  <2>4. p[side] \in Int /\ q[side] \in Int /\ p[side] <= k /\ ~(q[side] <= k)
    BY <2>1, <2>3
  <2>5. q[side] - p[side] \in {-1, 0, 1}
    <3> DEFINE d == <<q[1] - p[1], q[2] - p[2]>>
    <3>1. d[1] = q[1] - p[1] /\ d[2] = q[2] - p[2]
      OBVIOUS
    <3>2. d \in Steps4
      BY <2>3
    <3> HIDE DEF d
    <3>3. d[1] \in {-1, 0, 1} /\ d[2] \in {-1, 0, 1}
      BY <3>2, StepOfOne
    <3>4. CASE side = 1
      BY <3>1, <3>3, <3>4
    <3>5. CASE side = 2
      BY <3>1, <3>3, <3>5
    <3> QED BY <3>4, <3>5
  <2>6. q[side] = k + 1
    <3> DEFINE u == p[side]
               v == q[side]
    <3>1. u \in Int /\ v \in Int /\ u <= k /\ ~(v <= k) /\ v - u \in {-1, 0, 1}
      BY <2>4, <2>5
    <3> HIDE DEF u, v
    <3>2. v = k + 1
      BY <2>0, <3>1
    <3> QED BY <3>2 DEF v
  <2> QED BY <2>6
<1> HIDE DEF T
<1>3. a..b \subseteq T
  BY <1>1, <1>2, RowCovered
<1> QED BY <1>3 DEF T

\* What SceneDiffExact says of the exact difference.
BoxesCover(regions, changed) ==
    /\ \A p \in changed : \E r \in regions :
         p[1] \in r.x..Right(r) /\ p[2] \in r.y..Bottom(r)
    /\ \A r \in regions :
         /\ \A x \in r.x..Right(r) : \E p \in changed :
              p[1] = x /\ p[2] \in r.y..Bottom(r)
         /\ \A y \in r.y..Bottom(r) : \E p \in changed :
              p[2] = y /\ p[1] \in r.x..Right(r)

\* The boxes of any changes cover them, and nothing can be cut off a box.
LEMMA ChangesCovered ==
    ASSUME NEW changed \in SUBSET (Int \X Int), IsFiniteSet(changed)
    PROVE  BoxesCover({Box(r) : r \in Regions(changed, Steps4)}, changed)
<1> DEFINE boxes == {Box(r) : r \in Regions(changed, Steps4)}
<1>1. Symmetric(Steps4)
  BY StepsFact
<1>2. /\ \A R : R \in Regions(changed, Steps4) <=> IsRegion(R, changed, Steps4)
      /\ \A p \in changed : \E R \in Regions(changed, Steps4) : p \in R
  BY <1>1, RegionsFact
<1>3. ASSUME NEW R \in Regions(changed, Steps4)
      PROVE  /\ IsBox(Box(R), R) /\ R \subseteq changed /\ Joined(R, Steps4)
             /\ R \in SUBSET (Int \X Int)
  <2>1. IsRegion(R, changed, Steps4)
    BY <1>2
  <2>2. R \subseteq changed /\ R # {} /\ R \in SUBSET (Int \X Int)
    BY <2>1 DEF IsRegion
  <2>3. IsFiniteSet(R)
    BY <2>2, FS_Subset
  <2>4. IsBox(Box(R), R)
    BY <2>2, <2>3, BoxFact
  <2>5. Joined(R, Steps4)
    BY <1>1, <2>1, RegionJoined
  <2> QED BY <2>2, <2>4, <2>5
<1>4. ASSUME NEW p \in changed
      PROVE  \E r \in boxes : p[1] \in r.x..Right(r) /\ p[2] \in r.y..Bottom(r)
  <2>1. PICK R \in Regions(changed, Steps4) : p \in R
    BY <1>2
  <2>2. Box(R) \in boxes
    OBVIOUS
  <2>3. p[1] \in Box(R).x..Right(Box(R)) /\ p[2] \in Box(R).y..Bottom(Box(R))
    BY <1>3, <2>1 DEF IsBox
  <2> QED BY <2>2, <2>3
<1>5. ASSUME NEW r \in boxes
      PROVE  /\ \A x \in r.x..Right(r) : \E p \in changed :
                  p[1] = x /\ p[2] \in r.y..Bottom(r)
             /\ \A y \in r.y..Bottom(r) : \E p \in changed :
                  p[2] = y /\ p[1] \in r.x..Right(r)
  <2>1. PICK R \in Regions(changed, Steps4) : r = Box(R)
    OBVIOUS
  <2>2. IsBox(r, R) /\ R \subseteq changed /\ Joined(R, Steps4) /\ R \in SUBSET (Int \X Int)
    BY <1>3, <2>1
  <2> DEFINE a == r.x
             b == Right(r)
             c == r.y
             d == Bottom(r)
  <2>3. /\ a \in Int /\ b \in Int /\ c \in Int /\ d \in Int
        /\ \A p \in R : p[1] \in a..b /\ p[2] \in c..d
        /\ \E p \in R : p[1] = a
        /\ \E p \in R : p[1] = b
        /\ \E p \in R : p[2] = c
        /\ \E p \in R : p[2] = d
    BY <2>2 DEF IsBox
  <2> HIDE DEF a, b, c, d
  <2>4. \A x \in a..b : \E p \in R : p[1] = x
    BY <2>2, <2>3, NoGapAcross
  <2>5. \A y \in c..d : \E p \in R : p[2] = y
    BY <2>2, <2>3, NoGapAcross
  <2>6. /\ \A x \in a..b : \E p \in changed : p[1] = x /\ p[2] \in c..d
        /\ \A y \in c..d : \E p \in changed : p[2] = y /\ p[1] \in a..b
    BY <2>2, <2>3, <2>4, <2>5
  <2> QED BY <2>6 DEF a, b, c, d
<1> HIDE DEF boxes
<1>6. BoxesCover(boxes, changed)
  BY <1>4, <1>5 DEF BoxesCover
<1> QED BY <1>6 DEF boxes

-----------------------------------------------------------------------------
(* Differences                                                             *)

\* A scene is the order of its objects, and each is made of its color and its pixels.
IsScene(scene, n) ==
    /\ Len(scene) = n /\ DOMAIN scene = 1..n
    /\ \A i \in 1..n : Framed(scene[i])
    /\ \A i \in 1..n : scene[i] = MakeObject(scene[i].color, scene[i].pixels)
    /\ scene = InPlace({scene[i] : i \in 1..n})

\* Every grid has such a scene.
LEMMA SceneFact ==
    ASSUME NEW grid, Pictured(grid)
    PROVE  \E n \in Nat : IsScene(Scene(grid), n)
<1> DEFINE background == Background(grid)
           O == ObjectsOf(grid, background, Steps4)
           scene == ParseScene(grid, background, Steps4)
<1>1. Symmetric(Steps4)
  BY StepsFact
<1> HIDE DEF background
<1>2. PICK n \in Nat : Lists(scene, n, O)
  BY <1>1, SceneLists
<1>3. \A o : o \in O <=> Drawn(o, grid, background, Steps4)
  BY <1>1, ObjectsFact
<1>4. scene = InPlace(O)
  BY ParseSceneFact
<1> HIDE DEF O, scene
<1>5. scene \in [1..n -> O] /\ \A o \in O : \E i \in 1..n : scene[i] = o
  BY <1>2 DEF Lists
<1>6. Len(scene) = n /\ DOMAIN scene = 1..n
  BY <1>5, SequenceOf
<1>7. ASSUME NEW i \in 1..n
      PROVE  Framed(scene[i]) /\ scene[i] = MakeObject(scene[i].color, scene[i].pixels)
  <2> DEFINE o == scene[i]
  <2>1. Drawn(o, grid, background, Steps4)
    BY <1>3, <1>5
  <2> HIDE DEF o
  <2>2. ObjectOK(o, grid, background) /\ o = MakeObject(o.color, o.pixels)
    BY <2>1, DrawnFact DEF Drawn
  <2>3. Solid(o)
    BY <2>2 DEF ObjectOK, Solid
  <2>4. o.box.x \in Int /\ o.box.y \in Int
    <3>1. IsBox(o.box, o.pixels)
      BY <2>2 DEF ObjectOK
    <3> QED BY <3>1 DEF IsBox
  <2>5. Framed(o) /\ o = MakeObject(o.color, o.pixels)
    BY <2>2, <2>3, <2>4 DEF Framed
  <2> QED BY <2>5 DEF o
<1>8. {scene[i] : i \in 1..n} = O
  BY <1>5
<1>9. IsScene(scene, n)
  BY <1>4, <1>6, <1>7, <1>8 DEF IsScene
<1>10. Scene(grid) = scene
  BY DEF Scene, scene, background
<1> QED BY <1>9, <1>10

\* Scenes that show the same objects are the same.
LEMMA SceneOfFigure ==
    ASSUME NEW n \in Nat, NEW m \in Nat, NEW from, NEW to, IsScene(from, n), IsScene(to, m),
           Figure(from) = Figure(to)
    PROVE  from = to
<1> DEFINE A == {from[i] : i \in 1..n}
           B == {to[i] : i \in 1..m}
<1>1. /\ Figure(from) = {<<from[i].color, from[i].pixels>> : i \in 1..n}
      /\ Figure(to) = {<<to[i].color, to[i].pixels>> : i \in 1..m}
  BY DEF Figure, IsScene
<1>2. ASSUME NEW i \in 1..n PROVE from[i] \in B
  <2>1. <<from[i].color, from[i].pixels>> \in Figure(to)
    BY <1>1
  <2>2. PICK j \in 1..m : <<from[i].color, from[i].pixels>> = <<to[j].color, to[j].pixels>>
    BY <1>1, <2>1
  <2>3. from[i].color = to[j].color /\ from[i].pixels = to[j].pixels
    BY <2>2
  <2>4. from[i] = to[j]
    BY <2>3 DEF IsScene
  <2> QED BY <2>4
<1>3. ASSUME NEW j \in 1..m PROVE to[j] \in A
  <2>1. <<to[j].color, to[j].pixels>> \in Figure(from)
    BY <1>1
  <2>2. PICK i \in 1..n : <<from[i].color, from[i].pixels>> = <<to[j].color, to[j].pixels>>
    BY <1>1, <2>1
  <2>3. from[i].color = to[j].color /\ from[i].pixels = to[j].pixels
    BY <2>2
  <2>4. to[j] = from[i]
    BY <2>3 DEF IsScene
  <2> QED BY <2>4
<1>4. A = B
  BY <1>2, <1>3
<1>5. from = InPlace(A) /\ to = InPlace(B)
  BY DEF IsScene
<1> HIDE DEF A, B
<1> QED BY <1>4, <1>5

\* What SceneDiffExact says of two grids.
Compared(before, after) ==
    LET from   == Scene(before)
        to     == Scene(after)
        diff   == CompareScenes(from, to)
        pixels == CompareGrids(before, after)
        Told(side, i) == Cardinality({m \in diff.matched : m[side] = i})
    IN  /\ SceneEqual(diff) <=> Figure(from) = Figure(to)
        /\ pixels.changed = {} => SceneEqual(diff)
        /\ \A i \in DOMAIN from :
             Told(1, i) + Cardinality({d \in diff.deltas : d = <<"removed", i, 0>>}) = 1
        /\ \A j \in DOMAIN to :
             Told(2, j) + Cardinality({d \in diff.deltas : d = <<"created", 0, j>>}) = 1
        /\ BoxesCover(pixels.regions, pixels.changed)

\* That is so of any two grids of one shape, whatever is on them.
THEOREM ScenesCompared ==
    ASSUME NEW before, NEW after, Pictured(before), Pictured(after),
           NEW D, before \in [D -> Int], after \in [D -> Int]
    PROVE  Compared(before, after)
<1> DEFINE from == Scene(before)
           to == Scene(after)
           diff == CompareScenes(from, to)
           matched == Matched(from, to)
           deltas == Deltas(from, to, matched)
           changed == {p \in D : before[p] # after[p]}
           regions == {Box(r) : r \in Regions(changed, Steps4)}
<1>1. PICK n \in Nat : IsScene(from, n)
  BY SceneFact
<1>2. PICK m \in Nat : IsScene(to, m)
  BY SceneFact
<1>3. before = after => from = to
  OBVIOUS
<1>4. /\ CompareGrids(before, after).changed = changed
      /\ CompareGrids(before, after).regions = regions
  BY DEF CompareGrids
<1>5. changed \in SUBSET (Int \X Int) /\ IsFiniteSet(changed)
  <2>1. changed \subseteq D /\ IsFiniteSet(D) /\ D \subseteq Int \X Int
    BY DEF Pictured
  <2> QED BY <2>1, FS_Subset
<1>6. changed = {} => before = after
  <2>1. ASSUME changed = {} PROVE \A p \in D : before[p] = after[p]
    BY <2>1
  <2> QED BY <2>1
<1>7. BoxesCover(regions, changed)
  <2> HIDE DEF changed
  <2> QED BY <1>5, ChangesCovered
<1>8. diff.matched = matched /\ diff.deltas = deltas
  <2> HIDE DEF from, to
  <2> QED BY CompareFact
<1> HIDE DEF from, to, changed, regions
<1>9. /\ Len(from) = n /\ DOMAIN from = 1..n /\ \A i \in 1..n : Framed(from[i]) /\ Solid(from[i])
      /\ Len(to) = m /\ DOMAIN to = 1..m /\ \A i \in 1..m : Framed(to[i]) /\ Solid(to[i])
  BY <1>1, <1>2 DEF IsScene, Framed
<1>10. SceneEqual(diff) <=> Figure(from) = Figure(to)
  <2>1. ASSUME SceneEqual(diff) PROVE Figure(from) = Figure(to)
    BY <1>9, <2>1, EqualShows
  <2>2. ASSUME Figure(from) = Figure(to) PROVE SceneEqual(diff)
    <3>1. from = to
      BY <1>1, <1>2, <2>2, SceneOfFigure
    <3>2. SceneEqual(CompareScenes(from, from))
      BY <1>9, SelfEqual
    <3> QED BY <3>1, <3>2
  <2> QED BY <2>1, <2>2
<1>11. changed = {} => SceneEqual(diff)
  BY <1>3, <1>6, <1>10
<1> HIDE DEF diff
<1>12. Reported(n, m, matched, deltas)
  <2>1. matched \subseteq (1..n) \X (1..m) /\ OneToOne(matched)
    BY <1>9, MatchedOnce
  <2> HIDE DEF matched
  <2>2. matched \in SUBSET ((1..n) \X (1..m)) /\ deltas = Deltas(from, to, matched)
    BY <2>1
  <2> HIDE DEF deltas
  <2> QED BY <1>9, <2>1, <2>2, ReportedOnce
<1> HIDE DEF matched, deltas
<1>13. /\ \A i \in DOMAIN from : Cardinality({p \in diff.matched : p[1] = i})
                          + Cardinality({d \in diff.deltas : d = <<"removed", i, 0>>}) = 1
       /\ \A j \in DOMAIN to : Cardinality({p \in diff.matched : p[2] = j})
                          + Cardinality({d \in diff.deltas : d = <<"created", 0, j>>}) = 1
  BY <1>8, <1>9, <1>12 DEF Reported
<1>14. BoxesCover(CompareGrids(before, after).regions, CompareGrids(before, after).changed)
  BY <1>4, <1>7
<1>15. CompareGrids(before, after).changed = {} => SceneEqual(diff)
  BY <1>4, <1>11
<1> QED BY <1>10, <1>13, <1>14, <1>15 DEF Compared, diff, from, to

\* Of all grids within the bounds, painted in any number of steps: two scenes without a
\* difference show the same objects in the same places, every object is matched once or
\* reported, and the regions of the exact difference are as small as they can be (diff.py:95
\* and 115).
THEOREM SceneDiffIsExact == Spec => []SceneDiffExact
<1>1. ASSUME GridInv PROVE SceneDiffExact
  <2>1. SUFFICES ASSUME case.kind = "grids" PROVE Compared(case.before, case.after)
    BY DEF SceneDiffExact, Compared, BoxesCover
  <2> DEFINE before == case.before
             after == case.after
             D == GridPixels(case.bound)
  <2>2. /\ Pictured(before) /\ Pictured(after)
        /\ before \in [D -> Int] /\ after \in [D -> Int]
    BY <1>1, <2>1, GridsPictured DEF GridInv
  <2> HIDE DEF before, after, D
  <2>3. Compared(before, after)
    BY <2>2, ScenesCompared
  <2> QED BY <2>3 DEF before, after
<1> QED BY <1>1, GridInvInductive, AlwaysShaped, PTL DEF Spec
=============================================================================
