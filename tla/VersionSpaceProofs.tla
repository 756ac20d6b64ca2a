------------------------- MODULE VersionSpaceProofs -------------------------
(***************************************************************************)
(* Proofs about VersionSpace for every set of programs and ontologies,     *)
(* every order of ids, candidate count, budget and set of faults.          *)
(*                                                                         *)
(* That the served model reproduces the history rests on a chain: a        *)
(* verdict of the verifier is true, the receipt of the history just        *)
(* replayed carries that verdict, only a passed receipt of that history    *)
(* lets the pointer move, and later receipts never touch the one the       *)
(* pointer names because every revision has a longer history.              *)
(*                                                                         *)
(* What a revision has learned rests on the account it keeps (JInv): every *)
(* hypothesis is in the ledger with this history or still to be replayed,  *)
(* what passes is what the ledger calls consistent, and a hypothesis has a *)
(* linked event or is a candidate still to be reported.  The winner is the *)
(* simplest of them at its choice, and nothing changes the ledger before   *)
(* the next revision.                                                      *)
(***************************************************************************)
EXTENDS VersionSpace, FiniteSetTheorems, SequenceTheorems, TLAPS

Replaying == pc \in {"verify", "archive", "latest"}

\* What each place of a revision has at hand.
FlowOK ==
    /\ pc # "idle" => mode = "revise"
    /\ pc = "propose" => call.readings \in Readings
    /\ pc = "stage" => call.specs # <<>>
    /\ Replaying => call.todo # {}
    /\ pc = "promote" => Passing # {}
    /\ pc = "report" => call.attempts # <<>> /\ call.winner \in Hypothesis
    /\ mode = "act" => n < Budget

Replayed == ModelOf(First(call.todo))   \* the program under replay

\* The chain from the evidence to the pointer.
ReceiptOK ==
    /\ \A p \in Program : fails[p] <= n \/ fails[p] = Never
    /\ pc \in {"archive", "latest"} /\ call.passed => ~Unfit(Replayed)
    /\ pc = "latest" => archive[Replayed][n] = Verdict
    /\ \A p \in Program, e \in 0..Budget :
         archive[p][e] = "passed" => e <= n /\ fails[p] > e
    /\ mode # "failed" =>
         \A p \in Program : latest[p].verdict = "passed" =>
             \/ archive[p][latest[p].at] = "passed"
             \/ pc = "latest" /\ p = Replayed

\* The chain from the pointer to the served model.
ServedOK ==
    /\ pointer.at <= n
    /\ pointer.model # NoProgram => archive[pointer.model][pointer.at] = "passed"
    /\ mode = "revise" /\ pc # "report" => pointer.model = NoProgram \/ pointer.at < n
    /\ pc = "report" => fails[ModelOf(call.winner)] > n
    /\ Serving => program \in Program /\ fails[program] > n

IInv == TypeOK /\ FlowOK /\ ReceiptOK /\ ServedOK

-----------------------------------------------------------------------------
(* Choosing a least hypothesis                                             *)

\* A set of natural numbers has a least element.
LEMMA LeastNumber ==
    ASSUME NEW T \in SUBSET Nat, T # {}
    PROVE  \E x \in T : \A y \in T : x <= y
<1> DEFINE U == {0..x : x \in T}
<1>1. U \subseteq FiniteSubsetsOf(Nat) /\ U # {}
  <2>1. \A x \in T : 0..x \in FiniteSubsetsOf(Nat)
    BY FS_Interval DEF FiniteSubsetsOf
  <2> QED BY <2>1
<1>2. PICK V \in U : \A W \in U : ~(<<W, V>> \in StrictSubsetOrdering(Nat))
  BY <1>1, WFMin, FS_StrictSubsetOrderingWellFounded
<1>3. PICK x \in T : V = 0..x
  OBVIOUS
<1>4. ASSUME NEW y \in T PROVE x <= y
  <2>1. 0..y \in U
    OBVIOUS
  <2>2. ~(<<0..y, 0..x>> \in StrictSubsetOrdering(Nat))
    BY <1>2, <1>3, <2>1
  <2>3. ~(0..y \subseteq 0..x /\ 0..y # 0..x)
    BY <2>2 DEF StrictSubsetOrdering
  <2>4. x \in Nat /\ y \in Nat
    OBVIOUS
  <2>5. SUFFICES ASSUME y < x PROVE FALSE
    BY <2>4
  <2>6. 0..y \subseteq 0..x /\ x \in 0..x /\ x \notin 0..y
    BY <2>4, <2>5
  <2> QED BY <2>3, <2>6
<1> QED BY <1>4

\* Of some hypotheses, one has the least value of a function into the numbers.
LEMMA LeastHypothesis ==
    ASSUME NEW S \in SUBSET Hypothesis, S # {}, NEW f \in [Hypothesis -> Nat]
    PROVE  \E h \in S : \A g \in S : f[h] <= f[g]
<1> DEFINE T == {f[h] : h \in S}
<1>1. T \in SUBSET Nat /\ T # {}
  OBVIOUS
<1>2. PICK x \in T : \A y \in T : x <= y
  BY <1>1, LeastNumber
<1> QED BY <1>2

\* The hypothesis replayed next is one of those that wait.
LEMMA FirstWaits ==
    ASSUME NEW S \in SUBSET Hypothesis, S # {}
    PROVE  First(S) \in S
<1>1. \E h \in S : \A g \in S : Rank[h] <= Rank[g]
  BY LeastHypothesis, RankAssumption
<1> QED BY <1>1 DEF First

LEMMA ModelType ==
    ASSUME NEW h \in Hypothesis
    PROVE  ModelOf(h) \in Program
BY DEF Hypothesis, ModelOf

\* The order of winners has a least element in every set, so there is a winner.
LEMMA BestPasses ==
    ASSUME ledger \in [Hypothesis -> Item], Passing \in SUBSET Hypothesis, Passing # {}
    PROVE  \E h \in Passing : \A g \in Passing : Better(h, g)
<1> DEFINE size == [h \in Hypothesis |-> Size[ModelOf(h)]]
           lost == [h \in Hypothesis |-> ledger[h].failures]
<1>1. size \in [Hypothesis -> Nat] /\ lost \in [Hypothesis -> Nat]
  BY SizeAssumption, ModelType DEF Item
<1> DEFINE A == {h \in Passing : \A g \in Passing : size[h] <= size[g]}
           B == {h \in A : \A g \in A : lost[h] <= lost[g]}
<1> HIDE DEF size, lost
<1>2. A # {} /\ A \in SUBSET Hypothesis
  BY <1>1, LeastHypothesis
<1>3. B # {} /\ B \in SUBSET Hypothesis
  BY <1>1, <1>2, LeastHypothesis
<1>4. PICK h \in B : \A g \in B : Rank[h] <= Rank[g]
  BY <1>3, LeastHypothesis, RankAssumption
<1>5. ASSUME NEW g \in Passing PROVE Better(h, g)
  <2>1. /\ size[h] \in Nat /\ size[g] \in Nat /\ lost[h] \in Nat /\ lost[g] \in Nat
        /\ Rank[h] \in Nat /\ Rank[g] \in Nat
    BY <1>1, <1>3, RankAssumption
  <2>2. size[h] <= size[g]
    OBVIOUS
  <2>3. CASE size[h] < size[g]
    BY <2>3, <1>3 DEF Better, size
  <2>4. CASE size[h] = size[g]
    <3>1. g \in A
      BY <2>4
    <3>2. lost[h] <= lost[g]
      BY <3>1
    <3>3. CASE lost[h] < lost[g]
      BY <3>3, <2>4, <1>3 DEF Better, size, lost
    <3>4. CASE lost[h] = lost[g]
      <4>1. g \in B
        BY <3>1, <3>4
      <4> QED BY <4>1, <1>4, <2>4, <3>4, <1>3 DEF Better, size, lost
    <3> QED BY <3>2, <3>3, <3>4, <2>1
  <2> QED BY <2>1, <2>2, <2>3, <2>4
<1>6. h \in Passing
  OBVIOUS
<1> QED BY <1>5, <1>6

LEMMA WinnerPasses ==
    ASSUME ledger \in [Hypothesis -> Item], Passing \in SUBSET Hypothesis, Passing # {}
    PROVE  Winner \in Passing
BY BestPasses DEF Winner

-----------------------------------------------------------------------------
(* Types                                                                   *)

CallType ==
    [readings : Readings \cup {<<>>}, specs : Seq(Hypothesis),
     origins : SUBSET Hypothesis, todo : SUBSET Hypothesis,
     passed : BOOLEAN, attempts : Seq(Attempt), winner : Hypothesis \cup {<<>>}]

LEMMA NoCallType == NoCall \in CallType
<1>1. <<>> \in Seq(Hypothesis) /\ <<>> \in Seq(Attempt)
  BY EmptySeq
<1> QED BY <1>1 DEF NoCall, CallType

LEMMA NeverType == Never \in Nat /\ Budget \in Nat
BY CountAssumption DEF Never

\* While hypotheses wait, the next of them is one, and its program is a program.
LEMMA ReplayedType ==
    ASSUME TypeOK, FlowOK, Replaying
    PROVE  /\ First(call.todo) \in call.todo /\ First(call.todo) \in Hypothesis
           /\ Replayed \in Program
<1>1. call.todo \in SUBSET Hypothesis /\ call.todo # {}
  BY DEF TypeOK, FlowOK
<1>2. First(call.todo) \in call.todo
  BY <1>1, FirstWaits
<1> QED BY <1>1, <1>2, ModelType DEF Replayed

\* The hypotheses that passed in this call are those of its passed attempts.
LEMMA PassingType ==
    ASSUME TypeOK
    PROVE  Passing \in SUBSET Hypothesis
<1>1. call.attempts \in Seq(Attempt)
  BY DEF TypeOK
<1>2. ASSUME NEW i \in DOMAIN call.attempts PROVE call.attempts[i].of \in Hypothesis
  <2>1. call.attempts[i] \in Attempt
    BY <1>1, LenProperties
  <2> QED BY <2>1 DEF Attempt
<1> QED BY <1>2 DEF Passing

\* The winner of a revision is a hypothesis that passed.
LEMMA WinnerType ==
    ASSUME TypeOK, FlowOK, pc = "promote"
    PROVE  Winner \in Passing /\ Winner \in Hypothesis /\ ModelOf(Winner) \in Program
<1>1. Winner \in Passing
  BY PassingType, WinnerPasses DEF TypeOK, FlowOK
<1> QED BY <1>1, PassingType, ModelType

\* The head of the queue of candidates and of attempts, while there is one.
LEMMA HeadTypes ==
    ASSUME TypeOK, FlowOK
    PROVE  /\ pc = "stage" => /\ Head(call.specs) \in Hypothesis
                              /\ Tail(call.specs) \in Seq(Hypothesis)
                              /\ Len(call.specs) \in Nat
                              /\ Len(Tail(call.specs)) = Len(call.specs) - 1
           /\ pc = "report" => /\ Head(call.attempts).of \in Hypothesis
                               /\ Tail(call.attempts) \in Seq(Attempt)
                               /\ Len(call.attempts) \in Nat
                               /\ Len(Tail(call.attempts)) = Len(call.attempts) - 1
<1>1. CASE pc = "stage"
  <2>1. call.specs \in Seq(Hypothesis) /\ call.specs # <<>>
    BY <1>1 DEF TypeOK, FlowOK
  <2> QED BY <1>1, <2>1, HeadTailProperties, LenProperties
<1>2. CASE pc = "report"
  <2>1. call.attempts \in Seq(Attempt) /\ call.attempts # <<>>
    BY <1>2 DEF TypeOK, FlowOK
  <2>2. /\ Head(call.attempts) \in Attempt /\ Tail(call.attempts) \in Seq(Attempt)
        /\ Len(Tail(call.attempts)) = Len(call.attempts) - 1 /\ Len(call.attempts) \in Nat
    BY <2>1, HeadTailProperties, LenProperties
  <2> QED BY <1>2, <2>2 DEF Attempt
<1> QED BY <1>1, <1>2

\* The reading asked for with a candidate is one of the ontologies.
LEMMA ReadingType ==
    ASSUME call.readings \in Readings, NEW i \in Nat \ {0}
    PROVE  Reading(i) \in Ontology
<1>1. Cardinality(Ontology) \in Nat \ {0}
  BY OntologyAssumption, FS_CardinalityType, FS_EmptySet
<1>2. call.readings \in [1..Cardinality(Ontology) -> Ontology]
  BY DEF Readings
<1>3. Len(call.readings) = Cardinality(Ontology)
  BY <1>1, <1>2
<1>4. ((i - 1) % Len(call.readings)) + 1 \in 1..Cardinality(Ontology)
  BY <1>1, <1>3
<1> QED BY <1>2, <1>4 DEF Reading

LEMMA TypeInit == Init => TypeOK
<1> SUFFICES ASSUME Init PROVE TypeOK
  OBVIOUS
<1>1. call \in CallType
  BY NoCallType DEF Init
<1>2. /\ n \in 0..Budget /\ fails \in [Program -> 0..Never] /\ broken \subseteq Program
  BY NeverType DEF Init, Never
<1>3. ledger \in [Hypothesis -> Item]
  BY NeverType DEF Init, NoItem, Item
<1>4. /\ archive \in [Program -> [0..Budget -> {"none", "passed", "failed"}]]
      /\ latest \in [Program -> [at : 0..Budget, verdict : {"none", "passed", "failed"}]]
      /\ pointer \in [model : Program \cup {NoProgram}, at : 0..Budget]
  BY NeverType DEF Init
<1> QED BY <1>1, <1>2, <1>3, <1>4 DEF Init, TypeOK, CallType, Mode, Label

\* Every action keeps the types.
LEMMA TypeStep == IInv /\ [Next]_vars => TypeOK'
<1> SUFFICES ASSUME IInv, [Next]_vars PROVE TypeOK'
  OBVIOUS
<1> USE DEF IInv
<1>0. call \in CallType /\ TypeOK /\ FlowOK
  BY DEF TypeOK, CallType
<1>1. CASE Revise
  <2>1. call' \in CallType
    BY <1>1, NoCallType DEF Revise, NoCall, CallType
  <2> QED BY <1>0, <1>1, <2>1
    DEF Revise, TypeOK, CallType, Label, evidence, repository, given
<1>2. CASE Propose
  <2>1. PICK p \in Program :
          call' = [call EXCEPT !.specs =
                     Append(call.specs, <<p, Reading(Len(call.specs) + 1)>>)]
    BY <1>2 DEF Propose
  <2>2. Len(call.specs) + 1 \in Nat \ {0} /\ call.readings \in Readings
    BY <1>0, <1>2, LenProperties DEF CallType, FlowOK, Propose
  <2>3. <<p, Reading(Len(call.specs) + 1)>> \in Hypothesis
    BY <2>2, ReadingType DEF Hypothesis
  <2>4. Append(call.specs, <<p, Reading(Len(call.specs) + 1)>>) \in Seq(Hypothesis)
    BY <1>0, <2>3, AppendProperties DEF CallType
  <2>5. call' \in CallType
    BY <1>0, <2>1, <2>4 DEF CallType
  <2>6. pc' \in Label
    BY <1>2 DEF Propose, Label
  <2> QED BY <1>0, <1>2, <2>5, <2>6
    DEF Propose, TypeOK, CallType, evidence, repository, given
<1>3. CASE Stage
  <2>1. /\ Head(call.specs) \in Hypothesis /\ Tail(call.specs) \in Seq(Hypothesis)
        /\ ModelOf(Head(call.specs)) \in Program
    BY <1>0, <1>3, HeadTypes, ModelType DEF Stage
  <2>2. Known \in SUBSET Hypothesis
    BY DEF Known
  <2>3. call' \in CallType
    BY <1>0, <1>3, <2>1, <2>2 DEF Stage, CallType
  <2> QED BY <1>0, <1>3, <2>1, <2>3
    DEF Stage, TypeOK, CallType, Label, evidence, given
<1>4. CASE Verify
  <2>1. call' \in CallType
    BY <1>0, <1>4 DEF Verify, CallType
  <2> QED BY <1>0, <1>4, <2>1
    DEF Verify, TypeOK, CallType, Label, evidence, repository, given
<1>5. CASE RecordArchive
  <2>1. archive' \in [Program -> [0..Budget -> {"none", "passed", "failed"}]]
    BY <1>0, <1>5 DEF RecordArchive, TypeOK, Verdict
  <2> QED BY <1>0, <1>5, <2>1 DEF RecordArchive, TypeOK, CallType, Label, evidence, given
<1>6. CASE RecordLatest
  <2> DEFINE h == First(call.todo)
  <2>1. h \in Hypothesis
    BY <1>0, <1>6, ReplayedType DEF RecordLatest, Replaying
  <2>2. call.passed \in BOOLEAN /\ n \in 0..Budget /\ Verdict \in {"passed", "failed"}
    BY <1>0 DEF TypeOK, Verdict
  <2>3. latest' \in [Program -> [at : 0..Budget, verdict : {"none", "passed", "failed"}]]
    BY <1>0, <1>6, <2>2 DEF RecordLatest, TypeOK
  <2>4. WithEvidence(ledger[h]) \in Item
    <3>1. ledger[h] \in Item
      BY <1>0, <2>1 DEF TypeOK
    <3>2. n \in -1..Budget
      BY <2>2, NeverType
    <3> QED BY <3>1, <3>2, <2>2 DEF WithEvidence, Item
  <2>5. ledger' \in [Hypothesis -> Item]
    BY <1>0, <1>6, <2>4 DEF RecordLatest, TypeOK
  <2>6. Append(call.attempts, [of |-> h, passed |-> call.passed]) \in Seq(Attempt)
    BY <1>0, <2>1, <2>2, AppendProperties DEF CallType, Attempt
  <2>7. call' \in CallType
    BY <1>0, <1>6, <2>6 DEF RecordLatest, CallType
  <2>8. pc' \in Label
    BY <1>6 DEF RecordLatest, Label
  <2> QED BY <1>0, <1>6, <2>3, <2>5, <2>7, <2>8
    DEF RecordLatest, TypeOK, CallType, evidence, given
<1>7. CASE Promote
  <2>1. Winner \in Hypothesis /\ ModelOf(Winner) \in Program
    BY <1>0, <1>7, WinnerType DEF Promote
  <2>2. call' \in CallType
    BY <1>0, <1>7, <2>1 DEF Promote, CallType
  <2> QED BY <1>0, <1>7, <2>1, <2>2
    DEF Promote, TypeOK, CallType, Label, evidence, given
<1>8. CASE Deactivate
  BY <1>0, <1>8, NoCallType
    DEF Deactivate, EndCall, TypeOK, CallType, Label, Mode, evidence, given
<1>9. CASE Report
  <2>1. Head(call.attempts).of \in Hypothesis /\ Tail(call.attempts) \in Seq(Attempt)
    BY <1>0, <1>9, HeadTypes DEF Report
  <2>2. call.winner \in Hypothesis /\ ModelOf(call.winner) \in Program
    BY <1>0, <1>9, ModelType DEF Report, FlowOK
  <2>3. ModelOf(Head(call.attempts).of) \in Program
    BY <2>1, ModelType
  <2>4. revisions' \subseteq Event
    <3>1. \A m \in Program, b \in BOOLEAN, c \in BOOLEAN :
            [model |-> m, promoted |-> b, linked |-> c] \in Event
      BY DEF Event
    <3>2. /\ (Head(call.attempts).of = call.winner) \in BOOLEAN
          /\ (Head(call.attempts).of \in call.origins) \in BOOLEAN
      OBVIOUS
    <3>3. [model |-> ModelOf(Head(call.attempts).of),
           promoted |-> Head(call.attempts).of = call.winner,
           linked |-> Head(call.attempts).of \in call.origins] \in Event
      BY <2>3, <3>1, <3>2, Zenon
    <3>4. revisions' = revisions \cup {[model |-> ModelOf(Head(call.attempts).of),
             promoted |-> Head(call.attempts).of = call.winner,
             linked |-> Head(call.attempts).of \in call.origins]}
      BY <1>9, Zenon DEF Report
    <3> QED BY <1>0, <3>3, <3>4 DEF TypeOK
  <2>5. call' \in CallType
    BY <1>0, <1>9, <2>1, NoCallType DEF Report, EndCall, CallType
  <2>6. /\ program' \in Program \cup {NoProgram} /\ mode' \in Mode /\ pc' \in Label
        /\ dissent' \subseteq Program /\ active' \in Hypothesis \cup {<<>>}
        /\ ledger' \in [Hypothesis -> Item]
    BY <1>0, <1>9, <2>2 DEF Report, EndCall, TypeOK, Mode, Label
  <2> QED BY <1>0, <1>9, <2>4, <2>5, <2>6
    DEF Report, TypeOK, CallType, evidence, repository
<1>10. CASE Raise
  BY <1>0, <1>10, NoCallType
    DEF Raise, EndCall, TypeOK, CallType, Label, Mode, evidence, repository, given
<1>11. CASE PlanProbe
  <2>1. \A h \in Heaviest : ModelOf(h) \in Program
    BY ModelType DEF Heaviest, Weighted, Known
  <2>2. dissent' \subseteq Program
    BY <1>11, <2>1 DEF PlanProbe
  <2> QED BY <1>0, <1>11, <2>2 DEF PlanProbe, TypeOK, CallType, Mode, evidence, repository
<1>12. CASE PlanFallback \/ PlanRaises
  BY <1>0, <1>12
    DEF PlanFallback, PlanRaises, TypeOK, CallType, Mode, evidence, repository, given
<1>13. CASE Act
  <2>1. n' \in 0..Budget /\ n + 1 \in 0..Never
    BY <1>0, <1>13, NeverType DEF Act, TypeOK, FlowOK, Never
  <2>2. fails' \in [Program -> 0..Never]
    BY <1>0, <1>13, <2>1 DEF Act, TypeOK
  <2>3. broken' \subseteq Program /\ mode' \in Mode /\ dissent' \subseteq Program
    BY <1>0, <1>13 DEF Act, TypeOK, Mode
  <2> QED BY <1>0, <1>13, <2>1, <2>2, <2>3 DEF Act, TypeOK, CallType, repository
<1>14. CASE Halted \/ UNCHANGED vars
  BY <1>0, <1>14 DEF Halted, vars, TypeOK, CallType, evidence, repository, given
<1> QED BY <1>1, <1>2, <1>3, <1>4, <1>5, <1>6, <1>7, <1>8, <1>9, <1>10, <1>11, <1>12,
           <1>13, <1>14 DEF Next, Revision

-----------------------------------------------------------------------------
(* What each place has at hand                                             *)

\* Every action leaves at hand what its successor relies on.
LEMMA FlowStep == IInv /\ [Next]_vars => FlowOK'
<1> SUFFICES ASSUME IInv, [Next]_vars PROVE FlowOK'
  OBVIOUS
<1> USE DEF IInv
<1>0. TypeOK /\ FlowOK /\ call \in CallType
  BY DEF TypeOK, CallType
<1>1. CASE Revise
  BY <1>1 DEF Revise, NoCall, FlowOK, Replaying
<1>2. CASE Propose
  <2>1. PICK p \in Program :
          /\ call' = [call EXCEPT !.specs =
                        Append(call.specs, <<p, Reading(Len(call.specs) + 1)>>)]
          /\ pc' \in {"stage", "propose"}
    BY <1>2 DEF Propose
  <2>2. Append(call.specs, <<p, Reading(Len(call.specs) + 1)>>) # <<>>
    <3>1. Len(call.specs) + 1 \in Nat \ {0} /\ call.readings \in Readings
      BY <1>0, <1>2, LenProperties DEF CallType, FlowOK, Propose
    <3>2. <<p, Reading(Len(call.specs) + 1)>> \in Hypothesis
      BY <3>1, ReadingType DEF Hypothesis
    <3> QED BY <1>0, <3>2, AppendProperties DEF CallType
  <2> QED BY <1>0, <1>2, <2>1, <2>2 DEF Propose, FlowOK, Replaying, CallType
<1>3. CASE Stage
  <2>1. Head(call.specs) \in call'.todo
    BY <1>0, <1>3 DEF Stage, CallType
  <2>2. pc' = "stage" => call'.specs # <<>>
    <3>1. SUFFICES ASSUME pc' = "stage" PROVE call'.specs # <<>>
      OBVIOUS
    <3>2. pc = "stage" /\ Len(call.specs) # 1 /\ call'.specs = Tail(call.specs)
      BY <1>0, <1>3, <3>1 DEF Stage, CallType
    <3>3. Len(Tail(call.specs)) # 0
      BY <1>0, <3>2, HeadTypes
    <3>4. Len(<<>>) = 0
      BY EmptySeq
    <3> QED BY <3>2, <3>3, <3>4
  <2>3. pc' \in {"verify", "stage"} /\ pc = "stage" /\ mode' = mode
    BY <1>3 DEF Stage
  <2> QED BY <1>0, <2>1, <2>2, <2>3 DEF FlowOK, Replaying
<1>4. CASE Verify
  BY <1>0, <1>4 DEF Verify, FlowOK, Replaying, CallType
<1>5. CASE RecordArchive
  BY <1>0, <1>5 DEF RecordArchive, FlowOK, Replaying
<1>6. CASE RecordLatest
  <2> DEFINE h == First(call.todo)
             next == Append(call.attempts, [of |-> h, passed |-> call.passed])
  <2>1. h \in call.todo
    BY <1>0, <1>6, ReplayedType DEF RecordLatest, Replaying
  <2>2. call'.todo = call.todo \ {h} /\ call'.attempts = next
    BY <1>0, <1>6 DEF RecordLatest, CallType
  <2>3. pc' = "verify" => call'.todo # {}
    BY <1>6, <2>1, <2>2 DEF RecordLatest
  <2>4. pc' = "promote" => Passing' # {}
    <3>1. SUFFICES ASSUME pc' = "promote" PROVE Passing' # {}
      OBVIOUS
    <3>2. PICK i \in DOMAIN next : next[i].passed
      BY <1>6, <3>1 DEF RecordLatest
    <3>3. next[i].of \in Passing'
      BY <2>2, <3>2 DEF Passing
    <3> QED BY <3>3
  <2>5. pc' \in {"verify", "promote", "deactivate"} /\ pc = "latest" /\ mode' = mode
    BY <1>6 DEF RecordLatest
  <2> QED BY <1>0, <2>3, <2>4, <2>5 DEF FlowOK, Replaying
<1>7. CASE Promote
  <2>1. Winner \in Hypothesis
    BY <1>0, <1>7, WinnerType DEF Promote
  <2>2. call.attempts # <<>>
    <3>1. Passing # {}
      BY <1>0, <1>7 DEF Promote, FlowOK
    <3>2. call.attempts = <<>> => DOMAIN call.attempts = {}
      OBVIOUS
    <3> QED BY <3>1, <3>2 DEF Passing
  <2> QED BY <1>0, <1>7, <2>1, <2>2 DEF Promote, FlowOK, Replaying, CallType
<1>8. CASE Deactivate \/ Raise
  BY <1>8 DEF Deactivate, Raise, EndCall, FlowOK, Replaying
<1>9. CASE Report
  <2>1. Len(call.attempts) > 1 => Tail(call.attempts) # <<>>
    <3>1. SUFFICES ASSUME Len(call.attempts) > 1 PROVE Tail(call.attempts) # <<>>
      OBVIOUS
    <3>2. pc = "report"
      BY <1>9 DEF Report
    <3>3. Len(call.attempts) \in Nat /\ Len(Tail(call.attempts)) = Len(call.attempts) - 1
      BY <1>0, <3>2, HeadTypes
    <3>4. Len(Tail(call.attempts)) # 0
      <4>1. \A k \in Nat : k > 1 => k - 1 # 0
        OBVIOUS
      <4> QED BY <3>1, <3>3, <4>1, Zenon
    <3>5. Len(<<>>) = 0
      BY EmptySeq
    <3> QED BY <3>4, <3>5
  <2> QED BY <1>0, <1>9, <2>1 DEF Report, EndCall, FlowOK, Replaying, CallType
<1>10. CASE PlanProbe \/ PlanFallback \/ PlanRaises
  BY <1>0, <1>10
    DEF PlanProbe, PlanFallback, PlanRaises, MayPlan, FlowOK, Replaying, evidence
<1>11. CASE Act
  BY <1>0, <1>11 DEF Act, FlowOK, Replaying
<1>12. CASE Halted \/ UNCHANGED vars
  BY <1>0, <1>12 DEF Halted, vars, FlowOK, Replaying, Passing, evidence
<1> QED BY <1>1, <1>2, <1>3, <1>4, <1>5, <1>6, <1>7, <1>8, <1>9, <1>10, <1>11, <1>12
           DEF Next, Revision

-----------------------------------------------------------------------------
(* From the evidence to the pointer                                        *)

\* Every action keeps the receipts true.
LEMMA ReceiptStep == IInv /\ [Next]_vars => ReceiptOK'
<1> SUFFICES ASSUME IInv, [Next]_vars PROVE ReceiptOK'
  OBVIOUS
<1> USE DEF IInv
<1>0. TypeOK /\ FlowOK /\ ReceiptOK /\ call \in CallType
  BY DEF TypeOK, CallType
<1>1. CASE Revise \/ Propose \/ Stage
  <2>1. UNCHANGED <<n, fails, archive, latest, mode>> /\ pc # "latest"
    BY <1>1 DEF Revise, Propose, Stage, evidence, repository
  <2>2. pc' \notin {"archive", "latest"}
    BY <1>1 DEF Revise, Propose, Stage
  <2> QED BY <1>0, <2>1, <2>2 DEF ReceiptOK
<1>2. CASE Verify
  <2>1. UNCHANGED <<n, fails, archive, latest, mode>> /\ pc = "verify" /\ pc' = "archive"
    BY <1>2 DEF Verify, evidence, repository
  <2>2. Replayed' = Replayed
    BY <1>0, <1>2 DEF Verify, Replayed, CallType
  <2>3. call'.passed => ~Unfit(Replayed)
    BY <1>0, <1>2 DEF Verify, Replayed, CallType
  <2> QED BY <1>0, <2>1, <2>2, <2>3 DEF ReceiptOK, Unfit
<1>3. CASE RecordArchive
  <2>1. Replayed \in Program /\ n \in 0..Budget
    BY <1>0, <1>3, ReplayedType DEF RecordArchive, Replaying, TypeOK
  <2>2. /\ UNCHANGED <<n, fails, latest, mode, call>> /\ pc = "archive" /\ pc' = "latest"
        /\ archive' = [archive EXCEPT ![Replayed][n] = Verdict]
    BY <1>3 DEF RecordArchive, evidence, Replayed
  <2>3. /\ archive'[Replayed][n] = Verdict
        /\ \A p \in Program, e \in 0..Budget :
             p # Replayed \/ e # n => archive'[p][e] = archive[p][e]
    BY <1>0, <2>1, <2>2 DEF TypeOK
  <2>4. Replayed' = Replayed /\ Verdict' = Verdict
    BY <2>2 DEF Replayed, Verdict
  <2>5. Verdict = "passed" => fails[Replayed] > n
    <3>1. fails[Replayed] \in Int /\ n \in Int
      BY <1>0, <2>1, NeverType DEF TypeOK
    <3> QED BY <1>0, <2>2, <3>1 DEF ReceiptOK, Unfit, Verdict
  <2>6. \A p \in Program, e \in 0..Budget : archive'[p][e] = "passed" => e <= n /\ fails[p] > e
    BY <1>0, <2>1, <2>3, <2>5 DEF ReceiptOK
  <2>7. \A p \in Program : p # Replayed => archive'[p] = archive[p]
    BY <1>0, <2>1, <2>2 DEF TypeOK
  <2> QED BY <1>0, <2>2, <2>3, <2>4, <2>6, <2>7 DEF ReceiptOK, Unfit
<1>4. CASE RecordLatest
  <2>1. Replayed \in Program /\ n \in 0..Budget
    BY <1>0, <1>4, ReplayedType DEF RecordLatest, Replaying, TypeOK
  <2>2. /\ UNCHANGED <<n, fails, archive, mode>> /\ pc = "latest"
        /\ pc' \notin {"archive", "latest"}
        /\ latest' = [latest EXCEPT ![Replayed] = [at |-> n, verdict |-> Verdict]]
    BY <1>4 DEF RecordLatest, evidence, Replayed
  <2>3. \A p \in Program : latest'[p] =
          IF p = Replayed THEN [at |-> n, verdict |-> Verdict] ELSE latest[p]
    BY <1>0, <2>1, <2>2 DEF TypeOK
  <2>4. archive[Replayed][n] = Verdict
    BY <1>0, <2>2 DEF ReceiptOK
  <2> QED BY <1>0, <2>1, <2>2, <2>3, <2>4 DEF ReceiptOK
<1>5. CASE Promote \/ Report
  <2>1. UNCHANGED <<n, fails, archive, latest>> /\ pc \notin {"archive", "latest"}
    BY <1>5 DEF Promote, Report, evidence, repository
  <2>2. pc' \notin {"archive", "latest"} /\ mode # "failed"
    BY <1>0, <1>5 DEF Promote, Report, EndCall, FlowOK
  <2> QED BY <1>0, <2>1, <2>2 DEF ReceiptOK
<1>6. CASE Deactivate \/ Raise
  BY <1>0, <1>6 DEF Deactivate, Raise, EndCall, evidence, repository, ReceiptOK
<1>7. CASE PlanProbe \/ PlanFallback \/ PlanRaises
  BY <1>0, <1>7
    DEF PlanProbe, PlanFallback, PlanRaises, MayPlan, evidence, repository, ReceiptOK
<1>8. CASE Act
  <2>1. /\ n' = n + 1 /\ UNCHANGED <<archive, latest>> /\ pc = "idle" /\ pc' = "idle"
        /\ mode = "act"
        /\ \A p \in Program : fails'[p] = fails[p] \/ (fails'[p] = n + 1 /\ ~Unfit(p))
    BY <1>8 DEF Act, repository
  <2>2. n \in Int /\ \A p \in Program : fails[p] \in Int
    BY <1>0, NeverType DEF TypeOK
  <2>3. \A p \in Program : fails'[p] <= n' \/ fails'[p] = Never
    BY <1>0, <2>1, <2>2 DEF ReceiptOK
  <2>4. \A p \in Program, e \in 0..Budget : archive[p][e] = "passed" => e <= n' /\ fails'[p] > e
    BY <1>0, <2>1, <2>2, NeverType DEF ReceiptOK
  <2> QED BY <1>0, <2>1, <2>3, <2>4 DEF ReceiptOK
<1>9. CASE Halted \/ UNCHANGED vars
  <2>1. UNCHANGED <<n, fails, archive, latest, mode, pc, call>>
    BY <1>9 DEF Halted, vars, evidence, repository
  <2> QED BY <1>0, <2>1 DEF ReceiptOK, Replayed, Verdict, Unfit
<1> QED BY <1>1, <1>2, <1>3, <1>4, <1>5, <1>6, <1>7, <1>8, <1>9 DEF Next, Revision

-----------------------------------------------------------------------------
(* From the pointer to the served model                                    *)

\* Every action keeps the pointer and the served model certified.
LEMMA ServedStep == IInv /\ [Next]_vars => ServedOK'
<1> SUFFICES ASSUME IInv, [Next]_vars PROVE ServedOK'
  OBVIOUS
<1> USE DEF IInv
<1>0. TypeOK /\ FlowOK /\ ReceiptOK /\ ServedOK /\ n \in Int /\ pointer.at \in Int
  BY NeverType DEF TypeOK
<1>1. CASE Revise \/ Propose \/ Stage \/ Verify \/ RecordLatest
  <2>1. /\ UNCHANGED <<n, archive, pointer, mode>>
        /\ pc # "report" /\ pc' \notin {"idle", "report"}
    BY <1>1 DEF Revise, Propose, Stage, Verify, RecordLatest, evidence, repository
  <2> QED BY <1>0, <2>1 DEF ServedOK, Serving
<1>2. CASE RecordArchive
  <2>1. Replayed \in Program /\ n \in 0..Budget
    BY <1>0, <1>2, ReplayedType DEF RecordArchive, Replaying, TypeOK
  <2>2. /\ UNCHANGED <<n, pointer, mode>> /\ pc = "archive" /\ pc' = "latest"
        /\ archive' = [archive EXCEPT ![Replayed][n] = Verdict]
        /\ mode = "revise"
    BY <1>0, <1>2 DEF RecordArchive, evidence, Replayed, FlowOK
  <2>3. ASSUME pointer.model # NoProgram
        PROVE  archive'[pointer.model][pointer.at] = "passed"
    <3>1. pointer.at < n /\ pointer.model \in Program /\ pointer.at \in 0..Budget
      BY <1>0, <2>2, <2>3 DEF ServedOK, TypeOK
    <3>2. archive'[pointer.model][pointer.at] = archive[pointer.model][pointer.at]
      BY <1>0, <2>1, <2>2, <3>1 DEF TypeOK
    <3> QED BY <1>0, <2>3, <3>2 DEF ServedOK
  <2> QED BY <1>0, <2>2, <2>3 DEF ServedOK, Serving
<1>3. CASE Promote
  <2>1. Winner \in Hypothesis /\ ModelOf(Winner) \in Program /\ n \in 0..Budget
    BY <1>0, <1>3, WinnerType DEF Promote, TypeOK
  <2>2. /\ UNCHANGED <<n, fails, archive, mode>> /\ pc = "promote" /\ pc' = "report"
        /\ pointer' = [model |-> ModelOf(Winner), at |-> n] /\ call'.winner = Winner
    BY <1>0, <1>3 DEF Promote, evidence, TypeOK
  <2>3. latest[ModelOf(Winner)].at = n /\ latest[ModelOf(Winner)].verdict = "passed"
    BY <1>3 DEF Promote, Promotable
  <2>4. archive[ModelOf(Winner)][n] = "passed"
    BY <1>0, <2>1, <2>2, <2>3 DEF ReceiptOK, FlowOK
  <2>5. fails[ModelOf(Winner)] > n
    BY <1>0, <2>1, <2>4 DEF ReceiptOK
  <2> QED BY <1>0, <2>2, <2>4, <2>5 DEF ServedOK, Serving
<1>4. CASE Deactivate
  BY <1>0, <1>4 DEF Deactivate, EndCall, evidence, ServedOK, Serving
<1>5. CASE Report
  <2>1. UNCHANGED <<n, fails, archive, pointer>> /\ pc = "report"
    BY <1>5 DEF Report, evidence, repository
  <2>2. CASE Len(call.attempts) > 1
    <3>1. UNCHANGED <<pc, mode, program>> /\ call'.winner = call.winner
      BY <1>0, <1>5, <2>2 DEF Report, TypeOK
    <3> QED BY <1>0, <2>1, <3>1 DEF ServedOK, Serving
  <2>3. CASE ~(Len(call.attempts) > 1)
    <3>1. program' = ModelOf(call.winner) /\ mode' = "plan" /\ pc' = "idle"
      BY <1>5, <2>3 DEF Report, EndCall
    <3>2. ModelOf(call.winner) \in Program
      BY <1>0, <2>1, ModelType DEF FlowOK
    <3> QED BY <1>0, <2>1, <3>1, <3>2 DEF ServedOK, Serving
  <2> QED BY <2>2, <2>3
<1>6. CASE Raise
  BY <1>0, <1>6 DEF Raise, EndCall, evidence, repository, ServedOK, Serving
<1>7. CASE PlanProbe \/ PlanFallback \/ PlanRaises
  BY <1>0, <1>7 DEF PlanProbe, PlanFallback, PlanRaises, MayPlan, evidence, repository,
                    given, ServedOK, Serving
<1>8. CASE Act
  <2>1. /\ n' = n + 1 /\ UNCHANGED <<archive, pointer, program, pc>>
        /\ pc = "idle" /\ mode = "act" /\ n < Budget
    BY <1>0, <1>8 DEF Act, repository, FlowOK
  <2>2. ASSUME Serving' PROVE program \in Program /\ fails'[program] > n'
    <3>1. program \in Program /\ fails[program] > n
      BY <1>0, <2>1 DEF ServedOK, Serving
    <3>2. fails'[program] = fails[program]
      BY <1>0, <1>8, <2>2, <3>1 DEF Act, Serving
    <3>3. fails[program] = Never /\ fails[program] \in Int
      BY <1>0, <3>1, NeverType DEF ReceiptOK, TypeOK
    <3> QED BY <1>0, <2>1, <3>1, <3>2, <3>3, NeverType DEF Never
  <2> QED BY <1>0, <2>1, <2>2 DEF ServedOK, Serving
<1>9. CASE Halted \/ UNCHANGED vars
  BY <1>0, <1>9 DEF Halted, vars, evidence, repository, given, ServedOK, Serving
<1> QED BY <1>1, <1>2, <1>3, <1>4, <1>5, <1>6, <1>7, <1>8, <1>9 DEF Next, Revision

-----------------------------------------------------------------------------
(* The theorems                                                            *)

LEMMA InitCorrect == Init => IInv
<1> SUFFICES ASSUME Init PROVE IInv
  OBVIOUS
<1>1. TypeOK
  BY TypeInit
<1>2. FlowOK
  BY DEF Init, FlowOK, Replaying
<1>3. ReceiptOK
  BY NeverType DEF Init, ReceiptOK
<1>4. ServedOK
  BY NeverType DEF Init, ServedOK, Serving
<1> QED BY <1>1, <1>2, <1>3, <1>4 DEF IInv

\* The chain from the evidence to the served model is never broken, whatever fails
\* (revision.py reconcile, store.py promote).
THEOREM InvCorrect == Spec => []IInv
<1>1. IInv /\ [Next]_vars => IInv'
  BY TypeStep, FlowStep, ReceiptStep, ServedStep DEF IInv
<1> QED BY InitCorrect, <1>1, PTL DEF Spec

\* Every reachable state of the revision engine has its type.
THEOREM TypeCorrect == Spec => []TypeOK
<1>1. IInv => TypeOK
  BY DEF IInv
<1> QED BY InvCorrect, <1>1, PTL

\* What active.json names has a passed receipt for the history it was promoted on,
\* and the receipt is true (store.py:75-99, revision.py:110-127).
THEOREM PointerCorrect == Spec => []PointerCertified
<1>1. IInv => PointerCertified
  <2> SUFFICES ASSUME IInv, pointer.model # NoProgram
               PROVE  /\ archive[pointer.model][pointer.at] = "passed"
                      /\ fails[pointer.model] > pointer.at
    BY DEF PointerCertified
  <2>1. pointer.model \in Program /\ pointer.at \in 0..Budget
    BY DEF IInv, TypeOK
  <2> QED BY <2>1 DEF IInv, ServedOK, ReceiptOK
<1> QED BY InvCorrect, <1>1, PTL

\* Evidence is bought only with a model that reproduces all of it, and a refuted model
\* is replaced by one that does: the revision engine implements the abstract theory
\* that the episode relies on (revision.py:43-144, services.py:31-79).
THEOREM TheoryImplemented == Spec => ImplementsTheory
<1> DEFINE standing == IF program = NoProgram THEN "none"
                       ELSE IF Unfit(program) THEN "refuted" ELSE "certified"
<1>1. Init => Abstract!Init
  BY DEF Init, Abstract!Init
<1>2. IInv /\ [Next]_vars => [Abstract!Next]_Abstract!theoryVars
  <2> SUFFICES ASSUME IInv, [Next]_vars PROVE [Abstract!Next]_<<n, standing>>
    BY DEF Abstract!theoryVars
  <2>0. TypeOK /\ FlowOK /\ ServedOK /\ n \in Int
    BY DEF IInv, TypeOK
  <2>1. CASE Act
    <3>1. program' = program /\ n' = n + 1 /\ program \in Program /\ fails[program] > n
      BY <2>0, <2>1 DEF Act, ServedOK, Serving
    <3>2. standing = "certified" /\ standing' \in {"certified", "refuted"}
      BY <2>0, <3>1, NoProgramAssumption, NeverType DEF Unfit, TypeOK
    <3> QED BY <3>1, <3>2 DEF Abstract!Next, Abstract!Buy
  <2>2. CASE Report
    <3>1. UNCHANGED <<n, fails>>
      BY <2>2 DEF Report, evidence
    <3>2. CASE program' = program
      BY <3>1, <3>2 DEF Unfit
    <3>3. CASE program' # program
      <4>1. program' = ModelOf(call.winner) /\ fails[ModelOf(call.winner)] > n
            /\ ModelOf(call.winner) \in Program
        BY <2>0, <2>2, <3>3, ModelType DEF Report, ServedOK, FlowOK
      <4>2. standing' = "certified"
        BY <2>0, <3>1, <4>1, NoProgramAssumption, NeverType DEF Unfit, TypeOK
      <4>3. standing \in {"none", "refuted", "certified"}
        OBVIOUS
      <4> QED BY <3>1, <4>2, <4>3 DEF Abstract!Next, Abstract!Adopt
    <3> QED BY <3>2, <3>3
  <2>3. CASE ~Act /\ ~Report
    <3>1. UNCHANGED <<n, fails, program>>
      BY <2>3 DEF Next, Revision, Revise, Propose, Stage, Verify, RecordArchive,
        RecordLatest, Promote, Deactivate, Raise, PlanProbe, PlanFallback, PlanRaises,
        Halted, vars, evidence, given
    <3> QED BY <3>1 DEF Unfit
  <2> QED BY <2>1, <2>2, <2>3
<1> QED BY InvCorrect, <1>1, <1>2, PTL DEF Spec, ImplementsTheory, Abstract!Spec

-----------------------------------------------------------------------------
(* What a revision has learned                                             *)

Judging   == Replaying \/ pc \in {"promote", "deactivate"}
Attempted == {call.attempts[i].of : i \in DOMAIN call.attempts}
Linked    == {f.model : f \in {e \in revisions : e.linked}}

\* What a call keeps of its candidates and of the hypotheses it has replayed.
AccountOK ==
    /\ pc = "idle" => call = NoCall
    /\ pc = "propose" => call.origins = {}
    /\ pc \in {"propose", "stage"} => call.attempts = <<>>
    /\ Judging \/ pc = "report" => \A h \in Known \ call.todo : ledger[h].at = n
    /\ Judging \/ pc = "report" => call.origins \subseteq Known \cup call.todo
    /\ Judging => call.todo \subseteq Known \cup call.origins
    /\ pc \in {"promote", "deactivate", "report"} => call.todo = {}
    /\ Judging => Passing = {h \in Hypothesis \ call.todo : ledger[h].consistent}
    /\ pc = "deactivate" => Passing = {}
    /\ mode # "failed" => staged = {ModelOf(h) : h \in Known \cup call.origins}

\* What is true of the hypotheses with weight, during a revision and after it.
WeightOK ==
    /\ Judging => \A h \in Weighted \ call.todo : fails[ModelOf(h)] > n
    /\ pc = "report" =>
         /\ call.winner \in Weighted /\ active = call.winner
         /\ pointer.model = ModelOf(call.winner) /\ pointer.at = n
         /\ \A h \in Weighted : Size[ModelOf(call.winner)] <= Size[ModelOf(h)]
         /\ \A h \in Weighted : fails[ModelOf(h)] > n
    /\ Serving =>
         /\ program = pointer.model /\ active \in Weighted /\ ModelOf(active) = program
         /\ \A h \in Weighted : Size[program] <= Size[ModelOf(h)]
         /\ \A h \in Weighted : fails[ModelOf(h)] > pointer.at
         /\ \A h \in Known : ledger[h].at = pointer.at

\* Every hypothesis of an earlier revision has a linked event, every candidate of the
\* present one has it or is still to be reported.
LinkOK ==
    /\ mode # "failed" => \A h \in Known \ call.origins : ModelOf(h) \in Linked
    /\ Judging => call.origins \subseteq call.todo \cup Attempted
    /\ pc = "report" => \A h \in call.origins : ModelOf(h) \in Linked \/ h \in Attempted
    /\ SourceLinked

Reliable == Faults \cap {"sandbox", "disk"} = {}

\* With calls of the sandbox that end in time and writes that succeed, a verdict is the
\* truth, and the receipts of the replayed programs are.
LossOK ==
    /\ pc \in {"archive", "latest"} => (call.passed <=> ~Unfit(Replayed))
    /\ Judging => \A h \in Known \ call.todo :
         latest[ModelOf(h)] = [at |-> n, verdict |-> IF Unfit(ModelOf(h)) THEN "failed" ELSE "passed"]
    /\ Judging \/ pc = "report" =>
         \A h \in Known \ call.todo : ~Unfit(ModelOf(h)) => ledger[h].consistent
    /\ mode = "revise" /\ ~Judging /\ pc # "report" /\ pointer.model = NoProgram => Known = {}
    /\ Serving => \A h \in Known : fails[ModelOf(h)] > pointer.at => ledger[h].consistent
    /\ mode = "failed" /\ pointer.model = NoProgram => \A h \in Known : Unfit(ModelOf(h))

JInv == IInv /\ AccountOK /\ WeightOK /\ LinkOK

-----------------------------------------------------------------------------
(* What the ledger and the attempts of a call hold                         *)

\* The next hypothesis replayed enters the ledger and the attempts.
LEMMA LedgerLearns ==
    ASSUME IInv, RecordLatest, NEW h, h = First(call.todo)
    PROVE  /\ h \in Hypothesis /\ h \in call.todo
           /\ ledger'[h].consistent <=> call.passed
           /\ ledger'[h].at = n
           /\ \A g \in Hypothesis \ {h} : ledger'[g] = ledger[g]
           /\ Known' = Known \cup {h}
           /\ \A g \in Hypothesis : g \in Weighted' <=> IF g = h THEN call.passed ELSE g \in Weighted
<1>0. /\ TypeOK /\ h \in Hypothesis /\ h \in call.todo /\ n \in 0..Budget
      /\ call.passed \in BOOLEAN
  BY ReplayedType DEF IInv, RecordLatest, Replaying, TypeOK
<1>1. ledger' = [ledger EXCEPT ![h] = WithEvidence(ledger[h])]
  BY DEF RecordLatest
<1>2. ledger \in [Hypothesis -> Item]
  BY <1>0 DEF TypeOK
<1>3. ledger'[h] = WithEvidence(ledger[h]) /\ \A g \in Hypothesis \ {h} : ledger'[g] = ledger[g]
  BY <1>0, <1>1, <1>2
<1>4. (WithEvidence(ledger[h]).consistent <=> call.passed) /\ WithEvidence(ledger[h]).at = n
  BY DEF WithEvidence
<1>5. WithEvidence(ledger[h]) # NoItem
  <2>1. NoItem.at = -1 /\ n # -1
    BY <1>0 DEF NoItem
  <2> QED BY <2>1, <1>4
<1>6. Known' = Known \cup {h}
  BY <1>0, <1>3, <1>5 DEF Known
<1>7. \A g \in Hypothesis : g \in Weighted' <=> IF g = h THEN call.passed ELSE g \in Weighted
  BY <1>0, <1>3, <1>4, <1>6 DEF Weighted, Known
<1> QED BY <1>0, <1>3, <1>4, <1>6, <1>7

LEMMA AttemptsGrow ==
    ASSUME IInv, RecordLatest, NEW h, h = First(call.todo)
    PROVE  /\ call'.todo = call.todo \ {h} /\ call'.origins = call.origins
           /\ Attempted' = Attempted \cup {h}
           /\ \A g \in Hypothesis : g \in Passing' <=> g \in Passing \/ (g = h /\ call.passed)
           /\ Passing' \subseteq Hypothesis
           /\ pc' = "deactivate" => Passing' = {}
           /\ pc' \in {"verify", "promote", "deactivate"}
           /\ pc' = "verify" <=> call'.todo # {}
<1> DEFINE a    == call.attempts
           x    == [of |-> h, passed |-> call.passed]
           next == Append(a, x)
<1>0. /\ call \in CallType /\ a \in Seq(Attempt) /\ Len(a) \in Nat /\ h \in Hypothesis
      /\ DOMAIN a = 1..Len(a) /\ h \in call.todo /\ x \in Attempt
  <2>1. call \in CallType /\ a \in Seq(Attempt) /\ call.passed \in BOOLEAN
    BY DEF IInv, TypeOK, CallType
  <2>2. h \in Hypothesis /\ h \in call.todo
    BY LedgerLearns
  <2> QED BY <2>1, <2>2, LenProperties DEF Attempt
<1>1. call'.todo = call.todo \ {h} /\ call'.attempts = next /\ call'.origins = call.origins
  BY <1>0 DEF RecordLatest, CallType
<1>2. /\ DOMAIN next = 1..(Len(a) + 1) /\ next[Len(a) + 1] = x
      /\ \A i \in 1..Len(a) : next[i] = a[i]
  <2>1. /\ next \in Seq(Attempt) /\ Len(next) = Len(a) + 1 /\ next[Len(a) + 1] = x
        /\ \A i \in 1..Len(a) : next[i] = a[i]
    BY <1>0, AppendProperties
  <2> QED BY <2>1, LenProperties
<1>3. x.of = h /\ (x.passed <=> call.passed)
  OBVIOUS
<1> HIDE DEF next, x, a
<1>4. DOMAIN next = DOMAIN a \cup {Len(a) + 1} /\ Len(a) + 1 \notin DOMAIN a
  BY <1>0, <1>2
<1>5. Attempted' = Attempted \cup {h}
  <2>1. {next[i].of : i \in DOMAIN next} = {a[i].of : i \in DOMAIN a} \cup {h}
    BY <1>0, <1>2, <1>3, <1>4
  <2> QED BY <1>1, <2>1 DEF Attempted, a
<1>6. ASSUME NEW g \in Hypothesis PROVE g \in Passing' <=> g \in Passing \/ (g = h /\ call.passed)
  <2>1. g \in Passing' <=> \E i \in DOMAIN next : next[i].passed /\ next[i].of = g
    BY <1>1 DEF Passing
  <2>2. g \in Passing <=> \E i \in DOMAIN a : a[i].passed /\ a[i].of = g
    BY DEF Passing, a
  <2> QED BY <1>0, <1>2, <1>3, <1>4, <2>1, <2>2
<1>7. /\ pc' \in {"verify", "promote", "deactivate"}
      /\ pc' = "verify" <=> call.todo # {h}
      /\ pc' = "deactivate" => ~(\E i \in DOMAIN next : next[i].passed)
  BY DEF RecordLatest, next, a, x
<1>8. pc' = "deactivate" => Passing' = {}
  BY <1>1, <1>7 DEF Passing
<1>9. Passing' \subseteq Hypothesis
  <2>1. \A i \in DOMAIN next : next[i].of \in Hypothesis
    <3>1. next \in Seq(Attempt)
      BY <1>0, AppendProperties DEF next
    <3>2. \A i \in DOMAIN next : next[i] \in Attempt
      BY <3>1, LenProperties
    <3>3. \A y \in Attempt : y.of \in Hypothesis
      BY DEF Attempt
    <3> QED BY <3>2, <3>3
  <2>2. \A g \in Passing' : \E i \in DOMAIN next : g = next[i].of
    BY <1>1 DEF Passing
  <2> QED BY <2>1, <2>2
<1> QED BY <1>0, <1>1, <1>5, <1>6, <1>7, <1>8, <1>9

\* A report removes the first attempt.
LEMMA AttemptsShrink ==
    ASSUME IInv, Report, Len(call.attempts) > 1
    PROVE  /\ Attempted \subseteq Attempted' \cup {Head(call.attempts).of}
           /\ call'.origins = call.origins /\ call'.todo = call.todo
           /\ call'.winner = call.winner
<1> DEFINE a == call.attempts
<1>0. call \in CallType /\ a \in Seq(Attempt) /\ a # <<>> /\ Len(a) \in Nat /\ DOMAIN a = 1..Len(a)
  <2>1. call \in CallType /\ a \in Seq(Attempt) /\ a # <<>>
    BY DEF IInv, TypeOK, CallType, FlowOK, Report
  <2> QED BY <2>1, LenProperties
<1>1. call'.attempts = Tail(a) /\ call'.origins = call.origins /\ call'.winner = call.winner
      /\ call'.todo = call.todo
  BY <1>0 DEF Report, CallType
<1>2. /\ Tail(a) \in Seq(Attempt) /\ Len(Tail(a)) = Len(a) - 1 /\ Head(a) = a[1]
      /\ \A i \in 1..Len(Tail(a)) : Tail(a)[i] = a[i + 1]
  BY <1>0, HeadTailProperties
<1>3. DOMAIN Tail(a) = 1..(Len(a) - 1)
  BY <1>2, LenProperties
<1>4. ASSUME NEW i \in DOMAIN a, i # 1 PROVE a[i].of \in Attempted'
  <2>1. i - 1 \in DOMAIN Tail(a) /\ Tail(a)[i - 1] = a[i]
    BY <1>0, <1>2, <1>3, <1>4
  <2> QED BY <1>1, <2>1 DEF Attempted
<1> QED BY <1>1, <1>2, <1>4 DEF Attempted

\* With one attempt left, that is the one reported.
LEMMA LastAttempt ==
    ASSUME IInv, Report, ~(Len(call.attempts) > 1)
    PROVE  Attempted \subseteq {Head(call.attempts).of}
<1> DEFINE a == call.attempts
<1>0. a \in Seq(Attempt) /\ a # <<>>
  BY DEF IInv, TypeOK, FlowOK, Report
<1>1. Len(a) = 1 /\ DOMAIN a = 1..Len(a) /\ Head(a) = a[1]
  <2>1. Len(a) \in Nat \ {0}
    BY <1>0, EmptySeq
  <2>2. DOMAIN a = 1..Len(a) /\ Head(a) = a[1]
    BY <1>0, LenProperties, HeadTailProperties
  <2>3. ~(Len(a) > 1)
    OBVIOUS
  <2> HIDE DEF a
  <2> QED BY <2>1, <2>2, <2>3
<1> QED BY <1>1 DEF Attempted

\* The winner is at least as simple as every other that passed.
LEMMA WinnerSimplest ==
    ASSUME IInv, pc = "promote", NEW g \in Passing
    PROVE  Size[ModelOf(Winner)] <= Size[ModelOf(g)]
<1>1. TypeOK /\ FlowOK /\ Passing \in SUBSET Hypothesis /\ Passing # {}
  BY PassingType DEF IInv, FlowOK
<1>2. PICK h \in Passing : \A k \in Passing : Better(h, k)
  BY <1>1, BestPasses DEF TypeOK
<1>3. \A k \in Passing : Better(Winner, k)
  BY <1>2 DEF Winner
<1>4. Winner \in Passing
  BY <1>1, WinnerPasses DEF TypeOK
<1>5. Size[ModelOf(Winner)] \in Nat /\ Size[ModelOf(g)] \in Nat
  BY <1>1, <1>4, ModelType, SizeAssumption
<1>6. Better(Winner, g)
  BY <1>3
<1> QED BY <1>5, <1>6 DEF Better


\* While the ledger is left alone, so are the hypotheses it knows and their weight.
LEMMA SameLedger ==
    ASSUME UNCHANGED ledger
    PROVE  Known' = Known /\ Weighted' = Weighted
BY DEF Known, Weighted

\* What an update of a call leaves alone.
LEMMA CallUpdates ==
    ASSUME call \in CallType
    PROVE  /\ NoCall.origins = {} /\ NoCall.todo = {} /\ NoCall.attempts = <<>>
           /\ Revise => call'.origins = {} /\ call'.attempts = <<>>
           /\ Propose => UNCHANGED <<call.origins, call.attempts>>
           /\ Stage => /\ call'.origins = call.origins \cup {Head(call.specs)}
                       /\ call'.todo = Known \cup call'.origins
                       /\ UNCHANGED call.attempts
           /\ Verify => UNCHANGED <<call.origins, call.attempts, call.todo>>
           /\ Promote => /\ UNCHANGED <<call.origins, call.attempts, call.todo>>
                         /\ call'.winner = Winner
<1>1. NoCall.origins = {} /\ NoCall.todo = {} /\ NoCall.attempts = <<>>
  BY DEF NoCall
<1>2. Revise => call'.origins = {} /\ call'.attempts = <<>>
  BY DEF Revise, NoCall
<1>3. Propose => UNCHANGED <<call.origins, call.attempts>>
  BY DEF Propose, CallType
<1>4. Stage => /\ call'.origins = call.origins \cup {Head(call.specs)}
               /\ call'.todo = Known \cup call'.origins
               /\ UNCHANGED call.attempts
  BY DEF Stage, CallType
<1>5. Verify => UNCHANGED <<call.origins, call.attempts, call.todo>>
  BY DEF Verify, CallType
<1>6. Promote => /\ UNCHANGED <<call.origins, call.attempts, call.todo>>
                 /\ call'.winner = Winner
  BY DEF Promote, CallType
<1> QED BY <1>1, <1>2, <1>3, <1>4, <1>5, <1>6

\* Every action keeps the account of candidates and replays.
LEMMA AccountStep == IInv /\ AccountOK /\ [Next]_vars => AccountOK'
<1> SUFFICES ASSUME IInv, AccountOK, [Next]_vars PROVE AccountOK'
  OBVIOUS
<1>0. TypeOK /\ FlowOK /\ call \in CallType
  BY DEF IInv, TypeOK, CallType
<1>1. CASE Revise
  <2>1. /\ call'.origins = {} /\ call'.attempts = <<>> /\ pc' = "propose" /\ pc = "idle"
        /\ UNCHANGED <<ledger, staged, mode>> /\ call.origins = {}
    BY <1>0, <1>1, CallUpdates DEF Revise, repository, AccountOK
  <2> QED BY <2>1, SameLedger DEF AccountOK, Judging, Replaying
<1>2. CASE Propose
  <2>1. /\ UNCHANGED <<call.origins, call.attempts>> /\ pc' \in {"propose", "stage"}
        /\ pc = "propose" /\ UNCHANGED <<ledger, staged, mode>>
    BY <1>0, <1>2, CallUpdates DEF Propose, repository
  <2> QED BY <2>1, SameLedger DEF AccountOK, Judging, Replaying
<1>3. CASE Stage
  <2> DEFINE h == Head(call.specs)
  <2>1. /\ call'.origins = call.origins \cup {h} /\ call'.todo = Known \cup call'.origins
        /\ UNCHANGED <<call.attempts, ledger, mode>> /\ pc = "stage"
        /\ pc' \in {"stage", "verify"} /\ staged' = staged \cup {ModelOf(h)}
    BY <1>0, <1>3, CallUpdates DEF Stage
  <2>2. mode' # "failed" => staged' = {ModelOf(g) : g \in Known' \cup call'.origins}
    BY <2>1, SameLedger DEF AccountOK
  <2>3. Known' \ call'.todo = {} /\ call'.origins \subseteq call'.todo
    BY <2>1, SameLedger
  <2>4. Passing' = {}
    BY <2>1 DEF AccountOK, Passing
  <2>5. {g \in Hypothesis \ call'.todo : ledger'[g].consistent} = {}
    <3>1. ~NoItem.consistent
      BY DEF NoItem
    <3> QED BY <2>1, <3>1 DEF Known
  <2>6. call'.attempts = <<>>
    BY <2>1 DEF AccountOK
  <2>7. call'.todo \subseteq Known' \cup call'.origins
    BY <2>1, SameLedger
  <2> HIDE DEF h
  <2> QED BY <2>1, <2>2, <2>3, <2>4, <2>5, <2>6, <2>7 DEF AccountOK, Judging, Replaying
<1>4. CASE Verify
  <2>1. /\ UNCHANGED <<call.origins, call.attempts, call.todo, ledger, staged, mode, n>>
        /\ pc = "verify" /\ pc' = "archive"
    BY <1>0, <1>4, CallUpdates DEF Verify, repository, evidence
  <2>2. Passing' = Passing
    BY <2>1 DEF Passing
  <2> QED BY <2>1, <2>2, SameLedger DEF AccountOK, Judging, Replaying
<1>5. CASE RecordArchive
  <2>1. UNCHANGED <<call, ledger, staged, mode, n>> /\ pc = "archive" /\ pc' = "latest"
    BY <1>5 DEF RecordArchive, evidence
  <2>2. Passing' = Passing
    BY <2>1 DEF Passing
  <2> QED BY <2>1, <2>2, SameLedger DEF AccountOK, Judging, Replaying
<1>6. CASE RecordLatest
  <2> DEFINE h == First(call.todo)
  <2>1. UNCHANGED <<staged, mode, n>> /\ pc = "latest"
    BY <1>6 DEF RecordLatest, evidence
  <2>2. /\ h \in Hypothesis /\ h \in call.todo
        /\ ledger'[h].consistent <=> call.passed
        /\ ledger'[h].at = n /\ \A g \in Hypothesis \ {h} : ledger'[g] = ledger[g]
        /\ Known' = Known \cup {h}
    BY <1>6, LedgerLearns
  <2>3. /\ call'.todo = call.todo \ {h} /\ call'.origins = call.origins
        /\ \A g \in Hypothesis : g \in Passing' <=> g \in Passing \/ (g = h /\ call.passed)
        /\ pc' = "deactivate" => Passing' = {}
        /\ pc' \in {"verify", "promote", "deactivate"}
        /\ pc' = "verify" <=> call'.todo # {}
    BY <1>6, AttemptsGrow
  <2> HIDE DEF h
  <2>4. call.todo \in SUBSET Hypothesis /\ Known \in SUBSET Hypothesis
    BY <1>0 DEF CallType, Known
  <2>5. \A g \in Known' \ call'.todo : ledger'[g].at = n'
    BY <2>1, <2>2, <2>3, <2>4 DEF AccountOK, Judging, Replaying
  <2>6. call'.origins \subseteq Known' \cup call'.todo
    BY <2>1, <2>2, <2>3 DEF AccountOK, Judging, Replaying
  <2>7. Passing' = {g \in Hypothesis \ call'.todo : ledger'[g].consistent}
    <3>1. Passing = {g \in Hypothesis \ call.todo : ledger[g].consistent}
      BY <2>1 DEF AccountOK, Judging, Replaying
    <3>2. ASSUME NEW g \in Hypothesis
          PROVE  g \in Passing' <=> g \in Hypothesis \ call'.todo /\ ledger'[g].consistent
      <4>1. CASE g = h
        BY <2>2, <2>3, <3>1, <4>1
      <4>2. CASE g # h
        BY <2>2, <2>3, <3>1, <4>2
      <4> QED BY <4>1, <4>2
    <3>3. Passing' \subseteq Hypothesis
      BY <1>6, AttemptsGrow
    <3> QED BY <3>2, <3>3
  <2>9. call'.todo \subseteq Known' \cup call'.origins
    BY <2>1, <2>2, <2>3 DEF AccountOK, Judging, Replaying
  <2>10. pc' \in {"promote", "deactivate"} => call'.todo = {}
    BY <2>3
  <2>11. pc' \in {"verify", "promote", "deactivate"}
         /\ (pc' = "deactivate" => Passing' = {})
    BY <2>3
  <2>8. mode' # "failed" => staged' = {ModelOf(g) : g \in Known' \cup call'.origins}
    BY <2>1, <2>2, <2>3 DEF AccountOK, Judging, Replaying
  <2> QED BY <2>5, <2>6, <2>7, <2>8, <2>9, <2>10, <2>11 DEF AccountOK, Judging, Replaying
<1>7. CASE Promote
  <2>1. /\ UNCHANGED <<call.origins, call.attempts, call.todo, ledger, staged, mode, n>>
        /\ pc = "promote" /\ pc' = "report"
    BY <1>0, <1>7, CallUpdates DEF Promote, evidence
  <2> QED BY <2>1, SameLedger DEF AccountOK, Judging, Replaying
<1>8. CASE Deactivate \/ Raise
  BY <1>8 DEF Deactivate, Raise, EndCall, AccountOK, Judging, Replaying
<1>9. CASE Report
  <2>1. UNCHANGED <<ledger, staged, n>> /\ pc = "report"
    BY <1>9 DEF Report, repository, evidence
  <2>2. CASE Len(call.attempts) > 1
    <3>1. /\ UNCHANGED <<mode, pc>>
          /\ call'.origins = call.origins /\ call'.todo = call.todo
      BY <1>9, <2>2, AttemptsShrink DEF Report
    <3> QED BY <2>1, <3>1, SameLedger DEF AccountOK, Judging, Replaying
  <2>3. CASE ~(Len(call.attempts) > 1)
    <3>1. /\ mode' = "plan" /\ pc' = "idle" /\ call' = NoCall /\ mode # "failed"
      BY <1>0, <1>9, <2>3 DEF Report, EndCall, FlowOK
    <3>2. call'.origins = {} /\ Known \cup call.origins = Known
      BY <1>0, <2>1, <3>1, CallUpdates DEF AccountOK
    <3> QED BY <2>1, <3>1, <3>2, SameLedger DEF AccountOK, Judging, Replaying
  <2> QED BY <2>2, <2>3
<1>10. CASE PlanProbe \/ PlanFallback \/ PlanRaises \/ Act
  <2>1. UNCHANGED <<call, ledger, staged>> /\ pc = "idle" /\ pc' = "idle" /\ mode # "failed"
    BY <1>10 DEF PlanProbe, PlanFallback, PlanRaises, MayPlan, Act, repository
  <2> QED BY <2>1, SameLedger DEF AccountOK, Judging, Replaying
<1>11. CASE Halted \/ UNCHANGED vars
  <2>1. UNCHANGED <<call, ledger, staged, mode, pc, n>>
    BY <1>11 DEF Halted, vars, repository, evidence
  <2>2. Passing' = Passing
    BY <2>1 DEF Passing
  <2> QED BY <2>1, <2>2, SameLedger DEF AccountOK, Judging, Replaying
<1> QED BY <1>1, <1>2, <1>3, <1>4, <1>5, <1>6, <1>7, <1>8, <1>9, <1>10, <1>11 DEF Next, Revision


\* Weight is what the ledger calls consistent.
LEMMA WeightIsConsistency ==
    ASSUME NEW h \in Hypothesis
    PROVE  h \in Weighted <=> ledger[h].consistent
<1>1. ~NoItem.consistent
  BY DEF NoItem
<1> QED BY <1>1 DEF Weighted, Known

\* Every action keeps what is true of the hypotheses with weight.
LEMMA WeightStep == IInv /\ AccountOK /\ WeightOK /\ [Next]_vars => WeightOK'
<1> SUFFICES ASSUME IInv, AccountOK, WeightOK, [Next]_vars PROVE WeightOK'
  OBVIOUS
<1>0. /\ TypeOK /\ FlowOK /\ ReceiptOK /\ ServedOK /\ call \in CallType
      /\ n \in Int /\ pointer.at \in Int /\ Known \subseteq Hypothesis /\ Weighted \subseteq Known
      /\ \A p \in Program : fails[p] \in Int
  BY NeverType DEF IInv, TypeOK, CallType, Known, Weighted
<1>1. CASE Revise \/ Propose
  <2>1. pc' \in {"propose", "stage"}
    BY <1>1 DEF Revise, Propose
  <2> QED BY <2>1 DEF WeightOK, Judging, Replaying, Serving
<1>2. CASE Stage
  <2>1. call'.todo = Known \cup call'.origins /\ UNCHANGED ledger /\ pc' \in {"stage", "verify"}
    BY <1>0, <1>2, CallUpdates DEF Stage
  <2>2. Weighted' \ call'.todo = {}
    BY <1>0, <2>1, SameLedger
  <2> QED BY <2>1, <2>2 DEF WeightOK, Judging, Replaying, Serving
<1>3. CASE Verify \/ RecordArchive
  <2>1. UNCHANGED <<call.todo, ledger, n, fails>> /\ Judging /\ pc' \in {"archive", "latest"}
    BY <1>0, <1>3, CallUpdates DEF Verify, RecordArchive, evidence, repository, Judging, Replaying
  <2> QED BY <2>1, SameLedger DEF WeightOK, Judging, Replaying, Serving
<1>4. CASE RecordLatest
  <2> DEFINE h == First(call.todo)
  <2>1. UNCHANGED <<n, fails>> /\ pc = "latest" /\ Judging
    BY <1>4 DEF RecordLatest, evidence, Judging, Replaying
  <2>2. /\ h \in Hypothesis
        /\ \A g \in Hypothesis : g \in Weighted' <=> IF g = h THEN call.passed ELSE g \in Weighted
    BY <1>0, <1>4, LedgerLearns
  <2>3. call'.todo = call.todo \ {h} /\ pc' \in {"verify", "promote", "deactivate"}
    BY <1>0, <1>4, AttemptsGrow
  <2>4. call.passed => fails[ModelOf(h)] > n
    <3>1. ModelOf(h) \in Program
      BY <2>2, ModelType
    <3> QED BY <1>0, <2>1, <3>1 DEF ReceiptOK, Replayed, Unfit
  <2>5. \A g \in Weighted \ call.todo : fails[ModelOf(g)] > n
    BY <2>1 DEF WeightOK
  <2>6. Weighted' \subseteq Hypothesis
    BY DEF Weighted, Known
  <2> HIDE DEF h
  <2>7. \A g \in Weighted' \ call'.todo : fails'[ModelOf(g)] > n'
    BY <2>1, <2>2, <2>3, <2>4, <2>5, <2>6
  <2> QED BY <2>3, <2>7 DEF WeightOK, Serving
<1>5. CASE Promote
  <2>1. /\ UNCHANGED <<ledger, n, fails>> /\ pc = "promote" /\ pc' = "report" /\ Judging
        /\ pointer' = [model |-> ModelOf(Winner), at |-> n] /\ active' = Winner
        /\ call'.winner = Winner
    BY <1>0, <1>5, CallUpdates DEF Promote, evidence, Judging
  <2>2. call.todo = {} /\ Passing = {g \in Hypothesis \ call.todo : ledger[g].consistent}
    BY <2>1 DEF AccountOK
  <2>3. Passing = Weighted
    BY <1>0, <2>2, WeightIsConsistency
  <2>4. Winner \in Weighted
    <3>1. Passing # {} /\ Passing \in SUBSET Hypothesis
      BY <1>0, <2>1, <2>3 DEF FlowOK
    <3> QED BY <1>0, <2>3, <3>1, WinnerPasses DEF TypeOK
  <2>5. \A g \in Weighted : Size[ModelOf(Winner)] <= Size[ModelOf(g)]
    BY <1>0, <2>1, <2>3, WinnerSimplest
  <2>6. \A g \in Weighted : fails[ModelOf(g)] > n
    BY <2>1, <2>2 DEF WeightOK
  <2>7. Weighted' = Weighted
    BY <2>1, SameLedger
  <2>8. pointer'.model = ModelOf(Winner) /\ pointer'.at = n'
    BY <2>1
  <2> QED BY <2>1, <2>4, <2>5, <2>6, <2>7, <2>8 DEF WeightOK, Judging, Replaying, Serving
<1>6. CASE Deactivate \/ Raise
  BY <1>6 DEF Deactivate, Raise, EndCall, WeightOK, Judging, Replaying, Serving
<1>7. CASE Report
  <2>1. UNCHANGED <<ledger, active, pointer, n, fails>> /\ pc = "report" /\ call.todo = {}
    BY <1>7 DEF Report, repository, evidence, AccountOK
  <2>2. CASE Len(call.attempts) > 1
    <3>1. UNCHANGED <<pc, mode>> /\ call'.winner = call.winner
      BY <1>0, <1>7, <2>2, AttemptsShrink DEF Report
    <3> QED BY <2>1, <3>1, SameLedger DEF WeightOK, Judging, Replaying, Serving
  <2>3. CASE ~(Len(call.attempts) > 1)
    <3>1. mode' = "plan" /\ pc' = "idle" /\ program' = ModelOf(call.winner)
      BY <1>7, <2>3 DEF Report, EndCall
    <3>2. /\ call.winner \in Weighted /\ active = call.winner
          /\ pointer.model = ModelOf(call.winner) /\ pointer.at = n
          /\ \A g \in Weighted : Size[ModelOf(call.winner)] <= Size[ModelOf(g)]
          /\ \A g \in Weighted : fails[ModelOf(g)] > n
      BY <2>1 DEF WeightOK
    <3>3. \A g \in Known : ledger[g].at = n
      BY <2>1 DEF AccountOK
    <3> QED BY <2>1, <3>1, <3>2, <3>3, SameLedger DEF WeightOK, Judging, Replaying, Serving
  <2> QED BY <2>2, <2>3
<1>8. CASE PlanProbe \/ PlanFallback \/ PlanRaises
  <2>1. /\ UNCHANGED <<ledger, active, pointer, program, n, fails>>
        /\ pc = "idle" /\ pc' = "idle" /\ mode = "plan"
    BY <1>8 DEF PlanProbe, PlanFallback, PlanRaises, MayPlan, repository, evidence, given
  <2> QED BY <2>1, SameLedger DEF WeightOK, Judging, Replaying, Serving
<1>9. CASE Act
  <2>1. /\ UNCHANGED <<ledger, active, pointer, program>> /\ n' = n + 1
        /\ pc = "idle" /\ pc' = "idle" /\ mode = "act"
        /\ \A p \in Program : fails'[p] = fails[p] \/ fails'[p] = n + 1
    BY <1>9 DEF Act, repository
  <2>2. /\ program = pointer.model /\ active \in Weighted /\ ModelOf(active) = program
        /\ \A h \in Weighted : Size[program] <= Size[ModelOf(h)]
        /\ \A h \in Weighted : fails[ModelOf(h)] > pointer.at
        /\ \A h \in Known : ledger[h].at = pointer.at
    BY <2>1 DEF WeightOK, Serving
  <2>3. \A h \in Weighted : fails'[ModelOf(h)] > pointer.at
    <3>1. pointer.at <= n
      BY <1>0 DEF ServedOK
    <3>2. \A h \in Weighted : ModelOf(h) \in Program
      BY <1>0, ModelType
    <3> QED BY <1>0, <2>1, <2>2, <3>1, <3>2
  <2> QED BY <2>1, <2>2, <2>3, SameLedger DEF WeightOK, Judging, Replaying, Serving
<1>10. CASE Halted \/ UNCHANGED vars
  <2>1. UNCHANGED <<ledger, active, pointer, program, n, fails, mode, pc, call>>
    BY <1>10 DEF Halted, vars, repository, evidence, given
  <2> QED BY <2>1, SameLedger DEF WeightOK, Judging, Replaying, Serving
<1> QED BY <1>1, <1>2, <1>3, <1>4, <1>5, <1>6, <1>7, <1>8, <1>9, <1>10 DEF Next, Revision

\* Every action keeps the links.
LEMMA LinkStep == IInv /\ AccountOK /\ WeightOK /\ LinkOK /\ [Next]_vars => LinkOK'
<1> SUFFICES ASSUME IInv, AccountOK, WeightOK, LinkOK, [Next]_vars PROVE LinkOK'
  OBVIOUS
<1>0. /\ TypeOK /\ FlowOK /\ call \in CallType
      /\ Known \subseteq Hypothesis /\ Weighted \subseteq Known
  BY DEF IInv, TypeOK, CallType, Known, Weighted
<1>1. CASE Revise \/ Propose
  <2>1. /\ call.origins = {} /\ call'.origins = {} /\ UNCHANGED <<ledger, revisions, mode>>
        /\ pc' \in {"propose", "stage"}
    BY <1>0, <1>1, CallUpdates DEF Revise, Propose, repository, given, AccountOK
  <2>2. Known' = Known
    BY <2>1, SameLedger
  <2> QED BY <2>1, <2>2 DEF LinkOK, Linked, SourceLinked, Judging, Replaying
<1>2. CASE Stage
  <2>1. /\ call'.origins = call.origins \cup {Head(call.specs)}
        /\ call'.todo = Known \cup call'.origins /\ UNCHANGED <<ledger, revisions, mode>>
        /\ pc' \in {"stage", "verify"}
    BY <1>0, <1>2, CallUpdates DEF Stage, given
  <2>2. Known' = Known /\ call.origins \subseteq call'.origins /\ call'.origins \subseteq call'.todo
    BY <2>1, SameLedger
  <2> QED BY <2>1, <2>2 DEF LinkOK, Linked, SourceLinked, Judging, Replaying
<1>3. CASE Verify \/ RecordArchive \/ Promote
  <2>1. /\ UNCHANGED <<call.origins, call.attempts, call.todo, ledger, revisions, mode>>
        /\ Judging /\ (pc' = "report" => pc = "promote")
    BY <1>0, <1>3, CallUpdates
       DEF Verify, RecordArchive, Promote, repository, given, Judging, Replaying
  <2>2. Known' = Known /\ Attempted' = Attempted
    BY <2>1, SameLedger DEF Attempted
  <2>3. call.origins \subseteq call.todo \cup Attempted
    BY <2>1 DEF LinkOK
  <2>4. pc' = "report" => call.origins \subseteq Attempted
    BY <2>1, <2>3 DEF AccountOK
  <2> QED BY <2>1, <2>2, <2>3, <2>4 DEF LinkOK, Linked, SourceLinked
<1>4. CASE RecordLatest
  <2> DEFINE h == First(call.todo)
  <2>1. UNCHANGED <<revisions, mode>> /\ pc = "latest" /\ Judging
    BY <1>4 DEF RecordLatest, given, Judging, Replaying
  <2>2. Known' = Known \cup {h} /\ h \in call.todo
    BY <1>0, <1>4, LedgerLearns
  <2>3. /\ call'.todo = call.todo \ {h} /\ call'.origins = call.origins
        /\ Attempted' = Attempted \cup {h} /\ pc' # "report"
    BY <1>0, <1>4, AttemptsGrow
  <2>4. h \in Known \cup call.origins
    BY <2>1, <2>2 DEF AccountOK
  <2> HIDE DEF h
  <2>5. Known' \ call'.origins = Known \ call.origins
    BY <2>2, <2>3, <2>4
  <2>6. call'.origins \subseteq call'.todo \cup Attempted'
    BY <2>1, <2>2, <2>3 DEF LinkOK
  <2> QED BY <2>1, <2>3, <2>5, <2>6 DEF LinkOK, Linked, SourceLinked
<1>5. CASE Deactivate \/ Raise
  <2>1. UNCHANGED revisions /\ mode' = "failed" /\ pc' = "idle"
    BY <1>5 DEF Deactivate, Raise, EndCall, given
  <2> QED BY <2>1 DEF LinkOK, SourceLinked, Judging, Replaying
<1>6. CASE Report
  <2> DEFINE h == Head(call.attempts).of
             e == [model |-> ModelOf(h), promoted |-> h = call.winner, linked |-> h \in call.origins]
  <2>1. UNCHANGED ledger /\ pc = "report" /\ mode # "failed" /\ revisions' = revisions \cup {e}
    BY <1>0, <1>6 DEF Report, repository, FlowOK
  <2>2. e.model = ModelOf(h) /\ (e.promoted <=> h = call.winner) /\ (e.linked <=> h \in call.origins)
    OBVIOUS
  <2>3. call.winner \in Known /\ SourceLinked
    BY <1>0, <2>1 DEF WeightOK, LinkOK
  <2>4. \A g \in Known \ call.origins : ModelOf(g) \in Linked
    BY <2>1 DEF LinkOK
  <2>5. \A g \in call.origins : ModelOf(g) \in Linked \/ g \in Attempted
    BY <2>1 DEF LinkOK
  <2>6. Known' = Known /\ e \in revisions' /\ revisions \subseteq revisions'
    BY <2>1, SameLedger
  <2> HIDE DEF e
  <2>7. h \in call.origins => ModelOf(h) \in Linked'
    BY <2>2, <2>6 DEF Linked
  <2>8. Linked \subseteq Linked'
    BY <2>6 DEF Linked
  <2>9. SourceLinked'
    <3>1. ASSUME e.promoted PROVE \E f \in revisions' : f.model = e.model /\ f.linked
      <4>1. ModelOf(h) \in Linked'
        BY <2>2, <2>3, <2>4, <2>7, <2>8, <3>1
      <4> QED BY <2>2, <4>1 DEF Linked
    <3>2. ASSUME NEW d \in revisions, d.promoted
          PROVE  \E f \in revisions' : f.model = d.model /\ f.linked
      BY <2>3, <2>6, <3>2 DEF SourceLinked
    <3> QED BY <2>1, <3>1, <3>2 DEF SourceLinked
  <2>10. CASE Len(call.attempts) > 1
    <3>1. UNCHANGED <<pc, mode>>
      BY <1>6, <2>10 DEF Report
    <3>2. Attempted \subseteq Attempted' \cup {h} /\ call'.origins = call.origins
      BY <1>0, <1>6, <2>10, AttemptsShrink
    <3> HIDE DEF h
    <3>3. \A g \in call'.origins : ModelOf(g) \in Linked' \/ g \in Attempted'
      BY <2>5, <2>7, <2>8, <3>2
    <3>4. \A g \in Known' \ call'.origins : ModelOf(g) \in Linked'
      BY <2>4, <2>6, <2>8, <3>2
    <3> QED BY <2>1, <2>9, <3>1, <3>3, <3>4 DEF LinkOK, Judging, Replaying
  <2>11. CASE ~(Len(call.attempts) > 1)
    <3>1. mode' = "plan" /\ pc' = "idle"
      BY <1>6, <2>11 DEF Report, EndCall
    <3>2. Attempted \subseteq {h}
      BY <1>0, <1>6, <2>11, LastAttempt
    <3> HIDE DEF h
    <3>3. \A g \in Known' : ModelOf(g) \in Linked'
      BY <2>4, <2>5, <2>6, <2>7, <2>8, <3>2
    <3> QED BY <2>9, <3>1, <3>3 DEF LinkOK, Judging, Replaying
  <2> QED BY <2>10, <2>11
<1>7. CASE PlanProbe \/ PlanFallback \/ PlanRaises \/ Act
  <2>1. /\ UNCHANGED <<ledger, revisions, call>> /\ mode # "failed" /\ pc' = "idle"
    BY <1>7 DEF PlanProbe, PlanFallback, PlanRaises, MayPlan, Act, repository, given
  <2> QED BY <2>1, SameLedger DEF LinkOK, Linked, SourceLinked, Judging, Replaying
<1>8. CASE Halted \/ UNCHANGED vars
  <2>1. UNCHANGED <<ledger, revisions, call, mode, pc>>
    BY <1>8 DEF Halted, vars, repository, given
  <2>2. Attempted' = Attempted
    BY <2>1 DEF Attempted
  <2> QED BY <2>1, <2>2, SameLedger DEF LinkOK, Linked, SourceLinked, Judging, Replaying
<1> QED BY <1>1, <1>2, <1>3, <1>4, <1>5, <1>6, <1>7, <1>8 DEF Next, Revision


\* When a verdict is the truth, the winner of a revision may always be promoted.
LEMMA WinnerPromotable ==
    ASSUME IInv, AccountOK, WeightOK, LossOK, pc = "promote"
    PROVE  Promotable
<1>1. Judging /\ call.todo = {} /\ TypeOK /\ FlowOK
  BY DEF Judging, AccountOK, IInv
<1>2. Passing = {g \in Hypothesis : ledger[g].consistent}
  BY <1>1 DEF AccountOK
<1>3. Winner \in Weighted
  <2>1. Winner \in Passing
    BY <1>1, <1>2, WinnerPasses DEF TypeOK, FlowOK
  <2> QED BY <1>2, <2>1, WeightIsConsistency
<1>4. Winner \in Known /\ ModelOf(Winner) \in Program
  BY <1>3, ModelType DEF Weighted, Known
<1>5. fails[ModelOf(Winner)] > n
  BY <1>1, <1>3 DEF WeightOK
<1>6. ~Unfit(ModelOf(Winner))
  <2>1. fails[ModelOf(Winner)] \in Int /\ n \in Int
    BY <1>1, <1>4, NeverType DEF TypeOK
  <2> QED BY <1>5, <2>1 DEF Unfit
<1> QED BY <1>1, <1>4, <1>6 DEF LossOK, Promotable

\* With reliable calls every action keeps the truth of receipts and ledger.
LEMMA LossStep ==
    ASSUME Reliable, IInv, AccountOK, WeightOK, LossOK, [Next]_vars
    PROVE  LossOK'
<1>0. /\ TypeOK /\ FlowOK /\ ReceiptOK /\ ServedOK /\ call \in CallType
      /\ n \in Int /\ pointer.at \in Int /\ Known \subseteq Hypothesis
      /\ \A p \in Program : fails[p] \in Int
      /\ "sandbox" \notin Faults /\ "disk" \notin Faults
  BY NeverType DEF IInv, TypeOK, CallType, Known, Reliable
<1>1. CASE Revise \/ Propose
  <2>1. /\ UNCHANGED <<ledger, pointer, mode>> /\ ~Judging /\ pc # "report"
        /\ pc' \in {"propose", "stage"} /\ mode = "revise"
    BY <1>0, <1>1 DEF Revise, Propose, repository, Judging, Replaying, FlowOK
  <2> QED BY <2>1, SameLedger DEF LossOK, Judging, Replaying, Serving
<1>2. CASE Stage
  <2>1. /\ call'.todo = Known \cup call'.origins /\ pc' \in {"stage", "verify"}
        /\ UNCHANGED <<ledger, pointer, mode>> /\ ~Judging /\ pc # "report" /\ mode = "revise"
    BY <1>0, <1>2, CallUpdates DEF Stage, Judging, Replaying, FlowOK
  <2>2. Known' \ call'.todo = {}
    BY <2>1, SameLedger
  <2> QED BY <2>1, <2>2, SameLedger DEF LossOK, Judging, Replaying, Serving
<1>3. CASE Verify
  <2>1. /\ UNCHANGED <<call.todo, ledger, latest, n, fails, mode>> /\ Judging /\ Judging'
        /\ pc' = "archive" /\ mode = "revise"
    BY <1>0, <1>3, CallUpdates DEF Verify, evidence, repository, Judging, Replaying, FlowOK
  <2>2. call'.passed <=> ~Unfit(Replayed)
    BY <1>0, <1>3 DEF Verify, Replayed, CallType
  <2>3. Replayed' = Replayed
    BY <2>1 DEF Replayed
  <2>4. Known' = Known
    BY <2>1, SameLedger
  <2> QED BY <2>1, <2>2, <2>3, <2>4 DEF LossOK, Serving, Unfit
<1>4. CASE RecordArchive
  <2>1. /\ UNCHANGED <<call, ledger, latest, n, fails, mode>> /\ Judging /\ Judging'
        /\ pc = "archive" /\ pc' = "latest" /\ mode = "revise"
    BY <1>0, <1>4 DEF RecordArchive, evidence, Judging, Replaying, FlowOK
  <2>2. Replayed' = Replayed /\ Known' = Known
    BY <2>1, SameLedger DEF Replayed
  <2> QED BY <2>1, <2>2 DEF LossOK, Serving, Unfit
<1>5. CASE RecordLatest
  <2> DEFINE h == First(call.todo)
             true(g) == [at |-> n, verdict |-> IF Unfit(ModelOf(g)) THEN "failed" ELSE "passed"]
  <2>1. UNCHANGED <<n, fails, mode>> /\ pc = "latest" /\ Judging /\ mode = "revise"
    BY <1>0, <1>5 DEF RecordLatest, evidence, Judging, Replaying, FlowOK
  <2>2. /\ h \in Hypothesis /\ Known' = Known \cup {h}
        /\ ledger'[h].consistent <=> call.passed
        /\ \A g \in Hypothesis \ {h} : ledger'[g] = ledger[g]
    BY <1>0, <1>5, LedgerLearns
  <2>3. call'.todo = call.todo \ {h} /\ pc' \in {"verify", "promote", "deactivate"}
    BY <1>0, <1>5, AttemptsGrow
  <2>4. call.passed <=> ~Unfit(ModelOf(h))
    BY <2>1 DEF LossOK, Replayed
  <2>5. ModelOf(h) \in Program /\ \A g \in Known : ModelOf(g) \in Program
    BY <1>0, <2>2, ModelType
  <2>6. \A p \in Program : latest'[p] = IF p = ModelOf(h) THEN true(h) ELSE latest[p]
    BY <1>0, <1>5, <2>4, <2>5 DEF RecordLatest, Verdict, TypeOK
  <2>7. \A g \in Known \ call.todo : latest[ModelOf(g)] = true(g)
    BY <2>1 DEF LossOK
  <2>8. \A g \in Known \ call.todo : ~Unfit(ModelOf(g)) => ledger[g].consistent
    BY <2>1 DEF LossOK
  <2>9. \A g : ModelOf(g) = ModelOf(h) => true(g) = true(h)
    OBVIOUS
  <2> HIDE DEF h, true
  <2>10. \A g \in Known' \ call'.todo : latest'[ModelOf(g)] = true(g)
    BY <2>2, <2>3, <2>5, <2>6, <2>7, <2>9
  <2>11. \A g \in Known' \ call'.todo : ~Unfit(ModelOf(g)) => ledger'[g].consistent
    BY <1>0, <2>2, <2>3, <2>4, <2>8
  <2> QED BY <2>1, <2>3, <2>10, <2>11 DEF LossOK, Serving, Judging, Replaying, Unfit, true
<1>6. CASE Promote
  <2>1. /\ UNCHANGED <<call.todo, ledger, n, fails, mode>> /\ Judging
        /\ pc' = "report" /\ mode = "revise"
    BY <1>0, <1>6, CallUpdates DEF Promote, evidence, Judging, FlowOK
  <2>2. Known' = Known
    BY <2>1, SameLedger
  <2> QED BY <2>1, <2>2 DEF LossOK, Serving, Judging, Replaying, Unfit
<1>7. CASE Deactivate
  <2>1. /\ pc = "deactivate" /\ Judging /\ UNCHANGED <<ledger, n, fails>>
        /\ pc' = "idle" /\ mode' = "failed"
    BY <1>7 DEF Deactivate, EndCall, evidence, Judging
  <2>2. call.todo = {} /\ Passing = {} /\ Passing = {g \in Hypothesis \ call.todo : ledger[g].consistent}
    BY <2>1 DEF AccountOK
  <2>3. \A g \in Known : Unfit(ModelOf(g))
    BY <1>0, <2>1, <2>2 DEF LossOK
  <2>4. Known' = Known
    BY <2>1, SameLedger
  <2> QED BY <2>1, <2>3, <2>4 DEF LossOK, Serving, Judging, Replaying, Unfit
<1>8. CASE Raise
  <2>1. /\ UNCHANGED <<ledger, pointer, n, fails>> /\ pc' = "idle" /\ mode' = "failed"
        /\ pc = "propose" \/ (pc = "promote" /\ ~Promotable)
    BY <1>0, <1>8 DEF Raise, CallRaises, EndCall, repository, evidence
  <2>2. pc = "propose"
    BY <2>1, WinnerPromotable
  <2>3. pointer.model = NoProgram => Known = {}
    BY <1>0, <2>2 DEF LossOK, Judging, Replaying, FlowOK
  <2>4. Known' = Known
    BY <2>1, SameLedger
  <2> QED BY <2>1, <2>3, <2>4 DEF LossOK, Serving, Judging, Replaying
<1>9. CASE Report
  <2>1. /\ UNCHANGED <<ledger, pointer, n, fails>> /\ pc = "report" /\ call.todo = {} /\ mode = "revise"
    BY <1>0, <1>9 DEF Report, repository, evidence, AccountOK, FlowOK
  <2>2. Known' = Known
    BY <2>1, SameLedger
  <2>3. CASE Len(call.attempts) > 1
    <3>1. UNCHANGED <<pc, mode>> /\ call'.todo = call.todo
      BY <1>0, <1>9, <2>3, AttemptsShrink DEF Report
    <3> QED BY <2>1, <2>2, <3>1 DEF LossOK, Serving, Judging, Replaying, Unfit
  <2>4. CASE ~(Len(call.attempts) > 1)
    <3>1. mode' = "plan" /\ pc' = "idle"
      BY <1>9, <2>4 DEF Report, EndCall
    <3>2. pointer.at = n
      BY <2>1 DEF WeightOK
    <3>3. \A g \in Known : ~Unfit(ModelOf(g)) => ledger[g].consistent
      BY <2>1 DEF LossOK
    <3>4. \A g \in Known : fails[ModelOf(g)] > n => ~Unfit(ModelOf(g))
      BY <1>0, ModelType DEF Unfit
    <3> QED BY <2>1, <2>2, <3>1, <3>2, <3>3, <3>4 DEF LossOK, Serving, Judging, Replaying
  <2> QED BY <2>3, <2>4
<1>10. CASE PlanProbe \/ PlanFallback \/ PlanRaises
  <2>1. /\ UNCHANGED <<ledger, pointer, n, fails>> /\ Serving /\ pc' = "idle" /\ mode' # "revise"
    BY <1>10 DEF PlanProbe, PlanFallback, PlanRaises, MayPlan, repository, evidence, Serving
  <2>2. pointer.model # NoProgram
    <3>1. active \in Hypothesis
      BY <1>0, <2>1 DEF WeightOK, Weighted, Known
    <3> QED BY <2>1, <3>1, ModelType, NoProgramAssumption DEF WeightOK
  <2>3. Known' = Known
    BY <2>1, SameLedger
  <2> QED BY <2>1, <2>2, <2>3 DEF LossOK, Serving, Judging, Replaying
<1>11. CASE Act
  <2>1. /\ UNCHANGED <<ledger, pointer>> /\ Serving /\ pc' = "idle" /\ mode' # "failed"
        /\ n' = n + 1
        /\ \A p \in Program : fails'[p] = fails[p] \/ (fails'[p] = n + 1 /\ ~Unfit(p))
    BY <1>11 DEF Act, repository, Serving
  <2>2. pointer.model # NoProgram
    <3>1. active \in Hypothesis
      BY <1>0, <2>1 DEF WeightOK, Weighted, Known
    <3> QED BY <2>1, <3>1, ModelType, NoProgramAssumption DEF WeightOK
  <2>3. Known' = Known
    BY <2>1, SameLedger
  <2>4. \A g \in Known : fails'[ModelOf(g)] > pointer.at => ledger[g].consistent
    <3>1. pointer.at <= n
      BY <1>0 DEF ServedOK
    <3>2. \A g \in Known : fails[ModelOf(g)] > pointer.at => ledger[g].consistent
      BY <2>1 DEF LossOK
    <3>3. \A g \in Known : fails'[ModelOf(g)] > pointer.at => fails[ModelOf(g)] > pointer.at
      BY <1>0, <2>1, <3>1, ModelType DEF Unfit
    <3> QED BY <3>2, <3>3
  <2> QED BY <2>1, <2>2, <2>3, <2>4 DEF LossOK, Serving, Judging, Replaying
<1>12. CASE Halted \/ UNCHANGED vars
  <2>1. UNCHANGED <<ledger, pointer, latest, n, fails, mode, pc, call>>
    BY <1>12 DEF Halted, vars, repository, evidence
  <2>2. Known' = Known /\ Replayed' = Replayed
    BY <2>1, SameLedger DEF Replayed
  <2> QED BY <2>1, <2>2 DEF LossOK, Serving, Judging, Replaying, Unfit
<1> QED BY <1>1, <1>2, <1>3, <1>4, <1>5, <1>6, <1>7, <1>8, <1>9, <1>10, <1>11, <1>12
        DEF Next, Revision

LEMMA JInit == Init => JInv /\ LossOK
<1> SUFFICES ASSUME Init PROVE JInv /\ LossOK
  OBVIOUS
<1>1. IInv
  BY InitCorrect
<1>2. Known = {} /\ Weighted = {}
  BY DEF Init, Known, Weighted
<1>3. /\ pc = "idle" /\ mode = "revise" /\ call = NoCall /\ staged = {} /\ revisions = {}
      /\ call.origins = {} /\ pointer.model = NoProgram
  BY DEF Init, NoCall
<1>4. AccountOK
  BY <1>2, <1>3 DEF AccountOK, Judging, Replaying
<1>5. WeightOK /\ LinkOK /\ LossOK
  BY <1>2, <1>3 DEF WeightOK, LinkOK, LossOK, SourceLinked, Serving, Judging, Replaying
<1> QED BY <1>1, <1>4, <1>5 DEF JInv

\* What a revision has learned stays in order: the candidates, the replays, the weights
\* and the links agree in every reachable state (revision.py:43-144).
THEOREM LearnedCorrect == Spec => []JInv
<1>1. Init => JInv
  BY JInit
<1>2. JInv /\ [Next]_vars => JInv'
  BY TypeStep, FlowStep, ReceiptStep, ServedStep, AccountStep, WeightStep, LinkStep DEF JInv, IInv
<1> QED BY <1>1, <1>2, PTL DEF Spec

\* The committed model, the pointer and the active hypothesis are one program, which
\* reproduces the whole history and is the simplest with weight (revision.py:119-141).
THEOREM OneTheoryCorrect == Spec => []OneTheory
<1>1. JInv => OneTheory
  BY DEF JInv, IInv, WeightOK, ServedOK, OneTheory
<1> QED BY LearnedCorrect, <1>1, PTL

\* While the episode plans and acts, every program ever staged has been replayed over
\* the history of the last revision, and none with weight fails it
\* (docs/architecture-tour.md:57-59).
THEOREM ShadowsCorrect == Spec => []ShadowsRevalidated
<1>1. JInv => ShadowsRevalidated
  <2> SUFFICES ASSUME JInv, Serving
               PROVE  /\ staged = {ModelOf(h) : h \in Known}
                      /\ \A h \in Known : ledger[h].at = pointer.at
                      /\ \A h \in Weighted : fails[ModelOf(h)] > pointer.at
    BY DEF ShadowsRevalidated
  <2>1. call = NoCall /\ mode # "failed" /\ AccountOK /\ WeightOK
    BY DEF Serving, JInv, AccountOK
  <2>2. call.origins = {}
    BY <2>1 DEF NoCall
  <2> QED BY <2>1, <2>2 DEF AccountOK, WeightOK
<1> QED BY LearnedCorrect, <1>1, PTL

\* A promoted program has an event with a link to the reasoner's response
\* (services.py:49-78).
THEOREM SourceCorrect == Spec => []SourceLinked
<1>1. JInv => SourceLinked
  BY DEF JInv, LinkOK
<1> QED BY LearnedCorrect, <1>1, PTL

\* With calls of the sandbox that end in time and writes that succeed, a program loses
\* its weight only to evidence, and a revision gives up only when nothing staged fits.
THEOREM LossCorrect == ASSUME Reliable PROVE Spec => []NothingLost
<1>1. Init => LossOK
  BY JInit
<1>2. JInv /\ LossOK /\ [Next]_vars => LossOK'
  BY LossStep DEF JInv
<1>3. LossOK => NothingLost
  BY DEF LossOK, NothingLost, Weighted
<1> QED BY LearnedCorrect, <1>1, <1>2, <1>3, PTL DEF Spec
=============================================================================
