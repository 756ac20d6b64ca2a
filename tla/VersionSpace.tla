---------------------------- MODULE VersionSpace ----------------------------
(***************************************************************************)
(* The revision engine: the service that asks the reasoner for candidate   *)
(* programs, the manager that replays every candidate and every earlier    *)
(* hypothesis over the whole history, the repository that keeps sources,   *)
(* verification receipts and the pointer to the active model, the ledger   *)
(* of weighted hypotheses, and the planning service that spends a real     *)
(* action as a probe when weighted hypotheses disagree.                    *)
(*                                                                         *)
(* A call of revise() is cut at its external calls, each of which may      *)
(* raise.  A failed call ends the run (the phase controller goes to ERROR) *)
(* and leaves repository and ledger as they are.  The truth about the      *)
(* programs is `fails', which no code reads: the verifier finds it out.    *)
(***************************************************************************)
EXTENDS Integers, Sequences, FiniteSets

CONSTANTS
    Program,    \* the programs the reasoner may write, by digest
    NoProgram,
    Ontology,   \* the readings of a scene a candidate may be asked to prefer
    Size,       \* length of a program's source: its complexity
    Rank,       \* the order of the hypotheses' ids, which are hashes
    Candidates, \* candidate_count
    Budget,     \* transitions the episode may record
    Faults      \* kinds of external calls that may go wrong

Hypothesis == Program \X Ontology       \* Hypothesis.id
ModelOf(h) == h[1]

ASSUME NoProgramAssumption == NoProgram \notin Program
ASSUME OntologyAssumption == IsFiniteSet(Ontology) /\ Ontology # {}
ASSUME SizeAssumption == Size \in [Program -> Nat]
ASSUME RankAssumption ==
    /\ Rank \in [Hypothesis -> Nat]
    /\ \A g, h \in Hypothesis : Rank[g] = Rank[h] => g = h
ASSUME CountAssumption == Candidates \in Nat \ {0} /\ Budget \in Nat
ASSUME FaultsAssumption == Faults \subseteq {"reasoner", "sandbox", "disk"}

VARIABLES
    \* --- the evidence
    n,          \* transitions in the history
    fails,      \* the shortest history a program fails to reproduce
    broken,     \* programs that raise when that history is replayed
    \* --- ModelRepository
    staged,     \* programs whose source is on disk
    archive,    \* verifications/<evidence>.json of each program
    latest,     \* verification.json of each program
    pointer,    \* active.json
    \* --- HypothesisLedger
    ledger, active,
    \* --- what the episode has been given
    program,    \* the committed model
    revisions,  \* the model_revision events
    dissent,    \* models whose prediction the probe just planned sets apart
    mode, pc, call

evidence   == <<n, fails, broken>>
repository == <<staged, archive, latest, pointer>>
given      == <<program, revisions, dissent>>
vars == <<evidence, repository, ledger, active, given, mode, pc, call>>

-----------------------------------------------------------------------------
Never == Budget + 1
Unfit(p) == fails[p] <= n       \* p does not reproduce the history
Mode  == {"revise", "plan", "act", "failed"}
Label == {"idle", "propose", "stage", "verify", "archive", "latest", "promote",
          "deactivate", "report"}

\* The ledger keeps of a hypothesis whether it passed its latest replay, how often it
\* failed one (each failure takes 20 off its log weight), and how long the history
\* of the latest was.
Item    == [consistent : BOOLEAN, failures : Nat, at : -1..Budget]
NoItem  == [consistent |-> FALSE, failures |-> 0, at |-> -1]
Attempt == [of : Hypothesis, passed : BOOLEAN]
Event   == [model : Program, promoted : BOOLEAN, linked : BOOLEAN]
NoCall  == [readings |-> <<>>, specs |-> <<>>, origins |-> {}, todo |-> {},
            passed |-> FALSE, attempts |-> <<>>, winner |-> <<>>]

\* parse_scene_candidates: the readings of the latest frame, best first.
Readings == {os \in [1..Cardinality(Ontology) -> Ontology] :
                \A i, j \in DOMAIN os : os[i] = os[j] => i = j}

First(S) == CHOOSE h \in S : \A g \in S : Rank[h] <= Rank[g]
Known    == {h \in Hypothesis : ledger[h] # NoItem}
Weighted == {h \in Known : ledger[h].consistent}

Init ==
    /\ n = 0 /\ fails \in [Program -> {0, Never}] /\ broken = {}
    /\ staged = {} /\ archive = [p \in Program |-> [e \in 0..Budget |-> "none"]]
    /\ latest = [p \in Program |-> [at |-> 0, verdict |-> "none"]]
    /\ pointer = [model |-> NoProgram, at |-> 0]
    /\ ledger = [h \in Hypothesis |-> NoItem] /\ active = <<>>
    /\ program = NoProgram /\ revisions = {} /\ dissent = {}
    /\ mode = "revise" /\ pc = "idle" /\ call = NoCall

-----------------------------------------------------------------------------
(* revise(): ask for candidates, stage them, replay every hypothesis.      *)

Revise ==
    /\ pc = "idle" /\ mode = "revise"
    /\ \E os \in Readings : call' = [NoCall EXCEPT !.readings = os]
    /\ pc' = "propose"
    /\ UNCHANGED <<evidence, repository, ledger, active, given, mode>>

\* The i-th candidate is asked for with the i-th reading, and around again.
Reading(i) == call.readings[((i - 1) % Len(call.readings)) + 1]

Propose ==
    /\ pc = "propose"
    /\ \E p \in Program :
         LET specs == Append(call.specs, <<p, Reading(Len(call.specs) + 1)>>)
         IN  /\ call' = [call EXCEPT !.specs = specs]
             /\ pc' = IF Len(specs) = Candidates THEN "stage" ELSE "propose"
    /\ UNCHANGED <<evidence, repository, ledger, active, given, mode>>

\* Faulty variant of Stage: only the new candidates are replayed.
StageNewOnly ==
    /\ pc = "stage"
    /\ LET h == Head(call.specs)
           origins == call.origins \cup {h}
       IN  /\ staged' = staged \cup {ModelOf(h)}
           /\ call' = [call EXCEPT !.specs = Tail(@), !.origins = origins,
                                   !.todo = origins]
    /\ pc' = IF Len(call.specs) = 1 THEN "verify" ELSE "stage"
    /\ UNCHANGED <<evidence, archive, latest, pointer, ledger, active, given, mode>>

\* Faulty variant of Stage: the candidate just staged stays at the head.
StageAgain ==
    /\ pc = "stage"
    /\ LET h == Head(call.specs)
           origins == call.origins \cup {h}
       IN  /\ staged' = staged \cup {ModelOf(h)}
           /\ call' = [call EXCEPT !.origins = origins, !.todo = Known \cup origins]
    /\ pc' = IF Len(call.specs) = 1 THEN "verify" ELSE "stage"
    /\ UNCHANGED <<evidence, archive, latest, pointer, ledger, active, given, mode>>

\* Staging writes a source once.  After the last candidate the manager turns to
\* all hypotheses it knows, old and new.
Stage ==
    /\ pc = "stage"
    /\ LET h == Head(call.specs)
           origins == call.origins \cup {h}
       IN  /\ staged' = staged \cup {ModelOf(h)}
           /\ call' = [call EXCEPT !.specs = Tail(@), !.origins = origins,
                                   !.todo = Known \cup origins]
    /\ pc' = IF Len(call.specs) = 1 THEN "verify" ELSE "stage"
    /\ UNCHANGED <<evidence, archive, latest, pointer, ledger, active, given, mode>>

\* Faulty variant of Verify: only the latest transition is replayed.
VerifyLatestOnly ==
    /\ pc = "verify"
    /\ \E passed \in BOOLEAN :
         /\ passed => fails[ModelOf(First(call.todo))] # n
         /\ ~passed => fails[ModelOf(First(call.todo))] = n \/ "sandbox" \in Faults
         /\ call' = [call EXCEPT !.passed = passed]
    /\ pc' = "archive"
    /\ UNCHANGED <<evidence, repository, ledger, active, given, mode>>

\* The replay finds out whether the program is fit, but for a call of the sandbox
\* that runs out of time, which counts against the program.
Verify ==
    /\ pc = "verify"
    /\ \E passed \in BOOLEAN :
         /\ passed => ~Unfit(ModelOf(First(call.todo)))
         /\ ~passed => Unfit(ModelOf(First(call.todo))) \/ "sandbox" \in Faults
         /\ call' = [call EXCEPT !.passed = passed]
    /\ pc' = "archive"
    /\ UNCHANGED <<evidence, repository, ledger, active, given, mode>>

Verdict == IF call.passed THEN "passed" ELSE "failed"

RecordArchive ==
    /\ pc = "archive"
    /\ archive' = [archive EXCEPT ![ModelOf(First(call.todo))][n] = Verdict]
    /\ pc' = "latest"
    /\ UNCHANGED <<evidence, staged, latest, pointer, ledger, active, given, mode, call>>

\* Hypothesis.with_evidence
WithEvidence(item) ==
    [consistent |-> call.passed,
     failures   |-> IF call.passed THEN item.failures ELSE item.failures + 1,
     at         |-> n]

\* Faulty variant of RecordLatest: a revision needs all hypotheses to pass.
RecordLatestAllPass ==
    /\ pc = "latest"
    /\ LET h == First(call.todo)
           attempts == Append(call.attempts, [of |-> h, passed |-> call.passed])
       IN  /\ latest' = [latest EXCEPT ![ModelOf(h)] = [at |-> n, verdict |-> Verdict]]
           /\ ledger' = [ledger EXCEPT ![h] = WithEvidence(@)]
           /\ call' = [call EXCEPT !.todo = @ \ {h}, !.attempts = attempts]
           /\ pc' = IF call.todo # {h} THEN "verify"
                    ELSE IF \A i \in DOMAIN attempts : attempts[i].passed
                    THEN "promote" ELSE "deactivate"
    /\ UNCHANGED <<evidence, staged, archive, pointer, active, given, mode>>

\* After the second receipt is on disk the ledger learns of the replay.
RecordLatest ==
    /\ pc = "latest"
    /\ LET h == First(call.todo)
           attempts == Append(call.attempts, [of |-> h, passed |-> call.passed])
       IN  /\ latest' = [latest EXCEPT ![ModelOf(h)] = [at |-> n, verdict |-> Verdict]]
           /\ ledger' = [ledger EXCEPT ![h] = WithEvidence(@)]
           /\ call' = [call EXCEPT !.todo = @ \ {h}, !.attempts = attempts]
           /\ pc' = IF call.todo # {h} THEN "verify"
                    ELSE IF \E i \in DOMAIN attempts : attempts[i].passed
                    THEN "promote" ELSE "deactivate"
    /\ UNCHANGED <<evidence, staged, archive, pointer, active, given, mode>>

-----------------------------------------------------------------------------
(* The end of a revision                                                   *)

Passing == {call.attempts[i].of : i \in {j \in DOMAIN call.attempts :
                                            call.attempts[j].passed}}

\* The simplest program wins, then the weight, then the id.
Better(g, h) ==
    LET size(k) == Size[ModelOf(k)]
        lost(k) == ledger[k].failures
    IN  \/ size(g) < size(h)
        \/ size(g) = size(h) /\ lost(g) < lost(h)
        \/ size(g) = size(h) /\ lost(g) = lost(h) /\ Rank[g] <= Rank[h]

Winner == CHOOSE h \in Passing : \A g \in Passing : Better(h, g)

\* Faulty variant of Promotable: any receipt for this history will do.
PromotableUnpassed == latest[ModelOf(Winner)].at = n

\* promote() accepts only a program whose latest receipt is a pass on this history.
Promotable == latest[ModelOf(Winner)] = [at |-> n, verdict |-> "passed"]

\* Faulty variant of Promote: the ledger does not commit to the winner.
PromoteUncommitted ==
    /\ pc = "promote" /\ Promotable
    /\ pointer' = [model |-> ModelOf(Winner), at |-> n]
    /\ call' = [call EXCEPT !.winner = Winner]
    /\ pc' = "report"
    /\ UNCHANGED <<evidence, staged, archive, latest, ledger, active, given, mode>>

Promote ==
    /\ pc = "promote" /\ Promotable
    /\ pointer' = [model |-> ModelOf(Winner), at |-> n]
    /\ active' = Winner
    /\ call' = [call EXCEPT !.winner = Winner]
    /\ pc' = "report"
    /\ UNCHANGED <<evidence, staged, archive, latest, ledger, given, mode>>

EndCall(next) == mode' = next /\ pc' = "idle" /\ call' = NoCall

Deactivate ==
    /\ pc = "deactivate"
    /\ pointer' = [model |-> NoProgram, at |-> n]
    /\ EndCall("failed")
    /\ UNCHANGED <<evidence, staged, archive, latest, ledger, active, given>>

\* Faulty variant of Report: only the winner of a revision is reported.
ReportWinnerOnly ==
    /\ pc = "report"
    /\ revisions' = revisions \cup {[model |-> ModelOf(call.winner),
           promoted |-> TRUE, linked |-> call.winner \in call.origins]}
    /\ program' = ModelOf(call.winner)
    /\ EndCall("plan")
    /\ UNCHANGED <<evidence, repository, ledger, active, dissent>>

\* One model_revision event for each attempt.  Only candidates of this call have an
\* origin; with the last event the call returns and the episode commits the model.
Report ==
    /\ pc = "report"
    /\ LET h == Head(call.attempts).of
       IN  revisions' = revisions \cup {[model |-> ModelOf(h),
                promoted |-> h = call.winner, linked |-> h \in call.origins]}
    /\ IF Len(call.attempts) > 1
       THEN /\ call' = [call EXCEPT !.attempts = Tail(@)]
            /\ UNCHANGED <<program, mode, pc>>
       ELSE /\ program' = ModelOf(call.winner)
            /\ EndCall("plan")
    /\ UNCHANGED <<evidence, repository, ledger, active, dissent>>

CallRaises ==
    \/ "reasoner" \in Faults /\ pc = "propose"
    \/ "disk" \in Faults
       /\ pc \in {"stage", "verify", "archive", "latest", "promote", "deactivate", "report"}
    \/ pc = "promote" /\ ~Promotable

Raise ==
    /\ CallRaises
    /\ EndCall("failed")
    /\ UNCHANGED <<evidence, repository, ledger, active, given>>

-----------------------------------------------------------------------------
(* Planning and acting                                                     *)

\* Only the heaviest hypotheses count in the entropy of a probe: a failure costs a
\* factor of exp(20).
Heaviest == {h \in Weighted : \A g \in Weighted : ledger[h].failures <= ledger[g].failures}

\* Faulty variant of MayPlan: the budget is not looked at.
MayPlanUnbounded == pc = "idle" /\ mode = "plan"

MayPlan == pc = "idle" /\ mode = "plan" /\ n < Budget

Consulted == Cardinality(Weighted) > 1

\* The replay of a hypothesis in the planning service is not guarded.
Blocked == Consulted /\ \E h \in Weighted : ModelOf(h) \in broken

\* Some action separates the predictions of the models in `dissent' from the others.
PlanProbe ==
    /\ MayPlan /\ Consulted /\ ~Blocked
    /\ \E d \in SUBSET {ModelOf(h) : h \in Heaviest} :
         /\ d # {} /\ d # {ModelOf(h) : h \in Heaviest}
         /\ dissent' = d
    /\ mode' = "act"
    /\ UNCHANGED <<evidence, repository, ledger, active, program, revisions, pc, call>>

\* The plan of the reasoner, or RESET at GAME_OVER, which consults no hypothesis.
PlanFallback ==
    /\ MayPlan
    /\ \E gameOver \in BOOLEAN : gameOver \/ ~Blocked
    /\ mode' = "act"
    /\ UNCHANGED <<evidence, repository, ledger, active, given, pc, call>>

PlanRaises ==
    /\ MayPlan
    /\ Blocked \/ Faults # {}
    /\ mode' = "failed"
    /\ UNCHANGED <<evidence, repository, ledger, active, given, pc, call>>

\* The game answers: some programs mispredicted the transition, some of them with an
\* exception.  A probe proves one side wrong.  The committed model has made its
\* prediction before the action was spent.
Act ==
    /\ pc = "idle" /\ mode = "act"
    /\ \E wrong \in SUBSET Program, raising \in SUBSET Program :
         /\ raising \subseteq wrong \ {program}
         /\ dissent # {} => \/ dissent \subseteq wrong
                            \/ {ModelOf(h) : h \in Heaviest} \ dissent \subseteq wrong
         /\ fails' = [p \in Program |->
                        IF p \in wrong /\ ~Unfit(p) THEN n + 1 ELSE fails[p]]
         /\ broken' = broken \cup raising
         /\ mode' \in IF program \in wrong THEN {"revise"}
                      ELSE IF dissent = {} /\ n + 1 < Budget THEN {"plan", "act"}
                      ELSE {"plan"}
    /\ n' = n + 1
    /\ dissent' = {}
    /\ UNCHANGED <<repository, ledger, active, program, revisions, pc, call>>

-----------------------------------------------------------------------------
\* The run has failed or its budget is spent.
Halted ==
    /\ pc = "idle" /\ (mode = "failed" \/ (mode = "plan" /\ n = Budget))
    /\ UNCHANGED vars

Revision == Propose \/ Stage \/ Verify \/ RecordArchive \/ RecordLatest
            \/ Promote \/ Deactivate \/ Report \/ Raise

Next == Revise \/ Revision \/ PlanProbe \/ PlanFallback \/ PlanRaises \/ Act \/ Halted

Spec == Init /\ [][Next]_vars
FairSpec == Spec /\ WF_vars(Revise) /\ WF_vars(Revision)

-----------------------------------------------------------------------------
(* Properties                                                              *)

TypeOK ==
    /\ n \in 0..Budget /\ fails \in [Program -> 0..Never] /\ broken \subseteq Program
    /\ staged \subseteq Program
    /\ archive \in [Program -> [0..Budget -> {"none", "passed", "failed"}]]
    /\ latest \in [Program -> [at : 0..Budget, verdict : {"none", "passed", "failed"}]]
    /\ pointer \in [model : Program \cup {NoProgram}, at : 0..Budget]
    /\ ledger \in [Hypothesis -> Item]
    /\ active \in Hypothesis \cup {<<>>}
    /\ program \in Program \cup {NoProgram}
    /\ revisions \subseteq Event /\ dissent \subseteq Program
    /\ mode \in Mode /\ pc \in Label
    /\ call \in [readings : Readings \cup {<<>>}, specs : Seq(Hypothesis),
                 origins : SUBSET Hypothesis, todo : SUBSET Hypothesis,
                 passed : BOOLEAN, attempts : Seq(Attempt),
                 winner : Hypothesis \cup {<<>>}]

\* At every instant, so also after a failure, what active.json names has passed: its
\* receipt for the history it was promoted on is there and says so, and it is true
\* (store.py:75-99, revision.py:110-127).
PointerCertified ==
    pointer.model # NoProgram =>
        /\ archive[pointer.model][pointer.at] = "passed"
        /\ fails[pointer.model] > pointer.at

Serving == pc = "idle" /\ mode \in {"plan", "act"}

\* While the episode plans and acts, the model it commits to, the active model of the
\* repository and the active hypothesis of the ledger are one program; it reproduces
\* every transition, those after its promotion included, and is the simplest of those
\* with weight, also when it is not a candidate of the last revision
\* (revision.py:119-141).
OneTheory ==
    Serving =>
        /\ program = pointer.model
        /\ active \in Weighted /\ ModelOf(active) = program
        /\ fails[program] > n
        /\ \A h \in Weighted : Size[program] <= Size[ModelOf(h)]

\* docs/architecture-tour.md:57-59: after a revision every program ever staged has
\* been replayed over the history of that revision, and none that failed it has weight.
ShadowsRevalidated ==
    Serving =>
        /\ staged = {ModelOf(h) : h \in Known}
        /\ \A h \in Known : ledger[h].at = pointer.at
        /\ \A h \in Weighted : fails[ModelOf(h)] > pointer.at

\* The source of a promoted program is linked to a response of the reasoner by some
\* event of the run, if not by the one that promotes it (services.py:49-78).
SourceLinked ==
    \A e \in revisions : e.promoted => \E f \in revisions : f.model = e.model /\ f.linked

\* Only evidence removes a program from the version space: one that reproduces the
\* history keeps its weight, and a revision gives up only when no staged program
\* reproduces it.  Stated for calls of the sandbox that end in time.
NothingLost ==
    /\ Serving => \A h \in Known : fails[ModelOf(h)] > pointer.at => h \in Weighted
    /\ mode = "failed" /\ pointer.model = NoProgram => \A h \in Known : Unfit(ModelOf(h))

\* Evidence is bought and models are replaced as the abstract theory says.
Abstract == INSTANCE Theory WITH
    evidence <- n,
    standing <- IF program = NoProgram THEN "none"
                ELSE IF Unfit(program) THEN "refuted" ELSE "certified"

ImplementsTheory == Abstract!Spec

\* A revision ends: it promotes, gives up or fails.
RevisionEnds == pc # "idle" ~> pc = "idle"

\* services.py:138: a real action is a probe only when certified models disagree.
ProbeSeparatesCertified ==
    dissent # {} =>
        LET certified == {ModelOf(h) : h \in {g \in Weighted : ~Unfit(ModelOf(g))}}
        IN  certified \cap dissent # {} /\ certified \ dissent # {}

\* README.md:98: only the committed model controls planning.  With nothing else
\* failing, a run fails only because a revision finds no program that fits.
OnlyCommittedModelControls == mode = "failed" => pointer.model = NoProgram

\* docs/running-experiments.md:109: the event record keeps the links of the generated
\* source; the audit follows them from the event that promotes it (audit.py:212-229).
PromotionLinked == \A e \in revisions : e.promoted => e.linked
=============================================================================
