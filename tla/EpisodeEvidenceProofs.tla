----------------------- MODULE EpisodeEvidenceProofs -----------------------
(***************************************************************************)
(* Proofs about what an episode acts on and what it leaves behind.  The    *)
(* first chain (GInv) says which plan is at hand in every place of a call  *)
(* and which durable event it comes from: it is the unspent suffix of the  *)
(* last plan committed, made with the committed model on the history that  *)
(* is current.  The second (PairedOK) says how the intent, the raw         *)
(* transition and the analysis of one action agree while only some of them *)
(* are written, so that a run that finished passes the checks of the audit *)
(* whatever failed on the way.  Both rest on JInv of EpisodeProofs.        *)
(***************************************************************************)
EXTENDS EpisodeProofs, MCEpisode

-----------------------------------------------------------------------------
Commits  == store["plan_committed"]
Analyses == store["transition_analysis"]
Acting   == {"record_intent", "env_step", "record_raw"}
Weighing == {"compare", "record_analysis"}

\* The state of the model and the observation follow the transitions, but for the one
\* that is being settled.
FoldedOK ==
    LET n == Len(transitions)
    IN  /\ phase = "planning" => modelState = n
        /\ phase = "execution" /\ pc # "record_finished" =>
             modelState = IF pc \in Weighing \cup Judged THEN n - 1 ELSE n
        /\ phase \notin Failed /\ n # 0 =>
             transitions[n].after = IF pc \in Weighing THEN call.status ELSE observation

\* Where a plan is at hand, how long it is and that it is the last one committed.
PendingOK ==
    /\ phase \notin {"execution", "error"} => pendingPlan = <<>>
    /\ pc \in {"record_certified", "record_committed"} => Len(call.plan) \in 1..Remaining
    /\ phase = "execution" /\ pc \in Between =>
         Len(pendingPlan) \in 1..Remaining /\ pendingPlanId = Len(Commits)
    /\ phase = "execution" /\ pc \in ExecutionLabel =>
         /\ pendingPlanId = Len(Commits) /\ call.planId = Len(Commits)
         /\ Len(call.plan) \in 1..(IF pc \in Acting THEN Remaining ELSE Remaining + 1)

\* What the durable events say of the plan in execution.
LineageOK ==
    /\ \A i \in 1..Len(Raws) : Raws[i].plan <= Len(Commits)
    /\ phase = "execution" =>
         /\ Commits # <<>>
         /\ LastPlan.plan = Len(Commits) /\ LastPlan.model = program
         /\ LastPlan.at <= Len(Raws)
         /\ \A i \in 1..Len(Raws) : i > LastPlan.at <=> Raws[i].plan = Len(Commits)

\* What a run records before it acts, and how the records of an action agree.
PairedOK ==
    phase \notin Failed =>
      /\ Len(store["run_started"]) =
           IF phase = "start" /\ pc \notin {"record_initial", "record_finished"} THEN 0 ELSE 1
      /\ Len(Analyses) = IF pc \in Weighing THEN Len(Raws) - 1 ELSE Len(Raws)
      /\ \A k \in 1..Len(Raws) : Raws[k].action = Intents[k].action
      /\ \A k \in 1..Len(Analyses) :
           Intents[k].model = Analyses[k].model /\ Intents[k].plan = Analyses[k].plan
      /\ pc \in {"env_step", "record_raw"} \cup Weighing =>
           LET last == Intents[Len(Intents)]
           IN  last.action = Head(call.plan) /\ last.model = program /\ last.plan = call.planId

\* What is on record when a run is on record as finished.
FinishedOK ==
    Len(store["run_finished"]) # 0 =>
      /\ Len(store["run_started"]) = 1
      /\ Len(Intents) = Len(Raws) /\ Len(Analyses) = Len(Raws)
      /\ \A k \in 1..Len(Raws) :
           /\ Raws[k].action = Intents[k].action
           /\ Intents[k].model = Analyses[k].model /\ Intents[k].plan = Analyses[k].plan

-----------------------------------------------------------------------------
(* What the helpers of the actions leave                                   *)

\* A clipped plan fits the budget.
LEMMA ClipFits ==
    ASSUME TypeOK, NEW s, NEW p \in Plans(s), Remaining > 0
    PROVE  Len(Clip(p)) \in 1..Remaining
<1>1. p \in Seq(Action) /\ p # <<>>
  BY PlansType
<1>2. Remaining \in Nat
  BY BudgetAssumption, LenProperties DEF Remaining, TypeOK
<1>3. Len(p) \in Nat \ {0}
  BY <1>1, EmptySeq
<1>4. CASE Len(p) > Remaining
  <2>1. Len(SubSeq(p, 1, Remaining)) = Remaining
    BY <1>1, <1>2, <1>4, SubSeqProperties
  <2> QED BY <2>1, <1>2, <1>4 DEF Clip
<1>5. CASE ~(Len(p) > Remaining)
  <2>1. Clip(p) = p
    BY <1>5 DEF Clip
  <2> HIDE DEF Remaining
  <2> QED BY <2>1, <1>2, <1>3, <1>5
<1> QED BY <1>4, <1>5

\* What settling an action does to the model's state and to the plan.
LEMMA SettleMoves ==
    ASSUME TypeOK, Settle
    PROVE  /\ Surprised => UNCHANGED <<phase, modelState, pendingPlan, pendingPlanId, call>>
           /\ ~Surprised /\ pc' = "record_finished" => pendingPlan' = <<>> /\ phase' = phase
           /\ ~Surprised /\ pc' = "complete" => modelState' = modelState + 1
           /\ ~Surprised /\ pc' = "complete" /\ phase' # phase =>
                phase' = "planning" /\ pendingPlan' = <<>>
           /\ ~Surprised /\ pc' = "complete" /\ phase' = phase /\ phase # "planning" =>
                /\ pendingPlan' = Tail(call.plan) /\ pendingPlanId' = pendingPlanId
                /\ Len(call.plan) # 1 /\ ~BudgetOut
<1>1. Disposition \in Reason \cup {"revise", "game_over", "replan", "continue"}
  BY DEF Disposition, Reason
<1>2. Surprised <=> Disposition = "revise"
  BY DEF Disposition
<1>3. CASE Disposition \in Reason
  BY <1>2, <1>3 DEF Settle, Reason, ClearPending
<1>4. CASE Disposition = "revise"
  BY <1>2, <1>4 DEF Settle, Reason, ClearPending, pending
<1>5. CASE Disposition \in {"game_over", "replan"}
  BY <1>2, <1>5 DEF Settle, Reason, ClearPending
<1>6. CASE Disposition = "continue"
  <2>1. Len(call.plan) # 1 /\ ~BudgetOut
    BY <1>6 DEF Disposition
  <2> QED BY <1>2, <1>6, <2>1 DEF Settle, Reason
<1> QED BY <1>1, <1>3, <1>4, <1>5, <1>6

\* The locals a phase of execution starts with.
LEMMA LocalsPlan ==
    ASSUME phase = "execution", ~Exhausted
    PROVE  Locals.plan = pendingPlan /\ Locals.planId = pendingPlanId
BY DEF Locals, NoCall

\* The locals after an update, in the fields that name the plan.
LEMMA CallPlan ==
    ASSUME call \in Call
    PROVE  /\ \A r : [call EXCEPT !.reason = r].plan = call.plan
           /\ \A r : [call EXCEPT !.reason = r].planId = call.planId
           /\ \A r : [call EXCEPT !.reason = r].status = call.status
           /\ \A s : [call EXCEPT !.status = s].planId = call.planId
           /\ \A s : [call EXCEPT !.status = s].plan = call.plan
           /\ \A s, v : [call EXCEPT !.status = s, !.verdict = v].plan = call.plan
           /\ \A s, v : [call EXCEPT !.status = s, !.verdict = v].planId = call.planId
           /\ [call EXCEPT !.intended = TRUE].plan = call.plan
           /\ [call EXCEPT !.intended = TRUE].planId = call.planId
           /\ \A p : [call EXCEPT !.plan = p].plan = p
<1>1. \A r : /\ [call EXCEPT !.reason = r].plan = call.plan
             /\ [call EXCEPT !.reason = r].planId = call.planId
             /\ [call EXCEPT !.reason = r].status = call.status
  BY DEF Call
<1>2. \A s : /\ [call EXCEPT !.status = s].plan = call.plan
             /\ [call EXCEPT !.status = s].planId = call.planId
  BY DEF Call
<1>3. \A s, v : /\ [call EXCEPT !.status = s, !.verdict = v].plan = call.plan
                /\ [call EXCEPT !.status = s, !.verdict = v].planId = call.planId
  BY DEF Call
<1>4. /\ [call EXCEPT !.intended = TRUE].plan = call.plan
      /\ [call EXCEPT !.intended = TRUE].planId = call.planId
      /\ \A p : [call EXCEPT !.plan = p].plan = p
  BY DEF Call
<1> QED BY <1>1, <1>2, <1>3, <1>4

-----------------------------------------------------------------------------
(* The model and the observation                                           *)

\* A step keeps the model's state and the observation up with the transitions.
LEMMA FoldedStep == JInv /\ FoldedOK /\ [Next]_vars => FoldedOK'
<1> SUFFICES ASSUME JInv, FoldedOK, [Next]_vars PROVE FoldedOK'
  OBVIOUS
<1> USE DEF FoldedOK, ControlOK, control, theory, pending, Surprised, Terminal, Failed,
        Weighing, Judged
<1>f. /\ TypeOK /\ ControlOK /\ CallOK /\ JudgedOK /\ call \in Call
      /\ Len(transitions) \in Nat /\ modelState \in Nat
  BY FieldTypes DEF JInv, IInv, TypeOK
<1>1. CASE Advance
  BY <1>1, <1>f DEF Advance, CanAdvance
<1>2. CASE RecordStarted
  <2>1. /\ UNCHANGED <<phase, modelState, transitions, observation>>
        /\ pc = "record_started" /\ pc' \notin Weighing \cup Judged
    BY <1>2, <1>f DEF RecordStarted, Entry, Exhausted, TypeOK, Phase
  <2> QED BY <1>f, <2>1
<1>3. CASE Complete
  BY <1>3, <1>f DEF Complete
<1>4. CASE RecordCompleted
  BY <1>4, <1>f DEF RecordCompleted, Leave
<1>5. CASE EnvStart
  BY <1>5, <1>f DEF EnvStart
<1>6. CASE RecordRunStarted
  BY <1>6, <1>f DEF RecordRunStarted
<1>7. CASE RecordInitial
  <2>1. Len(transitions) = 0
    BY <1>7, <1>f DEF RecordInitial, JudgedOK
  <2> QED BY <1>7, <1>f, <2>1 DEF RecordInitial
<1>8. CASE Revise
  BY <1>8, <1>f DEF Revise
<1>9. CASE RecordModelExecuted
  BY <1>9, <1>f DEF RecordModelExecuted, CommitModel
<1>10. CASE ChoosePlan
  BY <1>10, <1>f DEF ChoosePlan
<1>11. CASE RecordCertified
  BY <1>11, <1>f DEF RecordCertified
<1>12. CASE RecordCommitted
  BY <1>12, <1>f DEF RecordCommitted
<1>13. CASE RecordIntent
  BY <1>13, <1>f DEF RecordIntent
<1>14. CASE EnvStep
  BY <1>14, <1>f DEF EnvStep
<1>15. CASE RecordRaw
  <2>1. /\ Len(transitions') = Len(transitions) + 1
        /\ transitions'[Len(transitions) + 1].after = call.status
    BY <1>15, RawAppends DEF JInv
  <2> QED BY <1>15, <1>f, <2>1 DEF RecordRaw
<1>16. CASE Compare
  BY <1>16, <1>f DEF Compare
<1>17. CASE RecordAnalysis
  BY <1>17, <1>f DEF RecordAnalysis
<1>18. CASE RecordObserved
  <2>1. /\ UNCHANGED <<transitions, observation>> /\ pc = "record_observed"
        /\ Settle \/ (pc' = "record_invalidated" /\ UNCHANGED <<phase, modelState>>)
    BY <1>18 DEF RecordObserved
  <2>2. CASE Settle
    BY <1>f, <2>1, <2>2, SettleFacts, SettleMoves
  <2> QED BY <1>f, <2>1, <2>2
<1>19. CASE RecordInvalidated
  <2>1. /\ UNCHANGED <<transitions, observation>> /\ pc = "record_invalidated" /\ Settle
    BY <1>19 DEF RecordInvalidated
  <2> QED BY <1>f, <2>1, SettleFacts, SettleMoves
<1>20. CASE RecordFinished
  BY <1>20, <1>f DEF RecordFinished
<1>21. CASE Raise \/ EnvStepLost \/ RaiseUnknown \/ FinishUnreleased
  <2>1. phase' \in Failed
    BY <1>21 DEF Raise, EnvStepLost, RaiseUnknown, FinishUnreleased, Throw, FailPhase
  <2> QED BY <2>1
<1>22. CASE RecordUnknown \/ RecordFailed
  <2>1. phase' \in Failed
    BY <1>22, <1>f DEF RecordUnknown, RecordFailed
  <2> QED BY <2>1
<1>23. CASE RecordRunError \/ Unwind
  BY <1>23, <1>f DEF RecordRunError, Unwind, CloseRaises, Leave
<1>24. CASE UNCHANGED vars
  BY <1>24, <1>f DEF vars
<1> QED BY <1>1, <1>2, <1>3, <1>4, <1>5, <1>6, <1>7, <1>8, <1>9, <1>10, <1>11, <1>12, <1>13,
           <1>14, <1>15, <1>16, <1>17, <1>18, <1>19, <1>20, <1>21, <1>22, <1>23, <1>24
           DEF Next, Step, Halted

-----------------------------------------------------------------------------
(* Which action writes which evidence                                      *)

LEMMA OtherKinds ==
    ASSUME TypeOK, NEW k \in Kind, NEW e, Record(k, e)
    PROVE  \A j \in Kind \ {k} : store'[j] = store[j]
BY DEF TypeOK, Record

\* A kind of evidence is written by one action only.
LEMMA WritesApart ==
    ASSUME TypeOK, [Next]_vars
    PROVE  /\ ~RecordCommitted => UNCHANGED Commits
           /\ ~RecordIntent => UNCHANGED Intents
           /\ ~RecordRaw => UNCHANGED <<Raws, transitions>>
           /\ ~RecordAnalysis => UNCHANGED Analyses
           /\ ~RecordRunStarted => UNCHANGED store["run_started"]
           /\ ~RecordFinished /\ ~FinishUnreleased => UNCHANGED store["run_finished"]
<1> USE DEF Commits, Intents, Raws, Analyses
<1>k. {"plan_committed", "action_intent", "transition_raw", "transition_analysis",
       "run_started", "run_finished", "interactive_phase_started",
       "interactive_phase_completed", "interactive_phase_failed", "initial_observation",
       "model_executed", "controller_plan_certified", "action_observed",
       "plan_invalidated", "action_outcome_unknown", "run_error"} \subseteq Kind
  BY DEF Kind
<1>s. \A k \in Kind : \A e : Record(k, e) => \A j \in Kind \ {k} : store'[j] = store[j]
  BY OtherKinds
<1>1. CASE UNCHANGED store /\ UNCHANGED transitions
  BY <1>1
<1>2. CASE RecordStarted \/ RecordCompleted \/ RecordInitial \/ RecordModelExecuted
           \/ RecordCertified
  BY <1>2, <1>k, <1>s DEF RecordStarted, RecordCompleted, RecordInitial,
     RecordModelExecuted, RecordCertified
<1>3. CASE RecordObserved \/ RecordInvalidated \/ RecordUnknown \/ RecordFailed
           \/ RecordRunError
  BY <1>3, <1>k, <1>s DEF RecordObserved, RecordInvalidated, RecordUnknown, RecordFailed,
     RecordRunError
<1>4. CASE RecordCommitted
  BY <1>4, <1>k, <1>s DEF RecordCommitted
<1>5. CASE RecordIntent
  BY <1>5, <1>k, <1>s DEF RecordIntent
<1>6. CASE RecordRaw
  BY <1>6, <1>k, <1>s DEF RecordRaw
<1>7. CASE RecordAnalysis
  BY <1>7, <1>k, <1>s DEF RecordAnalysis, AppendAnalysis
<1>8. CASE RecordRunStarted
  BY <1>8, <1>k, <1>s DEF RecordRunStarted
<1>9. CASE RecordFinished \/ FinishUnreleased
  BY <1>9, <1>k, <1>s DEF RecordFinished, FinishUnreleased, AppendFinished
<1>10. CASE Advance \/ Complete \/ EnvStart \/ Revise \/ ChoosePlan \/ EnvStep \/ Compare
            \/ Raise \/ EnvStepLost \/ RaiseUnknown \/ Unwind \/ Halted \/ UNCHANGED vars
  <2>1. UNCHANGED <<store, transitions>>
    BY <1>10 DEF Advance, Complete, EnvStart, Revise, ChoosePlan, EnvStep, Compare, Raise,
       EnvStepLost, RaiseUnknown, Unwind, Halted, Throw, vars
  <2> QED BY <2>1, <1>1
<1> QED BY <1>2, <1>3, <1>4, <1>5, <1>6, <1>7, <1>8, <1>9, <1>10 DEF Next, Step

-----------------------------------------------------------------------------
(* The plan at hand                                                        *)

\* A step keeps the plan at hand within the budget and bound to its commit.
LEMMA PendingStep == JInv /\ PendingOK /\ [Next]_vars => PendingOK'
<1> SUFFICES ASSUME JInv, PendingOK, [Next]_vars PROVE PendingOK'
  OBVIOUS
<1> USE DEF PendingOK, ControlOK, control, theory, Surprised, Terminal, Failed,
        Acting, Between, ExecutionLabel
<1>f. /\ TypeOK /\ ControlOK /\ PlanOK /\ SpendOK /\ CallOK /\ JudgedOK /\ call \in Call
      /\ Len(transitions) \in Nat /\ Remaining \in Int
      /\ call.plan \in Seq(Action) /\ Len(call.plan) \in Nat
  BY FieldTypes, BudgetAssumption DEF JInv, IInv, TypeOK, Remaining
<1>r. ~RecordRaw => UNCHANGED Remaining
  BY <1>f, WritesApart DEF Remaining
<1>c. ~RecordCommitted => UNCHANGED Commits
  BY <1>f, WritesApart
<1>1. CASE Advance
  <2>1. UNCHANGED <<Remaining, Commits>>
    BY <1>1, <1>r, <1>c DEF Advance, RecordRaw, RecordCommitted
  <2> QED BY <1>1, <1>f, <2>1 DEF Advance, CanAdvance, pending
<1>2. CASE RecordStarted
  <2>1. UNCHANGED <<Remaining, Commits>>
    BY <1>2, <1>r, <1>c DEF RecordStarted, RecordRaw, RecordCommitted
  <2>2. /\ UNCHANGED <<phase, pendingPlan, pendingPlanId>> /\ pc = "record_started"
        /\ call' = Locals
        /\ pc' \in {"record_finished", "env_start", "revise", "plan", "record_intent"}
        /\ phase = "execution" /\ ~Exhausted => pc' = "record_intent"
        /\ pc' = "record_intent" => phase = "execution" /\ ~Exhausted
    BY <1>2, <1>f DEF RecordStarted, Entry, TypeOK, Phase, pending
  <2>3. CASE phase = "execution" /\ ~Exhausted
    <3>1. call'.plan = pendingPlan /\ call'.planId = pendingPlanId
      BY <2>2, <2>3, LocalsPlan
    <3> QED BY <2>1, <2>2, <2>3, <3>1
  <2>4. CASE phase = "execution" /\ Exhausted
    <3>1. Remaining <= 0
      BY <2>4 DEF Exhausted
    <3>2. Len(pendingPlan) \in 1..Remaining
      BY <2>2, <2>4
    <3> QED BY <1>f, <3>1, <3>2
  <2>5. CASE phase # "execution"
    BY <2>1, <2>2, <2>5
  <2> QED BY <2>3, <2>4, <2>5
<1>3. CASE Complete
  <2>1. UNCHANGED <<Remaining, Commits>>
    BY <1>3, <1>r, <1>c DEF Complete, RecordRaw, RecordCommitted
  <2> QED BY <1>3, <1>f, <2>1 DEF Complete, pending
<1>4. CASE RecordCompleted
  <2>1. UNCHANGED <<Remaining, Commits>>
    BY <1>4, <1>r, <1>c DEF RecordCompleted, RecordRaw, RecordCommitted
  <2> QED BY <1>4, <1>f, <2>1 DEF RecordCompleted, Leave, pending
<1>5. CASE EnvStart \/ RecordRunStarted \/ Revise
  <2>1. UNCHANGED <<phase, pendingPlan, pendingPlanId>> /\ phase # "execution"
        /\ pc' \in {"record_run_started", "record_initial", "record_model_executed"}
    BY <1>5, <1>f DEF EnvStart, RecordRunStarted, Revise, pending
  <2> QED BY <2>1
<1>6. CASE RecordInitial \/ RecordModelExecuted
  <2>1. /\ UNCHANGED <<pendingPlan, pendingPlanId>> /\ phase \notin {"execution", "error"}
        /\ phase' # "execution" /\ pc' \in {"complete", "record_finished"}
    BY <1>6, <1>f DEF RecordInitial, RecordModelExecuted, pending
  <2> QED BY <2>1
<1>7. CASE ChoosePlan
  <2>1. UNCHANGED Remaining
    BY <1>7, <1>r DEF ChoosePlan, RecordRaw
  <2>2. PICK p \in Plans(observation) : call' = [call EXCEPT !.plan = Clip(p)]
    BY <1>7 DEF ChoosePlan
  <2>3. Remaining > 0
    BY <1>7, <1>f, BudgetAssumption DEF ChoosePlan, SpendOK, Remaining
  <2>4. Len(call'.plan) \in 1..Remaining
    BY <1>f, <2>2, <2>3, ClipFits, CallPlan
  <2>5. /\ UNCHANGED <<phase, pendingPlan, pendingPlanId>> /\ phase = "planning"
        /\ pc' = "record_certified"
    BY <1>7, <1>f DEF ChoosePlan, pending
  <2> QED BY <2>1, <2>4, <2>5
<1>8. CASE RecordCertified
  <2>1. UNCHANGED Remaining
    BY <1>8, <1>r DEF RecordCertified, RecordRaw
  <2> QED BY <1>8, <1>f, <2>1 DEF RecordCertified, pending
<1>9. CASE RecordCommitted
  <2>1. UNCHANGED Remaining
    BY <1>9, <1>r DEF RecordCommitted, RecordRaw
  <2>2. Len(Commits') = Len(Commits) + 1
    <3>1. PlanEvent \in Event /\ "plan_committed" \in Kind
      BY <1>f, EventTypes DEF Kind
    <3> QED BY <1>9, <1>f, <3>1, RecordAppends DEF RecordCommitted, TypeOK, Commits
  <2>3. PlanEvent.plan = Len(Commits) + 1
    BY DEF PlanEvent, Blank, Commits
  <2>4. /\ pendingPlan' = call.plan /\ pendingPlanId' = PlanEvent.plan
        /\ phase' = "execution" /\ pc = "record_committed" /\ pc' = "complete"
    BY <1>9 DEF RecordCommitted
  <2> QED BY <2>1, <2>2, <2>3, <2>4
<1>10. CASE RecordIntent
  <2>1. UNCHANGED <<Remaining, Commits>>
    BY <1>10, <1>r, <1>c DEF RecordIntent, RecordRaw, RecordCommitted
  <2>2. call'.plan = call.plan /\ call'.planId = call.planId
    BY <1>10, <1>f, CallPlan DEF RecordIntent
  <2> QED BY <1>10, <1>f, <2>1, <2>2 DEF RecordIntent, pending
<1>11. CASE EnvStep
  <2>1. UNCHANGED <<Remaining, Commits>>
    BY <1>11, <1>r, <1>c DEF EnvStep, RecordRaw, RecordCommitted
  <2>2. call'.plan = call.plan /\ call'.planId = call.planId
    BY <1>11, <1>f, CallPlan DEF EnvStep
  <2> QED BY <1>11, <1>f, <2>1, <2>2 DEF EnvStep, pending
<1>12. CASE RecordRaw
  <2>1. UNCHANGED Commits
    BY <1>12, <1>c DEF RecordRaw, RecordCommitted
  <2>2. Remaining' = Remaining - 1
    BY <1>12, <1>f, RawAppends, BudgetAssumption DEF Remaining, JInv
  <2> QED BY <1>12, <1>f, <2>1, <2>2 DEF RecordRaw, pending
<1>13. CASE Compare
  <2>1. UNCHANGED <<Remaining, Commits>>
    BY <1>13, <1>r, <1>c DEF Compare, RecordRaw, RecordCommitted
  <2> QED BY <1>13, <1>f, <2>1 DEF Compare, pending
<1>14. CASE RecordAnalysis
  <2>1. UNCHANGED <<Remaining, Commits>>
    BY <1>14, <1>r, <1>c DEF RecordAnalysis, RecordRaw, RecordCommitted
  <2> QED BY <1>14, <1>f, <2>1 DEF RecordAnalysis, pending, ClearPending
<1>15. ASSUME Settle, pc \in Judged, UNCHANGED <<Remaining, Commits>>
       PROVE  PendingOK'
  <2>1. phase = (IF Surprised THEN "revision" ELSE "execution") /\ pc' \in {"complete", "record_finished"}
    BY <1>15, <1>f, SettleFacts DEF Judged
  <2>2. CASE Surprised
    <3>1. UNCHANGED <<phase, pendingPlan, pendingPlanId>>
      BY <1>15, <1>f, <2>2, SettleMoves
    <3> QED BY <2>1, <2>2, <3>1
  <2>3. CASE ~Surprised /\ pc' = "record_finished"
    <3>1. pendingPlan' = <<>>
      BY <1>15, <1>f, <2>3, SettleMoves
    <3> QED BY <2>3, <3>1
  <2>4. CASE ~Surprised /\ pc' = "complete" /\ phase' # phase
    <3>1. pendingPlan' = <<>> /\ phase' = "planning"
      BY <1>15, <1>f, <2>4, SettleMoves
    <3> QED BY <2>4, <3>1
  <2>5. CASE ~Surprised /\ pc' = "complete" /\ phase' = phase
    <3>1. pendingPlan' = Tail(call.plan) /\ pendingPlanId' = pendingPlanId /\ Len(call.plan) # 1
      BY <1>15, <1>f, <2>1, <2>5, SettleMoves
    <3>2. Len(Tail(call.plan)) = Len(call.plan) - 1
      BY <1>15, <1>f, HeadTailProperties DEF PlanOK, Judged
    <3>3. Len(call.plan) \in 1..(Remaining + 1) /\ pendingPlanId = Len(Commits)
      BY <1>15, <2>1, <2>5 DEF Judged
    <3>4. Len(call.plan) - 1 \in 1..Remaining
      <4>1. \A l, r \in Int : l \in 1..(r + 1) /\ l # 1 => l - 1 \in 1..r
        OBVIOUS
      <4>2. Len(call.plan) \in Int /\ Remaining \in Int
        BY <1>f
      <4>3. Len(call.plan) # 1
        BY <3>1
      <4>4. Len(call.plan) \in 1..(Remaining + 1)
        BY <3>3
      <4> QED BY <4>1, <4>2, <4>3, <4>4, Zenon
    <3>5. Len(pendingPlan') \in 1..Remaining' /\ pendingPlanId' = Len(Commits')
      BY <1>15, <3>1, <3>2, <3>3, <3>4
    <3>6. phase' = "execution" /\ pc' = "complete"
      BY <2>1, <2>5
    <3> QED BY <3>5, <3>6
  <2> QED BY <2>1, <2>2, <2>3, <2>4, <2>5
<1>16. CASE RecordObserved
  <2>1. UNCHANGED <<Remaining, Commits>>
    BY <1>16, <1>r, <1>c DEF RecordObserved, RecordRaw, RecordCommitted
  <2>2. CASE Settle
    BY <1>15, <1>16, <2>1, <2>2 DEF RecordObserved, Judged
  <2>3. CASE ~Settle
    <3>1. /\ UNCHANGED <<phase, pendingPlan, pendingPlanId, call>>
          /\ pc = "record_observed" /\ pc' = "record_invalidated"
      BY <1>16, <2>3 DEF RecordObserved, pending
    <3> QED BY <1>f, <2>1, <3>1
  <2> QED BY <2>2, <2>3
<1>17. CASE RecordInvalidated
  <2>1. UNCHANGED <<Remaining, Commits>>
    BY <1>17, <1>r, <1>c DEF RecordInvalidated, RecordRaw, RecordCommitted
  <2> QED BY <1>15, <1>17, <2>1 DEF RecordInvalidated, Judged
<1>18. CASE RecordFinished
  BY <1>18, <1>f DEF RecordFinished, ClearPending
<1>19. CASE Raise \/ EnvStepLost \/ RaiseUnknown \/ FinishUnreleased
  <2>1. /\ phase' = "error" \/ (phase' = "outcome_unknown" /\ pendingPlan' = <<>>)
        /\ pc' \in {"record_failed", "record_unknown"}
    BY <1>19 DEF Raise, EnvStepLost, RaiseUnknown, FinishUnreleased, Throw, FailPhase,
       ClearPending
  <2> QED BY <2>1
<1>20. CASE RecordUnknown \/ RecordFailed
  BY <1>20, <1>f DEF RecordUnknown, RecordFailed, pending
<1>21. CASE RecordRunError
  BY <1>21, <1>f DEF RecordRunError, Leave, pending
<1>22. CASE Unwind
  <2>1. UNCHANGED <<Remaining, Commits>>
    BY <1>22, <1>r, <1>c DEF Unwind, CloseRaises, RecordRaw, RecordCommitted
  <2> QED BY <1>22, <1>f, <2>1 DEF Unwind, CloseRaises, Leave, pending
<1>23. CASE Halted \/ UNCHANGED vars
  <2>1. UNCHANGED <<phase, pendingPlan, pendingPlanId, call, pc, transitions, store>>
    BY <1>23 DEF Halted, vars, pending
  <2> QED BY <1>f, <2>1 DEF Remaining, Commits
<1> QED BY <1>1, <1>2, <1>3, <1>4, <1>5, <1>6, <1>7, <1>8, <1>9, <1>10, <1>11, <1>12, <1>13,
           <1>14, <1>16, <1>17, <1>18, <1>19, <1>20, <1>21, <1>22, <1>23
           DEF Next, Step

-----------------------------------------------------------------------------
(* The plan an action was bought for                                       *)

\* The event an append adds, and those it leaves.
LEMMA RecordAt ==
    ASSUME TypeOK, NEW k \in Kind, NEW e \in Event, Record(k, e)
    PROVE  /\ Len(store'[k]) = Len(store[k]) + 1
           /\ store'[k][Len(store[k]) + 1] = e
           /\ \A i \in 1..Len(store[k]) : store'[k][i] = store[k][i]
<1>1. store[k] \in Seq(Event) /\ store'[k] = Append(store[k], e)
  BY DEF TypeOK, Record
<1> QED BY <1>1, AppendProperties

\* Execution begins with a commit, and only a revision changes the program.
LEMMA ExecutionBegins ==
    ASSUME JInv, [Next]_vars, ~RecordCommitted, ~RecordModelExecuted
    PROVE  UNCHANGED program /\ (phase' = "execution" => phase = "execution")
<1>f. TypeOK /\ ControlOK
  BY DEF JInv, IInv
<1>1. CASE Advance \/ RecordStarted \/ Complete \/ RecordCompleted \/ EnvStart
           \/ RecordRunStarted \/ RecordInitial \/ Revise
  BY <1>1 DEF Advance, RecordStarted, Complete, RecordCompleted, EnvStart,
     RecordRunStarted, RecordInitial, Revise, Leave, control, theory
<1>2. CASE ChoosePlan \/ RecordCertified \/ RecordIntent \/ EnvStep \/ RecordRaw
           \/ Compare \/ RecordAnalysis \/ RecordFinished
  BY <1>2 DEF ChoosePlan, RecordCertified, RecordIntent, EnvStep, RecordRaw, Compare,
     RecordAnalysis, RecordFinished, control, theory
<1>3. CASE RecordObserved \/ RecordInvalidated
  <2>1. UNCHANGED program /\ (Settle \/ UNCHANGED phase)
    BY <1>3 DEF RecordObserved, RecordInvalidated
  <2> QED BY <1>f, <2>1, SettleFacts
<1>4. CASE Raise \/ EnvStepLost \/ RaiseUnknown \/ FinishUnreleased
  BY <1>4 DEF Raise, EnvStepLost, RaiseUnknown, FinishUnreleased, Throw, FailPhase, theory
<1>5. CASE RecordUnknown \/ RecordFailed \/ RecordRunError \/ Unwind \/ Halted \/ UNCHANGED vars
  BY <1>5 DEF RecordUnknown, RecordFailed, RecordRunError, Unwind, Halted, vars, Leave,
     control, theory
<1> QED BY <1>1, <1>2, <1>3, <1>4, <1>5 DEF Next, Step

\* A step keeps the plan in execution apart from every earlier one.
LEMMA LineageStep == JInv /\ PendingOK /\ LineageOK /\ [Next]_vars => LineageOK'
<1> SUFFICES ASSUME JInv, PendingOK, LineageOK, [Next]_vars PROVE LineageOK'
  OBVIOUS
<1>f. /\ TypeOK /\ ControlOK /\ SpendOK
      /\ Raws \in Seq(Event) /\ Commits \in Seq(Event)
      /\ Len(Raws) \in Nat /\ Len(Commits) \in Nat
  BY FieldTypes DEF JInv, IInv, Raws, Commits, Kind
<1>p. \A i \in 1..Len(Raws) : Raws[i].plan \in Nat
  <2>1. \A i \in 1..Len(Raws) : Raws[i] \in Event
    BY <1>f, LenProperties
  <2> QED BY <2>1 DEF Event
<1>1. CASE RecordCommitted
  <2>1. UNCHANGED <<Raws, program>> /\ phase' = "execution"
    BY <1>1, <1>f, WritesApart DEF RecordCommitted, RecordRaw, theory
  <2>2. PlanEvent \in Event /\ Record("plan_committed", PlanEvent) /\ "plan_committed" \in Kind
    BY <1>1, <1>f, EventTypes DEF RecordCommitted, Kind
  <2>3. Len(Commits') = Len(Commits) + 1 /\ Commits'[Len(Commits) + 1] = PlanEvent
    BY <1>f, <2>2, RecordAt DEF Commits
  <2>4. /\ PlanEvent.plan = Len(Commits) + 1 /\ PlanEvent.model = program
        /\ PlanEvent.at = Len(Raws)
    BY <1>f DEF PlanEvent, Blank, Commits, SpendOK
  <2>5. LastPlan' = PlanEvent
    BY <2>3 DEF LastPlan, Commits
  <2>6. Commits' # <<>>
    BY <1>f, <2>3, EmptySeq
  <2>7. \A i \in 1..Len(Raws) : Raws[i].plan <= Len(Commits)
    BY DEF LineageOK
  <2>8. \A i \in 1..Len(Raws) : ~(i > Len(Raws)) /\ Raws[i].plan # Len(Commits) + 1
                                /\ Raws[i].plan <= Len(Commits) + 1
    BY <1>f, <1>p, <2>7
  <2> QED BY <1>f, <2>1, <2>3, <2>4, <2>5, <2>6, <2>8 DEF LineageOK
<1>2. CASE RecordRaw
  <2> DEFINE e == [Linked(Head(call.plan)) EXCEPT !.at = Len(transitions) + 1]
             n == Len(Raws)
             m == Len(Commits)
  <2>1. phase = "execution" /\ call.planId = Len(Commits)
    BY <1>2, <1>f DEF RecordRaw, ControlOK, PendingOK, ExecutionLabel
  <2>2. UNCHANGED <<Commits, phase, program>>
    BY <1>2, <1>f, WritesApart DEF RecordRaw, RecordCommitted, control, theory
  <2>3. e \in Event /\ Record("transition_raw", e) /\ "transition_raw" \in Kind
    <3>1. Head(call.plan) \in Action
      BY <1>2, <1>f, FieldTypes, HeadTailProperties DEF JInv, IInv, PlanOK, ExecutionLabel, RecordRaw
    <3>2. Len(transitions) + 1 \in Nat
      BY <1>f, FieldTypes
    <3> QED BY <1>2, <1>f, <3>1, <3>2, EventTypes DEF RecordRaw, Kind
  <2>4. /\ Len(Raws') = n + 1 /\ Raws'[n + 1] = e
        /\ \A i \in 1..n : Raws'[i] = Raws[i]
    BY <1>f, <2>3, RecordAt DEF Raws
  <2>5. e.plan = m
    BY <2>1 DEF Linked, Blank
  <2>6. UNCHANGED LastPlan
    BY <2>2 DEF LastPlan, Commits
  <2>7. /\ \A i \in 1..n : Raws[i].plan <= m
        /\ Commits # <<>>
        /\ LastPlan.plan = m /\ LastPlan.model = program
        /\ LastPlan.at <= n
        /\ \A i \in 1..n : i > LastPlan.at <=> Raws[i].plan = m
    BY <2>1 DEF LineageOK
  <2>8. LastPlan.at \in Nat
    <3>1. LastPlan \in Event
      <4>1. Len(Commits) \in 1..Len(Commits)
        BY <1>f, <2>7, EmptySeq
      <4> QED BY <1>f, <4>1, LenProperties DEF LastPlan, Commits
    <3> QED BY <3>1 DEF Event
  <2> HIDE DEF e
  <2>9. ASSUME NEW i \in 1..Len(Raws')
        PROVE  Raws'[i].plan <= m /\ (i > LastPlan.at <=> Raws'[i].plan = m)
    <3>1. CASE i \in 1..n
      BY <2>4, <2>7, <3>1
    <3>2. CASE i = n + 1
      BY <1>f, <2>4, <2>5, <2>7, <2>8, <3>2
    <3> QED BY <1>f, <2>4, <3>1, <3>2
  <2>10. LastPlan.at <= n + 1
    BY <1>f, <2>7, <2>8
  <2> QED BY <2>2, <2>4, <2>6, <2>7, <2>9, <2>10 DEF LineageOK
<1>3. CASE RecordModelExecuted
  <2>1. UNCHANGED <<Raws, Commits>> /\ phase' # "execution"
    BY <1>3, <1>f, WritesApart DEF RecordModelExecuted, RecordRaw, RecordCommitted, ControlOK
  <2> QED BY <2>1 DEF LineageOK
<1>4. CASE ~RecordCommitted /\ ~RecordRaw /\ ~RecordModelExecuted
  <2>1. UNCHANGED <<Raws, Commits>>
    BY <1>4, <1>f, WritesApart
  <2>2. UNCHANGED program /\ (phase' = "execution" => phase = "execution")
    BY <1>4, ExecutionBegins
  <2>3. UNCHANGED LastPlan
    BY <2>1 DEF LastPlan, Commits
  <2> QED BY <2>1, <2>2, <2>3 DEF LineageOK
<1> QED BY <1>1, <1>2, <1>3, <1>4

GInv == JInv /\ FoldedOK /\ PendingOK /\ LineageOK

LEMMA GroundInit == Init => GInv
<1> SUFFICES ASSUME Init PROVE GInv
  OBVIOUS
<1>1. Raws = <<>>
  BY DEF Init, Raws, Kind
<1>2. FoldedOK /\ PendingOK
  BY EmptySeq DEF Init, FoldedOK, PendingOK, Failed, ExecutionLabel
<1>3. LineageOK
  BY <1>1, EmptySeq DEF Init, LineageOK
<1> QED BY <1>2, <1>3, JudgedInit DEF GInv

\* What is planned from and what is about to be executed belong together whenever no
\* phase is in flight: the model explains and has folded every transition, the plan
\* is the unspent suffix of the last one committed, it fits the budget and no other phase
\* holds one (interactive.py:384 and 485).
THEOREM GroundedCorrect == Spec => []PlanGrounded
<1>1. JInv /\ [Next]_vars => JInv'
  BY InvNext, CallStep, JudgedStep, SeenStep, EndsStep DEF JInv
<1>2. GInv /\ [Next]_vars => GInv'
  BY <1>1, FoldedStep, PendingStep, LineageStep DEF GInv
<1>3. ASSUME GInv, Idle PROVE ModelCoherent /\ PlanCertified
                              /\ (phase \notin {"execution", "error"} => pendingPlan = <<>>)
  <2>1. /\ pc = "idle" /\ JudgedOK /\ TypeOK
    BY <1>3 DEF GInv, JInv, IInv, Idle
  <2>2. ModelCoherent
    <3>1. transitions # <<>> => Len(transitions) # 0
      BY <2>1, EmptySeq DEF TypeOK
    <3> QED BY <1>3, <2>1, <3>1 DEF GInv, JudgedOK, FoldedOK, ModelCoherent, Weighing, Judged, Failed
  <2>3. PlanCertified
    BY <1>3, <2>1 DEF GInv, PendingOK, LineageOK, PlanCertified, Between
  <2> QED BY <1>3, <2>2, <2>3 DEF GInv, PendingOK
<1>4. GInv => PlanGrounded
  BY <1>3 DEF PlanGrounded
<1> QED BY GroundInit, <1>2, <1>4, PTL DEF Spec

-----------------------------------------------------------------------------
(* The records of an action                                                *)

\* The run is not yet on record.
Unstarted == phase = "start" /\ pc \notin {"record_initial", "record_finished"}

\* Between two actions nothing disturbs the records that agree.
LEMMA PairedFrame ==
    ASSUME PairedOK, phase \notin Failed, pc \notin Weighing,
           UNCHANGED <<Raws, Intents, Analyses, store["run_started"], transitions>>,
           pc' \notin {"env_step", "record_raw"} \cup Weighing, Unstarted' <=> Unstarted
    PROVE  PairedOK'
BY DEF PairedOK, Unstarted

\* A step keeps the records of an action in agreement.
LEMMA PairedStep == JInv /\ PairedOK /\ [Next]_vars => PairedOK'
<1> SUFFICES ASSUME JInv, PairedOK, [Next]_vars, phase' \notin Failed PROVE PairedOK'
  BY DEF PairedOK
<1>f. /\ TypeOK /\ ControlOK /\ SpendOK /\ PlanOK /\ CallOK /\ EndOK
      /\ Len(Raws) \in Nat /\ Len(Intents) \in Nat /\ Len(Analyses) \in Nat
      /\ Len(transitions) \in Nat /\ call \in Call
  BY FieldTypes DEF JInv, IInv, TypeOK, Raws, Intents, Analyses, Kind
<1>w. /\ ~RecordIntent => UNCHANGED Intents
      /\ ~RecordRaw => UNCHANGED <<Raws, transitions>>
      /\ ~RecordAnalysis => UNCHANGED Analyses
      /\ ~RecordRunStarted => UNCHANGED store["run_started"]
  BY <1>f, WritesApart
<1>k. {"run_started", "action_intent", "transition_raw", "transition_analysis"} \subseteq Kind
  BY DEF Kind
<1>h. pc \in ExecutionLabel => Head(call.plan) \in Action
  BY <1>f, FieldTypes, HeadTailProperties DEF PlanOK
<1>1. CASE RecordRunStarted
  <2>1. /\ UNCHANGED <<Raws, Intents, Analyses, transitions, phase>>
        /\ pc = "record_run_started" /\ pc' = "record_initial" /\ phase = "start"
    BY <1>1, <1>f, <1>w
       DEF RecordRunStarted, RecordIntent, RecordRaw, RecordAnalysis, RecordFinished,
           ControlOK, control
  <2>2. Len(store'["run_started"]) = Len(store["run_started"]) + 1
    BY <1>1, <1>f, <1>k, BlankType, RecordAt DEF RecordRunStarted
  <2>3. Len(store["run_started"]) = 0
    BY <2>1 DEF PairedOK, Failed
  <2> QED BY <2>1, <2>2, <2>3 DEF PairedOK, Failed, Weighing
<1>2. CASE RecordIntent
  <2> DEFINE e == [Linked(Head(call.plan)) EXCEPT !.model = program]
  <2>1. /\ UNCHANGED <<Raws, Analyses, store["run_started"], transitions, phase, program>>
        /\ pc = "record_intent" /\ pc' = "env_step" /\ phase = "execution"
    BY <1>2, <1>f, <1>w
       DEF RecordIntent, RecordRunStarted, RecordRaw, RecordAnalysis, RecordFinished,
           ControlOK, control, theory
  <2>2. call'.plan = call.plan /\ call'.planId = call.planId
    BY <1>2, <1>f, CallPlan DEF RecordIntent
  <2>3. e \in Event /\ Record("action_intent", e)
    BY <1>2, <1>f, <1>h, <2>1, EventTypes DEF RecordIntent, ExecutionLabel, TypeOK
  <2>4. /\ Len(Intents') = Len(Intents) + 1 /\ Intents'[Len(Intents) + 1] = e
        /\ \A i \in 1..Len(Intents) : Intents'[i] = Intents[i]
    BY <1>f, <1>k, <2>3, RecordAt DEF Intents
  <2>5. e.action = Head(call.plan) /\ e.model = program /\ e.plan = call.planId
    BY DEF Linked, Blank
  <2>6. Len(Intents) = Len(Raws) /\ Len(Analyses) = Len(Raws)
    BY <1>f, <2>1 DEF SpendOK, PairedOK, Weighing, Failed
  <2> HIDE DEF e
  <2>7. \A k \in 1..Len(Raws) : Raws'[k].action = Intents'[k].action
    BY <2>1, <2>4, <2>6 DEF PairedOK, Failed
  <2>8. \A k \in 1..Len(Analyses) :
           Intents'[k].model = Analyses'[k].model /\ Intents'[k].plan = Analyses'[k].plan
    BY <2>1, <2>4, <2>6 DEF PairedOK, Failed
  <2>9. LET last == Intents'[Len(Intents')]
        IN  last.action = Head(call'.plan) /\ last.model = program' /\ last.plan = call'.planId
    BY <2>1, <2>2, <2>4, <2>5
  <2> QED BY <2>1, <2>6, <2>7, <2>8, <2>9 DEF PairedOK, Failed, Weighing
<1>3. CASE RecordRaw
  <2> DEFINE e == [Linked(Head(call.plan)) EXCEPT !.at = Len(transitions) + 1]
  <2>1. /\ UNCHANGED <<Intents, Analyses, store["run_started"], phase, program, call>>
        /\ pc = "record_raw" /\ pc' = "compare" /\ phase = "execution"
    BY <1>3, <1>f, <1>w
       DEF RecordIntent, RecordRunStarted, RecordRaw, RecordAnalysis, RecordFinished,
           ControlOK, control, theory
  <2>2. e \in Event /\ Record("transition_raw", e)
    <3>1. Len(transitions) + 1 \in Nat
      BY <1>f
    <3> QED BY <1>3, <1>f, <1>h, <2>1, <3>1, EventTypes DEF RecordRaw, ExecutionLabel
  <2>3. /\ Len(Raws') = Len(Raws) + 1 /\ Raws'[Len(Raws) + 1] = e
        /\ \A i \in 1..Len(Raws) : Raws'[i] = Raws[i]
    BY <1>f, <1>k, <2>2, RecordAt DEF Raws
  <2>4. e.action = Head(call.plan)
    BY DEF Linked, Blank
  <2>5. Len(Intents) = Len(Raws) + 1 /\ Len(Analyses) = Len(Raws)
    BY <1>f, <2>1 DEF SpendOK, PairedOK, Weighing, Failed
  <2>6. /\ \A k \in 1..Len(Raws) : Raws[k].action = Intents[k].action
        /\ Intents[Len(Intents)].action = Head(call.plan)
    BY <2>1 DEF PairedOK, Failed
  <2> HIDE DEF e
  <2>7. \A k \in 1..Len(Raws') : Raws'[k].action = Intents[k].action
    <3>1. ASSUME NEW k \in 1..(Len(Raws) + 1) PROVE Raws'[k].action = Intents[k].action
      <4>1. CASE k \in 1..Len(Raws)
        BY <2>3, <2>6, <4>1
      <4>2. CASE k = Len(Raws) + 1
        BY <2>3, <2>4, <2>5, <2>6, <4>2
      <4> QED BY <1>f, <4>1, <4>2
    <3> QED BY <2>3, <3>1
  <2>8. Len(Analyses) = Len(Raws') - 1
    BY <1>f, <2>3, <2>5
  <2> QED BY <2>1, <2>7, <2>8 DEF PairedOK, Failed, Weighing
<1>4. CASE RecordAnalysis
  <2> DEFINE e == AnalysisEvent
  <2>1. /\ UNCHANGED <<Intents, Raws, store["run_started"], transitions>>
        /\ pc = "record_analysis" /\ pc' = "record_observed" /\ phase = "execution"
        /\ phase' \in {"execution", "revision"}
    BY <1>4, <1>f, <1>w
       DEF RecordIntent, RecordRunStarted, RecordRaw, RecordAnalysis, RecordFinished,
           ControlOK, control, theory
  <2>2. e \in Event /\ Record("transition_analysis", e)
    <3>1. program \in Nat
      BY <1>f DEF TypeOK
    <3> QED BY <1>4, <1>f, <3>1, EventTypes DEF RecordAnalysis, AppendAnalysis, AnalysisEvent
  <2>3. /\ Len(Analyses') = Len(Analyses) + 1 /\ Analyses'[Len(Analyses) + 1] = e
        /\ \A i \in 1..Len(Analyses) : Analyses'[i] = Analyses[i]
    BY <1>f, <1>k, <2>2, RecordAt DEF Analyses
  <2>4. e.model = program /\ e.plan = call.planId
    BY DEF AnalysisEvent, Linked, Blank
  <2>5. Len(Intents) = Len(Raws) /\ Len(Analyses) = Len(Raws) - 1
    BY <1>f, <2>1 DEF SpendOK, PairedOK, Weighing, Failed
  <2>6. /\ \A k \in 1..Len(Analyses) :
             Intents[k].model = Analyses[k].model /\ Intents[k].plan = Analyses[k].plan
        /\ Intents[Len(Intents)].model = program /\ Intents[Len(Intents)].plan = call.planId
        /\ \A k \in 1..Len(Raws) : Raws[k].action = Intents[k].action
    BY <2>1 DEF PairedOK, Failed, Weighing
  <2> HIDE DEF e
  <2>7. \A k \in 1..Len(Analyses') :
          Intents[k].model = Analyses'[k].model /\ Intents[k].plan = Analyses'[k].plan
    <3>1. ASSUME NEW k \in 1..(Len(Analyses) + 1)
          PROVE  Intents[k].model = Analyses'[k].model /\ Intents[k].plan = Analyses'[k].plan
      <4>1. CASE k \in 1..Len(Analyses)
        BY <2>3, <2>6, <4>1
      <4>2. CASE k = Len(Analyses) + 1
        <5>1. k = Len(Intents)
          BY <1>f, <2>5, <4>2
        <5> QED BY <2>3, <2>4, <2>6, <4>2, <5>1
      <4> QED BY <1>f, <4>1, <4>2
    <3> QED BY <2>3, <3>1
  <2>8. Len(Analyses') = Len(Raws)
    BY <1>f, <2>3, <2>5
  <2>9. Len(store["run_started"]) = 1
    BY <2>1 DEF PairedOK, Failed
  <2> QED BY <2>1, <2>6, <2>7, <2>8, <2>9 DEF PairedOK, Failed, Weighing
<1>5. CASE RecordFinished
  <2>1. /\ UNCHANGED <<Intents, Raws, Analyses, store["run_started"], transitions>>
        /\ pc = "record_finished" /\ pc' = "complete" /\ phase \notin Failed
        /\ phase' = "finished"
    BY <1>5, <1>f, <1>w
       DEF RecordIntent, RecordRunStarted, RecordRaw, RecordAnalysis, RecordFinished,
           ControlOK, Terminal, Failed
  <2> QED BY <2>1 DEF PairedOK, Failed, Weighing
<1>6. CASE EnvStep \/ Compare
  <2>1. /\ UNCHANGED <<Intents, Raws, Analyses, store["run_started"], transitions, phase, program>>
        /\ pc \in {"env_step", "compare"} /\ phase = "execution"
        /\ pc' = IF pc = "compare" THEN "record_analysis" ELSE "record_raw"
    BY <1>6, <1>f DEF EnvStep, Compare, ControlOK, control, theory, Intents, Raws, Analyses
  <2>2. call'.plan = call.plan /\ call'.planId = call.planId
    <3>1. CASE EnvStep
      <4>1. PICK s \in Status, v \in Verdict : call' = [call EXCEPT !.status = s, !.verdict = v]
        BY <3>1 DEF EnvStep
      <4> QED BY <1>f, <4>1, CallPlan
    <3>2. CASE Compare
      BY <3>2 DEF Compare
    <3> QED BY <1>6, <3>1, <3>2
  <2>3. /\ Len(store["run_started"]) = 1
        /\ \A k \in 1..Len(Raws) : Raws[k].action = Intents[k].action
        /\ \A k \in 1..Len(Analyses) :
             Intents[k].model = Analyses[k].model /\ Intents[k].plan = Analyses[k].plan
    BY <2>1 DEF PairedOK, Failed
  <2>4. /\ Intents[Len(Intents)].action = Head(call.plan)
        /\ Intents[Len(Intents)].model = program
        /\ Intents[Len(Intents)].plan = call.planId
    BY <2>1 DEF PairedOK, Failed, Weighing
  <2>5. Len(Analyses) = IF pc = "compare" THEN Len(Raws) - 1 ELSE Len(Raws)
    BY <2>1 DEF PairedOK, Failed, Weighing
  <2>6. /\ pc = "compare" => pc' \in Weighing
        /\ pc = "env_step" => pc' \notin Weighing
        /\ pc \in {"compare", "env_step"}
    BY <2>1 DEF Weighing
  <2>7. Len(Analyses') = IF pc' \in Weighing THEN Len(Raws') - 1 ELSE Len(Raws')
    BY <2>1, <2>5, <2>6
  <2>8. LET last == Intents'[Len(Intents')]
        IN  last.action = Head(call'.plan) /\ last.model = program' /\ last.plan = call'.planId
    BY <2>1, <2>2, <2>4
  <2> QED BY <2>1, <2>3, <2>7, <2>8 DEF PairedOK
<1>7. CASE UNCHANGED vars \/ Halted
  BY <1>7 DEF vars, Halted, PairedOK, Intents, Raws, Analyses, control, theory
<1>8. ASSUME ~RecordRunStarted, ~RecordIntent, ~RecordRaw, ~RecordAnalysis, ~RecordFinished,
             ~EnvStep, ~Compare, ~Halted, ~(UNCHANGED vars)
      PROVE  PairedOK'
  <2>1. UNCHANGED <<Raws, Intents, Analyses, store["run_started"], transitions>>
    BY <1>8, <1>w
  <2>2. /\ phase \notin Failed /\ pc \notin Weighing
        /\ pc' \notin {"env_step", "record_raw"} \cup Weighing
        /\ Unstarted' <=> Unstarted
    <3> USE DEF Failed, Weighing, Unstarted, Terminal
    <3>1. CASE Advance \/ RecordCompleted \/ Complete
      BY <1>f, <3>1 DEF Advance, CanAdvance, RecordCompleted, Complete, Leave, ControlOK, control
    <3>2. CASE RecordStarted
      BY <1>f, <3>2 DEF RecordStarted, Entry, Exhausted, ControlOK, control, TypeOK, Phase
    <3>3. CASE EnvStart \/ RecordInitial
      BY <1>f, <3>3 DEF EnvStart, RecordInitial, ControlOK, control
    <3>4. CASE Revise \/ RecordModelExecuted \/ ChoosePlan \/ RecordCertified \/ RecordCommitted
      BY <1>f, <3>4 DEF Revise, RecordModelExecuted, ChoosePlan, RecordCertified,
         RecordCommitted, ControlOK, control
    <3>5. CASE RecordObserved \/ RecordInvalidated
      <4>1. /\ pc \in {"record_observed", "record_invalidated"}
            /\ Settle \/ (UNCHANGED phase /\ pc' = "record_invalidated")
        BY <3>5 DEF RecordObserved, RecordInvalidated
      <4>2. phase \in {"execution", "revision"}
        BY <1>f, <4>1 DEF ControlOK
      <4> QED BY <1>f, <4>1, <4>2, SettleFacts
    <3>6. CASE Raise \/ EnvStepLost \/ RaiseUnknown \/ RecordUnknown \/ RecordFailed
               \/ RecordRunError \/ FinishUnreleased
      <4>1. phase' \in Failed
        BY <1>f, <3>6 DEF Raise, EnvStepLost, RaiseUnknown, RecordUnknown, RecordFailed,
           RecordRunError, FinishUnreleased, Throw, FailPhase, ControlOK, control
      <4> QED BY <4>1
    <3>7. CASE Unwind
      <4>1. UNCHANGED phase /\ pc \in {"record_completed", "record_failed", "record_run_error"}
            /\ pc' = "idle"
        BY <3>7 DEF Unwind, CloseRaises, Leave
      <4> QED BY <1>f, <4>1 DEF ControlOK
    <3> QED BY <1>8, <3>1, <3>2, <3>3, <3>4, <3>5, <3>6, <3>7 DEF Next, Step
  <2> QED BY <2>1, <2>2, PairedFrame
<1> QED BY <1>1, <1>2, <1>3, <1>4, <1>5, <1>6, <1>7, <1>8

\* A finish is recorded when every action is on record, and nothing is recorded after it
\* that the audit pairs.
LEMMA FinishedStep == JInv /\ PairedOK /\ FinishedOK /\ [Next]_vars => FinishedOK'
<1> SUFFICES ASSUME JInv, PairedOK, FinishedOK, [Next]_vars PROVE FinishedOK'
  OBVIOUS
<1>f. TypeOK /\ ControlOK /\ SpendOK /\ EndOK
  BY DEF JInv, IInv
<1>w. /\ ~RecordIntent => UNCHANGED Intents
      /\ ~RecordRaw => UNCHANGED Raws
      /\ ~RecordAnalysis => UNCHANGED Analyses
      /\ ~RecordRunStarted => UNCHANGED store["run_started"]
      /\ ~RecordFinished /\ ~FinishUnreleased => UNCHANGED store["run_finished"]
  BY <1>f, WritesApart
<1>1. CASE RecordFinished \/ FinishUnreleased
  <2>1. pc = "record_finished" /\ phase \notin Failed
    BY <1>1, <1>f DEF RecordFinished, FinishUnreleased, ControlOK, Terminal, Failed
  <2>2. UNCHANGED <<Intents, Raws, Analyses, store["run_started"]>>
    BY <1>w, <2>1 DEF RecordIntent, RecordRaw, RecordAnalysis, RecordRunStarted
  <2>3. /\ Len(Intents) = Len(Raws) /\ Len(Analyses) = Len(Raws)
        /\ Len(store["run_started"]) = 1
    BY <1>f, <2>1 DEF SpendOK, PairedOK, Failed, Weighing
  <2>4. \A k \in 1..Len(Raws) :
          /\ Raws[k].action = Intents[k].action
          /\ Intents[k].model = Analyses[k].model /\ Intents[k].plan = Analyses[k].plan
    BY <2>1, <2>3 DEF PairedOK
  <2> QED BY <2>2, <2>3, <2>4 DEF FinishedOK
<1>2. CASE ~RecordFinished /\ ~FinishUnreleased
  <2>1. CASE Len(store["run_finished"]) = 0
    BY <1>2, <1>w, <2>1 DEF FinishedOK
  <2>2. CASE Len(store["run_finished"]) # 0
    <3>1. pc \in Closing
      BY <1>f, <2>2 DEF EndOK
    <3>2. UNCHANGED <<Intents, Raws, Analyses, store["run_started"]>>
      BY <1>w, <3>1 DEF RecordIntent, RecordRaw, RecordAnalysis, RecordRunStarted, Closing
    <3> QED BY <1>2, <1>w, <2>2, <3>2 DEF FinishedOK
  <2> QED BY <2>1, <2>2
<1> QED BY <1>1, <1>2

\* What a run on record as finished left in the store passes the audit.
LEMMA AuditPasses ==
    ASSUME JInv, FinishedOK
    PROVE  FinishedRunPassesAudit
<1> SUFFICES ASSUME store["run_finished"] # <<>>, transitions # <<>>
             PROVE  LifecycleCheck(store) /\ ExecutionCheck(store)
  BY DEF FinishedRunPassesAudit
<1>f. /\ TypeOK /\ SpendOK /\ EndOK
      /\ Len(Raws) \in Nat /\ Len(Intents) \in Nat /\ Len(Analyses) \in Nat
      /\ Len(transitions) \in Nat /\ Len(transitions) # 0
      /\ Raws \in Seq(Event) /\ Intents \in Seq(Event) /\ Analyses \in Seq(Event)
      /\ store["run_finished"] \in Seq(Event)
  BY FieldTypes, EmptySeq DEF JInv, IInv, TypeOK, Raws, Intents, Analyses, Kind
<1>1. Len(store["run_finished"]) # 0
  BY <1>f, EmptySeq
<1>2. Len(store["run_finished"]) = 1 /\ Accounted
  <2> DEFINE n == Len(store["run_finished"])
  <2>1. n # 0 /\ n <= 1 /\ Accounted
    BY <1>f, <1>1, Zenon DEF EndOK
  <2>2. n \in Nat
    BY <1>f, LenProperties
  <2>3. n = 1
    <3> HIDE DEF n
    <3> QED BY <2>1, <2>2
  <2> QED BY <2>1, <2>3
<1>3. /\ Len(store["run_started"]) = 1
      /\ Len(Intents) = Len(Raws) /\ Len(Analyses) = Len(Raws)
      /\ \A k \in 1..Len(Raws) :
           /\ Raws[k].action = Intents[k].action
           /\ Intents[k].model = Analyses[k].model /\ Intents[k].plan = Analyses[k].plan
  BY <1>1 DEF FinishedOK
<1>4. Len(transitions) = Len(Raws)
  BY <1>f DEF SpendOK
<1>5. LifecycleCheck(store)
  <2>1. store["run_finished"][1].at = Len(Raws)
    BY <1>2, <1>3 DEF Accounted
  <2> QED BY <1>f, <1>2, <1>3, <1>4, <2>1 DEF LifecycleCheck
<1>6. Raws # <<>> /\ Intents # <<>> /\ Analyses # <<>>
  BY <1>f, <1>3, <1>4, EmptySeq
<1>7. \A k \in 1..Len(Raws) : k <= Len(Intents) /\ k <= Len(Analyses)
  BY <1>f, <1>3
<1>8. ExecutionCheck(store)
  BY <1>3, <1>6, <1>7 DEF ExecutionCheck, Raws, Intents, Analyses
<1> QED BY <1>5, <1>8

\* A run on record as finished after a real action passes the audit's checks of the
\* controller's evidence, whatever failed on the way or after (audit.py:79 and 296).
THEOREM AuditCorrect == Spec => []FinishedRunPassesAudit
<1> DEFINE AInv == JInv /\ PairedOK /\ FinishedOK
<1>1. Init => AInv
  <2> SUFFICES ASSUME Init PROVE PairedOK /\ FinishedOK
    BY JudgedInit
  <2>1. /\ Raws = <<>> /\ Intents = <<>> /\ Analyses = <<>> /\ store["run_started"] = <<>>
        /\ store["run_finished"] = <<>> /\ phase = "start" /\ pc = "idle"
    BY DEF Init, Raws, Intents, Analyses, Kind
  <2> QED BY <2>1, EmptySeq DEF PairedOK, FinishedOK, Weighing
<1>2. AInv /\ [Next]_vars => AInv'
  BY InvNext, CallStep, JudgedStep, SeenStep, EndsStep, PairedStep, FinishedStep DEF JInv
<1>3. AInv => FinishedRunPassesAudit
  BY AuditPasses
<1> QED BY <1>1, <1>2, <1>3, PTL DEF Spec
=============================================================================
