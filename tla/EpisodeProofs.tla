--------------------------- MODULE EpisodeProofs ---------------------------
(***************************************************************************)
(* Proofs about Episode for every budget, plan length and set of faults.   *)
(*                                                                         *)
(* Neither TypeOK nor SpendAccounted is inductive: the head of a plan is   *)
(* an action only where the plan is not empty, and an intent is one ahead  *)
(* of the recorded outcomes only at two places of the executor.  IInv adds *)
(* what each place in the code may rely on.                                *)
(*                                                                         *)
(* The second half is about what an episode knows: where a call of         *)
(* advance() stands in its phase, which transitions the committed model    *)
(* reproduces, what the game was last seen to be, and what ends a run.     *)
(* JInv adds these to IInv; from it follow the phase graph, the account of *)
(* evidence and theory, the justification of every real action and the     *)
(* verdict of a run.                                                       *)
(***************************************************************************)
EXTENDS Episode, SequenceTheorems, TLAPS

ExecutionLabel == {"record_intent", "env_step", "record_raw", "compare",
                   "record_analysis", "record_observed", "record_invalidated"}
Failed         == {"error", "outcome_unknown"}

\* The phase each place of the code belongs to.
ControlOK ==
    /\ activePhase = "none" <=> pc = "idle"
    /\ pc \in {"env_start", "record_run_started", "record_initial"} => phase = "start"
    /\ pc \in {"revise", "record_model_executed"} => phase \in {"induction", "revision"}
    /\ pc \in {"plan", "record_certified", "record_committed"} => phase = "planning"
    /\ pc \in {"record_intent", "env_step", "record_raw", "compare", "record_analysis"}
         => phase = "execution"
    /\ pc \in {"record_observed", "record_invalidated"}
         => phase = IF Surprised THEN "revision" ELSE "execution"
    /\ pc = "record_started" => phase \notin Terminal
    /\ pc = "record_finished" => phase \notin Terminal /\ call.reason \in Reason
    /\ pc = "record_unknown" => phase = "outcome_unknown"
    /\ pc \in {"record_failed", "record_run_error"} => phase \in Failed
    /\ pc \in {"complete", "record_completed"} => phase \notin Failed \cup {"start"}

\* What has been observed, and where a plan is at hand.
PlanOK ==
    /\ phase \in {"induction", "planning", "execution", "revision"} => observation \in Status
    /\ pc \in {"record_run_started", "record_initial"} => call.status \in Status
    /\ pc \in ExecutionLabel \ {"record_intent", "env_step"} => call.status \in Status
    /\ phase = "execution"
       /\ pc \in {"idle", "record_started", "complete", "record_completed"}
         => pendingPlan # <<>>
    /\ pc \in ExecutionLabel \cup {"record_certified", "record_committed", "record_unknown"}
         => call.plan # <<>>
    /\ call.intended => call.plan # <<>>

\* How far the intents are ahead of the recorded outcomes.
SpendOK ==
    /\ Len(transitions) = Len(Raws)
    /\ Len(Intents) <= Budget
    /\ pc \in {"plan", "record_intent"} => Len(transitions) < Budget
    /\ CASE phase \in Failed    -> /\ Len(Raws) <= env.spent /\ env.spent <= Len(Intents)
                                   /\ Len(Intents) <= Len(Raws) + 1
         [] pc = "env_step"     -> env.spent = Len(Raws) /\ Len(Intents) = Len(Raws) + 1
         [] pc = "record_raw"   -> env.spent = Len(Raws) + 1 /\ Len(Intents) = Len(Raws) + 1
         [] OTHER               -> env.spent = Len(Raws) /\ Len(Intents) = Len(Raws)

IInv == TypeOK /\ ControlOK /\ PlanOK /\ SpendOK

-----------------------------------------------------------------------------
(* What the helpers of the actions do                                      *)

LEMMA BlankType == Blank \in Event
BY DEF Blank, Event

\* A record appends its event to the events of its kind and touches no other kind.
LEMMA RecordAppends ==
    ASSUME NEW k \in Kind, NEW e \in Event, store \in [Kind -> Seq(Event)],
           Record(k, e)
    PROVE  /\ store' \in [Kind -> Seq(Event)]
           /\ Len(store'[k]) = Len(store[k]) + 1
           /\ store'[k][Len(store[k]) + 1] = e
           /\ \A j \in Kind \ {k} : store'[j] = store[j]
<1>1. /\ Append(store[k], e) \in Seq(Event) /\ Len(Append(store[k], e)) = Len(store[k]) + 1
      /\ Append(store[k], e)[Len(store[k]) + 1] = e
  BY AppendProperties
<1> QED BY <1>1 DEF Record

\* Every plan of the service is a sequence of actions, and not empty.
LEMMA PlansType ==
    ASSUME NEW s, NEW p \in Plans(s)
    PROVE  p \in Seq(Action) /\ p # <<>>
<1>1. CASE s = "GAME_OVER"
  <2>1. p = <<"RESET">> /\ "RESET" \in Action
    BY <1>1 DEF Plans, Action
  <2>2. \A a \in Action : <<a>> \in Seq(Action) /\ <<a>> # <<>>
    OBVIOUS
  <2> QED BY <2>1, <2>2
<1>2. CASE s # "GAME_OVER"
  <2>1. PICK n \in 1..MaxPlan : p \in [1..n -> Action]
    BY <1>2 DEF Plans
  <2>2. n \in Nat /\ n > 0
    BY <2>1, MaxPlanAssumption
  <2>3. p \in Seq(Action)
    BY <2>1, <2>2, SeqDef
  <2>4. Len(p) = n
    BY <2>1, <2>2, <2>3, LenProperties
  <2> QED BY <2>2, <2>3, <2>4
<1> QED BY <1>1, <1>2

\* Clipping to a budget that is not exhausted leaves a plan.
LEMMA ClipType ==
    ASSUME TypeOK, NEW s, NEW p \in Plans(s), Remaining > 0
    PROVE  Clip(p) \in Seq(Action) /\ Clip(p) # <<>>
<1>1. p \in Seq(Action) /\ p # <<>>
  BY PlansType
<1>2. Remaining \in Nat
  BY BudgetAssumption, LenProperties DEF Remaining, TypeOK
<1>3. CASE Len(p) > Remaining
  <2>1. /\ SubSeq(p, 1, Remaining) \in Seq(Action)
        /\ Len(SubSeq(p, 1, Remaining)) = Remaining
    BY <1>1, <1>2, <1>3, SubSeqProperties
  <2> QED BY <2>1, <1>2, <1>3 DEF Clip
<1>4. CASE ~(Len(p) > Remaining)
  BY <1>1, <1>4 DEF Clip
<1> QED BY <1>3, <1>4


\* The locals after an update of one of them.
LEMMA CallUpdates ==
    ASSUME call \in Call
    PROVE  /\ NoCall \in Call
           /\ \A s \in Status : [call EXCEPT !.status = s] \in Call
           /\ \A s \in Status, v \in Verdict :
                 [call EXCEPT !.status = s, !.verdict = v] \in Call
           /\ \A r \in Reason : [call EXCEPT !.reason = r] \in Call
           /\ \A n \in Nat : [call EXCEPT !.program = n] \in Call
           /\ \A p \in Seq(Action) : [call EXCEPT !.plan = p] \in Call
           /\ [call EXCEPT !.intended = TRUE] \in Call
           /\ [NoCall EXCEPT !.reason = "action_budget"] \in Call
           /\ \A p \in Seq(Action), i, n \in Nat :
                 [NoCall EXCEPT !.plan = p, !.planId = i, !.before = n] \in Call
<1>1. NoCall \in Call
  BY DEF NoCall, Call, Verdict
<1>2. \A s \in Status : [call EXCEPT !.status = s] \in Call
  BY DEF Call
<1>3. \A s \in Status, v \in Verdict : [call EXCEPT !.status = s, !.verdict = v] \in Call
  BY DEF Call
<1>4. \A c \in Call, r \in Reason : [c EXCEPT !.reason = r] \in Call
  BY DEF Call
<1>5. \A n \in Nat : [call EXCEPT !.program = n] \in Call
  BY DEF Call
<1>6. \A p \in Seq(Action) : [call EXCEPT !.plan = p] \in Call
  BY DEF Call
<1>7. [call EXCEPT !.intended = TRUE] \in Call
  BY DEF Call
<1>8. [NoCall EXCEPT !.reason = "action_budget"] \in Call
  BY <1>1, <1>4 DEF Reason
<1>9. \A p \in Seq(Action), i, n \in Nat :
         [NoCall EXCEPT !.plan = p, !.planId = i, !.before = n] \in Call
  BY DEF NoCall, Call, Verdict
<1> QED BY <1>1, <1>2, <1>3, <1>4, <1>5, <1>6, <1>7, <1>8, <1>9

\* What the state holds, field by field.
LEMMA FieldTypes ==
    ASSUME TypeOK
    PROVE  /\ call.plan \in Seq(Action) /\ call.planId \in Nat /\ call.program \in Nat
           /\ call.status \in Status \cup {"none"} /\ call.verdict \in Verdict
           /\ call.reason \in Reason \cup {"none"} /\ call.intended \in BOOLEAN
           /\ call.before \in Nat
           /\ env.spent \in Nat /\ env.status \in Status \cup {"none"}
           /\ Len(call.plan) \in Nat /\ Len(transitions) \in Nat
           /\ \A k \in Kind : store[k] \in Seq(Event) /\ Len(store[k]) \in Nat
<1>1. /\ call.plan \in Seq(Action) /\ call.planId \in Nat /\ call.program \in Nat
      /\ call.status \in Status \cup {"none"} /\ call.verdict \in Verdict
      /\ call.reason \in Reason \cup {"none"} /\ call.intended \in BOOLEAN
      /\ call.before \in Nat
  BY DEF TypeOK, Call
<1>2. env.spent \in Nat /\ env.status \in Status \cup {"none"}
  BY DEF TypeOK, Game
<1>3. \A k \in Kind : store[k] \in Seq(Event)
  BY DEF TypeOK
<1>4. \A k \in Kind : Len(store[k]) \in Nat
  BY <1>3, LenProperties
<1>5. Len(call.plan) \in Nat /\ Len(transitions) \in Nat
  BY <1>1, LenProperties DEF TypeOK
<1> QED BY <1>1, <1>2, <1>3, <1>4, <1>5

\* Every event the controller writes is an event.
LEMMA EventUpdates ==
    /\ \A v, n \in Nat : [Blank EXCEPT !.version = v, !.at = n] \in Event
    /\ \A v, n \in Nat : [Blank EXCEPT !.model = v, !.at = n] \in Event
    /\ \A v, n \in Nat : [Blank EXCEPT !.at = n, !.model = v] \in Event
BY DEF Blank, Event

LEMMA EventTypes ==
    ASSUME TypeOK
    PROVE  /\ PlanEvent \in Event
           /\ \A a \in Action \cup {"none"}, n, v \in Nat :
                 /\ [Linked(a) EXCEPT !.model = v] \in Event
                 /\ [Linked(a) EXCEPT !.at = n] \in Event
                 /\ [Linked(a) EXCEPT !.model = v, !.at = n] \in Event
<1>1. /\ program \in Nat /\ stateVersion \in Nat /\ call.planId \in Nat
      /\ Len(transitions) \in Nat /\ Len(store["plan_committed"]) \in Nat
  BY FieldTypes DEF TypeOK, Kind
<1>2. PlanEvent \in Event
  <2>1. \A e \in Event, m, p, v, n \in Nat :
          [e EXCEPT !.model = m, !.plan = p, !.version = v, !.at = n] \in Event
    BY DEF Event
  <2>2. Len(store["plan_committed"]) + 1 \in Nat
    BY <1>1
  <2> QED BY <1>1, <2>1, <2>2, BlankType DEF PlanEvent
<1>3. \A a \in Action \cup {"none"} : Linked(a) \in Event
  BY <1>1 DEF Linked, Blank, Event
<1>4. \A e \in Event, n, v \in Nat : /\ [e EXCEPT !.model = v] \in Event
                                   /\ [e EXCEPT !.at = n] \in Event
                                   /\ [e EXCEPT !.model = v, !.at = n] \in Event
  BY DEF Event
<1> QED BY <1>2, <1>3, <1>4

-----------------------------------------------------------------------------
(* Types                                                                   *)

\* One step keeps the types, given what the step's place in the code relies on.
LEMMA TypeStep == IInv /\ [Next]_vars => TypeOK'
<1> SUFFICES ASSUME IInv, [Next]_vars PROVE TypeOK'
  OBVIOUS
<1>f. TypeOK /\ ControlOK /\ PlanOK /\ SpendOK
  BY DEF IInv
<1>v. /\ program \in Nat /\ stateVersion \in Nat /\ revisionCount + 1 \in Nat
      /\ revisionCount \in Nat /\ modelState + 1 \in Nat
      /\ Len(transitions) \in Nat /\ Len(transitions) + 1 \in Nat
  BY <1>f, FieldTypes DEF TypeOK
<1>c. /\ call.plan \in Seq(Action) /\ call.program \in Nat
      /\ call.status \in Status \cup {"none"} /\ call.reason \in Reason \cup {"none"}
  BY <1>f, FieldTypes
<1>d. Disposition \in Reason \cup {"revise", "game_over", "replan", "continue"}
  BY DEF Disposition, Reason
<1>e. <<>> \in Seq(Action) /\ 0 \in Nat
  OBVIOUS
<1>1. CASE Advance
  BY <1>1, <1>f DEF Advance, TypeOK, control, theory, pending, Phase, Terminal, Label
<1>2. CASE RecordStarted
  <2>1. [Blank EXCEPT !.version = stateVersion, !.at = Len(transitions)] \in Event
    BY <1>v, EventUpdates
  <2>2. store' \in [Kind -> Seq(Event)]
    BY <1>2, <1>f, <2>1, RecordAppends DEF RecordStarted, TypeOK, Kind
  <2>3. call' \in Call
    BY <1>2, <1>f, <1>v, FieldTypes, CallUpdates DEF TypeOK, RecordStarted, Locals
  <2>4. pc' \in Label
    BY <1>2, <1>f DEF RecordStarted, ControlOK, TypeOK, Entry, Phase, Terminal, Label
  <2> QED BY <1>2, <1>f, <2>2, <2>3, <2>4
             DEF RecordStarted, TypeOK, control, theory, pending
<1>3. CASE Complete
  BY <1>3, <1>f DEF Complete, TypeOK, control, theory, pending, Phase, Terminal, Label
<1>4. CASE RecordCompleted
  <2>1. [Blank EXCEPT !.version = stateVersion, !.at = Len(transitions)] \in Event
    BY <1>v, EventUpdates
  <2>2. store' \in [Kind -> Seq(Event)]
    BY <1>4, <1>f, <2>1, RecordAppends DEF RecordCompleted, TypeOK, Kind
  <2>3. call' \in Call
    BY <1>4, <1>f, <1>v, FieldTypes, CallUpdates DEF TypeOK, RecordCompleted, Leave
  <2> QED BY <1>4, <1>f, <1>v, <2>2, <2>3
             DEF RecordCompleted, Leave, NoCall, TypeOK, control, theory, pending, Phase,
                 Terminal, Label
<1>5. CASE EnvStart
  <2>1. PICK s \in Status : /\ env' = [env EXCEPT !.status = s]
                           /\ call' = [call EXCEPT !.status = s]
    BY <1>5 DEF EnvStart
  <2>2. call' \in Call
    BY <1>f, <2>1, CallUpdates DEF TypeOK
  <2>3. env' \in Game
    BY <1>f, <2>1 DEF TypeOK, Game
  <2> QED BY <1>5, <1>f, <2>2, <2>3 DEF EnvStart, TypeOK, control, theory, pending, Label
<1>6. CASE RecordRunStarted
  <2>1. Blank \in Event
    BY BlankType
  <2>2. store' \in [Kind -> Seq(Event)]
    BY <1>6, <1>f, <2>1, RecordAppends DEF RecordRunStarted, TypeOK, Kind
  <2> QED BY <1>6, <1>f, <1>v, <2>1, <2>2
             DEF RecordRunStarted, TypeOK, control, theory, pending, Phase, Terminal, Label
<1>7. CASE RecordInitial
  <2>1. Blank \in Event
    BY BlankType
  <2>2. store' \in [Kind -> Seq(Event)]
    BY <1>7, <1>f, <2>1, RecordAppends DEF RecordInitial, TypeOK, Kind
  <2>3. call' \in Call
    BY <1>7, <1>f, CallUpdates DEF TypeOK, RecordInitial, Reason
  <2>4. phase' \in Phase /\ pc' \in Label /\ observation' \in Status \cup {"none"}
    BY <1>7, <1>f, <1>c DEF RecordInitial, TypeOK, Phase, Label
  <2> QED BY <1>7, <1>f, <2>2, <2>3, <2>4 DEF RecordInitial, TypeOK, theory, pending
<1>8. CASE Revise
  <2>1. call' \in Call
    BY <1>8, <1>f, <1>v, CallUpdates DEF TypeOK, Revise
  <2> QED BY <1>8, <1>f, <2>1 DEF Revise, TypeOK, control, theory, pending, Label
<1>9. CASE RecordModelExecuted
  <2>1. [Blank EXCEPT !.model = call.program, !.at = Len(transitions)] \in Event
    BY <1>v, <1>c, EventUpdates
  <2>2. store' \in [Kind -> Seq(Event)]
    BY <1>9, <1>f, <2>1, RecordAppends DEF RecordModelExecuted, TypeOK, Kind
  <2>3. call' \in Call
    BY <1>9, <1>f, CallUpdates DEF TypeOK, RecordModelExecuted
  <2>4. phase' \in Phase /\ pc' \in Label
    BY <1>9, <1>f DEF RecordModelExecuted, TypeOK, Phase, Label
  <2>5. 1..Len(transitions) \in SUBSET Nat /\ FALSE \in BOOLEAN
    OBVIOUS
  <2>6. /\ program' \in Nat /\ modelState' \in Nat /\ explains' \in SUBSET Nat
        /\ revisionCount' \in Nat /\ latestMismatch' \in BOOLEAN
        /\ finishAfterRevision' \in Reason \cup {"none"}
    BY <1>9, <1>v, <1>c, <2>5 DEF RecordModelExecuted, CommitModel
  <2> QED BY <1>9, <1>f, <2>2, <2>3, <2>4, <2>6 DEF RecordModelExecuted, TypeOK, pending
<1>10. CASE ChoosePlan
  <2>1. PICK p \in Plans(observation) : call' = [call EXCEPT !.plan = Clip(p)]
    BY <1>10 DEF ChoosePlan
  <2>2. Remaining > 0
    BY <1>10, <1>f, <1>v, BudgetAssumption DEF ChoosePlan, SpendOK, Remaining
  <2>3. call' \in Call
    BY <1>f, <2>1, <2>2, ClipType, CallUpdates DEF TypeOK
  <2> QED BY <1>10, <1>f, <2>3 DEF ChoosePlan, TypeOK, control, theory, pending, Label
<1>11. CASE RecordCertified
  <2>1. PlanEvent \in Event
    BY <1>f, EventTypes
  <2>2. store' \in [Kind -> Seq(Event)]
    BY <1>11, <1>f, <2>1, RecordAppends DEF RecordCertified, TypeOK, Kind
  <2> QED BY <1>11, <1>f, <1>v, <2>1, <2>2
             DEF RecordCertified, TypeOK, control, theory, pending, Phase, Terminal, Label
<1>12. CASE RecordCommitted
  <2>1. PlanEvent \in Event
    BY <1>f, EventTypes
  <2>2. store' \in [Kind -> Seq(Event)]
    BY <1>12, <1>f, <2>1, RecordAppends DEF RecordCommitted, TypeOK, Kind
  <2>3. pendingPlan' \in Seq(Action) /\ pendingPlanId' \in Nat
    BY <1>12, <1>c, <2>1 DEF RecordCommitted, Event
  <2> QED BY <1>12, <1>f, <2>2, <2>3 DEF RecordCommitted, TypeOK, theory, Phase, Label
<1>13. CASE RecordIntent
  <2>1. Head(call.plan) \in Action
    BY <1>13, <1>f, FieldTypes, HeadTailProperties DEF PlanOK, ExecutionLabel, RecordIntent
  <2>2. [Linked(Head(call.plan)) EXCEPT !.model = program] \in Event
    BY <1>f, <1>v, <2>1, EventTypes
  <2>3. store' \in [Kind -> Seq(Event)]
    BY <1>13, <1>f, <2>2, RecordAppends DEF RecordIntent, TypeOK, Kind
  <2>4. call' \in Call
    BY <1>13, <1>f, <1>v, FieldTypes, CallUpdates DEF TypeOK, RecordIntent
  <2> QED BY <1>13, <1>f, <1>v, <2>3, <2>4
             DEF RecordIntent, TypeOK, control, theory, pending, Phase, Terminal, Label
<1>14. CASE EnvStep
  <2>1. PICK s \in Status, v \in Verdict :
          Spend(s) /\ call' = [call EXCEPT !.status = s, !.verdict = v]
    BY <1>14 DEF EnvStep
  <2>2. call' \in Call
    BY <1>f, <2>1, CallUpdates DEF TypeOK
  <2>3. env' \in Game
    BY <1>f, <2>1 DEF TypeOK, Game, Spend
  <2> QED BY <1>14, <1>f, <2>2, <2>3 DEF EnvStep, TypeOK, control, theory, pending, Label
<1>15. CASE RecordRaw
  <2>1. Head(call.plan) \in Action
    BY <1>15, <1>f, <1>c, HeadTailProperties DEF PlanOK, ExecutionLabel, RecordRaw
  <2>2. [Linked(Head(call.plan)) EXCEPT !.at = Len(transitions) + 1] \in Event
    BY <1>f, <1>v, <2>1, EventTypes
  <2>3. store' \in [Kind -> Seq(Event)]
    BY <1>15, <1>f, <2>2, RecordAppends DEF RecordRaw, TypeOK, Kind
  <2>4. [action |-> Head(call.plan), before |-> observation, after |-> call.status]
          \in Transition
    BY <1>15, <1>f, <2>1 DEF RecordRaw, PlanOK, ControlOK, ExecutionLabel, Transition
  <2>5. transitions' \in Seq(Transition)
    BY <1>15, <1>f, <2>4, AppendProperties DEF RecordRaw, TypeOK
  <2> QED BY <1>15, <1>f, <2>3, <2>5 DEF RecordRaw, TypeOK, control, theory, pending, Label
<1>16. CASE Compare
  BY <1>16, <1>f DEF Compare, TypeOK, control, theory, pending, Phase, Terminal, Label
<1>17. CASE RecordAnalysis
  <2>1. AnalysisEvent \in Event
    BY <1>f, <1>v, EventTypes DEF AnalysisEvent
  <2>2. store' \in [Kind -> Seq(Event)]
    BY <1>17, <1>f, <2>1, RecordAppends DEF RecordAnalysis, TypeOK, Kind, AppendAnalysis
  <2>3. observation' \in Status \cup {"none"} /\ explains' \in SUBSET Nat
    BY <1>17, <1>f, <1>v, <1>c DEF RecordAnalysis, TypeOK
  <2>4. /\ phase' \in Phase /\ latestMismatch' \in BOOLEAN
        /\ finishAfterRevision' \in Reason \cup {"none"}
        /\ pendingPlan' \in Seq(Action) /\ pendingPlanId' \in Nat
    BY <1>17, <1>f, <1>e DEF RecordAnalysis, TypeOK, ClearPending, pending, Reason, Phase
  <2> QED BY <1>17, <1>f, <2>2, <2>3, <2>4 DEF RecordAnalysis, TypeOK, Label
<1>18. CASE RecordObserved
  <2>1. Head(call.plan) \in Action
    BY <1>18, <1>f, <1>c, HeadTailProperties DEF PlanOK, ExecutionLabel, RecordObserved
  <2>2. [Linked(Head(call.plan)) EXCEPT !.model = program] \in Event
    BY <1>f, <1>v, <2>1, EventTypes
  <2>3. store' \in [Kind -> Seq(Event)]
    BY <1>18, <1>f, <2>2, RecordAppends DEF RecordObserved, TypeOK, Kind
  <2>4. call' \in Call
    BY <1>18, <1>f, <1>d, CallUpdates DEF TypeOK, RecordObserved, Settle
  <2>5. Tail(call.plan) \in Seq(Action)
    BY <1>18, <1>f, <1>c, HeadTailProperties DEF PlanOK, ExecutionLabel, RecordObserved
  <2>6. /\ pendingPlan' \in Seq(Action) /\ pendingPlanId' \in Nat
        /\ modelState' \in Nat /\ phase' \in Phase /\ pc' \in Label
    BY <1>18, <1>f, <1>v, <1>d, <1>e, <2>5
       DEF TypeOK, RecordObserved, Settle, Reason, ClearPending, pending, Phase, Label
  <2> QED BY <1>18, <1>f, <2>3, <2>4, <2>6 DEF RecordObserved, TypeOK
<1>19. CASE RecordInvalidated
  <2>1. Len(call.plan) - 1 \in Nat
    BY <1>19, <1>f, FieldTypes, EmptySeq DEF PlanOK, ExecutionLabel, RecordInvalidated
  <2>2. [Linked("none") EXCEPT !.model = program, !.at = Len(call.plan) - 1] \in Event
    BY <1>f, <1>v, <2>1, EventTypes
  <2>3. store' \in [Kind -> Seq(Event)]
    BY <1>19, <1>f, <2>2, RecordAppends DEF RecordInvalidated, TypeOK, Kind
  <2>4. call' \in Call
    BY <1>19, <1>f, <1>d, CallUpdates DEF TypeOK, RecordInvalidated, Settle
  <2>5. Tail(call.plan) \in Seq(Action)
    BY <1>19, <1>f, <1>c, HeadTailProperties DEF PlanOK, ExecutionLabel, RecordInvalidated
  <2>6. /\ pendingPlan' \in Seq(Action) /\ pendingPlanId' \in Nat
        /\ modelState' \in Nat /\ phase' \in Phase /\ pc' \in Label
    BY <1>19, <1>f, <1>v, <1>d, <1>e, <2>5
       DEF TypeOK, RecordInvalidated, Settle, Reason, ClearPending, pending, Phase, Label
  <2> QED BY <1>19, <1>f, <2>3, <2>4, <2>6 DEF RecordInvalidated, TypeOK
<1>20. CASE RecordFinished
  <2>1. [Blank EXCEPT !.at = Len(transitions), !.model = revisionCount] \in Event
    BY <1>v, EventUpdates
  <2>2. store' \in [Kind -> Seq(Event)]
    BY <1>20, <1>f, <2>1, RecordAppends DEF RecordFinished, AppendFinished, TypeOK, Kind
  <2>3. result' \in Result
    BY <1>20, <1>f, <1>v, <1>c DEF RecordFinished, TypeOK, Result
  <2> QED BY <1>20, <1>f, <1>e, <2>2, <2>3
           DEF RecordFinished, ClearPending, TypeOK, theory, Phase, Terminal, Label
<1>21. CASE Raise
  <2>1. CASE OutcomeLost
    BY <1>21, <1>f, <1>e, <2>1 DEF Raise, Throw, ClearPending, TypeOK, theory, Phase,
                               Terminal, Label
  <2>2. CASE ~OutcomeLost
    BY <1>21, <1>f, <1>v, <2>2 DEF Raise, Throw, FailPhase, pending, TypeOK, theory, Phase,
                               Terminal, Label
  <2> QED BY <2>1, <2>2
<1>22. CASE EnvStepLost
  <2>1. env' \in Game
    BY <1>22, <1>f DEF EnvStepLost, TypeOK, Game, Spend
  <2>2. CASE OutcomeLost
    BY <1>22, <1>f, <1>e, <2>1, <2>2
       DEF EnvStepLost, Throw, ClearPending, TypeOK, theory, Phase, Terminal, Label
  <2>3. CASE ~OutcomeLost
    BY <1>22, <1>f, <1>v, <2>1, <2>3
       DEF EnvStepLost, Throw, FailPhase, pending, TypeOK, theory, Phase, Terminal, Label
  <2> QED BY <2>2, <2>3
<1>23. CASE RecordUnknown
  <2>1. Head(call.plan) \in Action
    BY <1>23, <1>f, FieldTypes, HeadTailProperties DEF PlanOK, ExecutionLabel, RecordUnknown
  <2>2. [Linked(Head(call.plan)) EXCEPT !.model = program] \in Event
    BY <1>f, <1>v, <2>1, EventTypes
  <2>3. store' \in [Kind -> Seq(Event)]
    BY <1>23, <1>f, <2>2, RecordAppends DEF RecordUnknown, TypeOK, Kind
  <2> QED BY <1>23, <1>f, <1>v, <2>2, <2>3
             DEF RecordUnknown, TypeOK, control, theory, pending, Phase, Terminal, Label
<1>24. CASE RaiseUnknown
  BY <1>24, <1>f
     DEF RaiseUnknown, FailPhase, TypeOK, control, theory, pending, Phase, Terminal, Label
<1>25. CASE RecordFailed
  <2>1. [Blank EXCEPT !.version = stateVersion, !.at = Len(transitions)] \in Event
    BY <1>v, EventUpdates
  <2>2. store' \in [Kind -> Seq(Event)]
    BY <1>25, <1>f, <2>1, RecordAppends DEF RecordFailed, TypeOK, Kind
  <2> QED BY <1>25, <1>f, <1>v, <2>1, <2>2
             DEF RecordFailed, TypeOK, control, theory, pending, Phase, Terminal, Label
<1>26. CASE RecordRunError
  <2>1. Blank \in Event
    BY BlankType
  <2>2. store' \in [Kind -> Seq(Event)]
    BY <1>26, <1>f, <2>1, RecordAppends DEF RecordRunError, TypeOK, Kind
  <2>3. call' \in Call
    BY <1>26, <1>f, <1>v, FieldTypes, CallUpdates DEF TypeOK, RecordRunError, Leave
  <2> QED BY <1>26, <1>f, <1>v, <2>2, <2>3
             DEF RecordRunError, Leave, NoCall, TypeOK, control, theory, pending, Phase,
                 Terminal, Label
<1>27. CASE Unwind
  <2>1. call' \in Call
    BY <1>27, <1>f, <1>v, FieldTypes, CallUpdates DEF TypeOK, Unwind, CloseRaises, Leave
  <2> QED BY <1>27, <1>f, <1>v, <2>1
             DEF Unwind, CloseRaises, Leave, NoCall, TypeOK, control, theory, pending, Phase, Terminal,
                 Label
<1>28. CASE UNCHANGED vars
  BY <1>28, <1>f DEF vars, TypeOK, control, theory, pending
<1>29. CASE FinishUnreleased
  <2>1. [Blank EXCEPT !.at = Len(transitions), !.model = revisionCount] \in Event
    BY <1>v, EventUpdates
  <2>2. store' \in [Kind -> Seq(Event)]
    BY <1>29, <1>f, <2>1, RecordAppends DEF FinishUnreleased, AppendFinished, TypeOK, Kind
  <2> QED BY <1>29, <1>f, <1>v, <2>2
             DEF FinishUnreleased, FailPhase, TypeOK, theory, pending, Phase, Terminal, Label
<1> QED BY <1>1, <1>2, <1>3, <1>4, <1>5, <1>6, <1>7, <1>8, <1>9, <1>10, <1>11, <1>12, <1>13,
           <1>14, <1>15, <1>16, <1>17, <1>18, <1>19, <1>20, <1>21, <1>22, <1>23, <1>24,
           <1>25, <1>26, <1>27, <1>28, <1>29
           DEF Next, Step, Halted

-----------------------------------------------------------------------------
(* Control and plans                                                       *)

\* A step leads only to places that belong to the phase it leaves behind.
LEMMA ControlStep == IInv /\ [Next]_vars => ControlOK'
<1> SUFFICES ASSUME IInv, [Next]_vars PROVE ControlOK'
  OBVIOUS
<1> USE DEF ControlOK, control, theory, pending, TypeOK, Surprised, Terminal, Failed, Phase,
        Reason
<1>f. TypeOK /\ ControlOK /\ PlanOK /\ SpendOK
  BY DEF IInv
<1>1. CASE Advance
  BY <1>1, <1>f DEF Advance, CanAdvance
<1>2. CASE RecordStarted
  BY <1>2, <1>f DEF RecordStarted, Locals, NoCall, Entry, Exhausted
<1>3. CASE Complete
  BY <1>3, <1>f DEF Complete
<1>4. CASE RecordCompleted
  BY <1>4, <1>f DEF RecordCompleted, Leave, NoCall
<1>5. CASE EnvStart
  BY <1>5, <1>f DEF EnvStart
<1>6. CASE RecordRunStarted
  BY <1>6, <1>f DEF RecordRunStarted
<1>7. CASE RecordInitial
  <2>1. /\ [call EXCEPT !.reason = "terminal"].reason = "terminal"
        /\ [call EXCEPT !.reason = "terminal"].verdict = call.verdict
    BY <1>f DEF Call
  <2> QED BY <1>7, <1>f, <2>1 DEF RecordInitial
<1>8. CASE Revise
  BY <1>8, <1>f DEF Revise
<1>9. CASE RecordModelExecuted
  <2>1. /\ [call EXCEPT !.reason = finishAfterRevision].reason = finishAfterRevision
        /\ [call EXCEPT !.reason = finishAfterRevision].verdict = call.verdict
    BY <1>f DEF Call
  <2> QED BY <1>9, <1>f, <2>1 DEF RecordModelExecuted
<1>10. CASE ChoosePlan
  BY <1>10, <1>f DEF ChoosePlan
<1>11. CASE RecordCertified
  BY <1>11, <1>f DEF RecordCertified
<1>12. CASE RecordCommitted
  BY <1>12, <1>f DEF RecordCommitted
<1>13. CASE RecordIntent
  BY <1>13, <1>f DEF RecordIntent
<1>14. CASE EnvStep
  BY <1>14, <1>f DEF EnvStep, Spend
<1>15. CASE RecordRaw
  BY <1>15, <1>f DEF RecordRaw
<1>16. CASE Compare
  BY <1>16, <1>f DEF Compare
<1>17. CASE RecordAnalysis
  BY <1>17, <1>f DEF RecordAnalysis, ClearPending
<1>18. CASE RecordObserved
  <2>1. /\ [call EXCEPT !.reason = Disposition].reason = Disposition
        /\ [call EXCEPT !.reason = Disposition].verdict = call.verdict
    BY <1>f DEF Call
  <2>2. CASE Surprised
    BY <1>18, <1>f, <2>1, <2>2 DEF RecordObserved, Settle, Disposition, Invalidates
  <2>3. CASE ~Surprised
    BY <1>18, <1>f, <2>1, <2>3
       DEF RecordObserved, Settle, Disposition, Invalidates, ClearPending
  <2> QED BY <2>2, <2>3
<1>19. CASE RecordInvalidated
  <2>1. /\ [call EXCEPT !.reason = Disposition].reason = Disposition
        /\ [call EXCEPT !.reason = Disposition].verdict = call.verdict
    BY <1>f DEF Call
  <2>2. CASE Surprised
    BY <1>19, <1>f, <2>1, <2>2 DEF RecordInvalidated, Settle, Disposition, Invalidates
  <2>3. CASE ~Surprised
    BY <1>19, <1>f, <2>1, <2>3
       DEF RecordInvalidated, Settle, Disposition, Invalidates, ClearPending
  <2> QED BY <2>2, <2>3
<1>20. CASE RecordFinished
  BY <1>20, <1>f DEF RecordFinished, ClearPending
<1>21. CASE Raise
  BY <1>21, <1>f DEF Raise, Throw, FailPhase, ClearPending, CallRaises
<1>22. CASE EnvStepLost
  BY <1>22, <1>f DEF EnvStepLost, Throw, FailPhase, ClearPending, Spend
<1>23. CASE RecordUnknown
  BY <1>23, <1>f DEF RecordUnknown
<1>24. CASE RaiseUnknown
  BY <1>24, <1>f DEF RaiseUnknown, FailPhase, ClearPending
<1>25. CASE RecordFailed
  BY <1>25, <1>f DEF RecordFailed
<1>26. CASE RecordRunError
  BY <1>26, <1>f DEF RecordRunError, Leave, NoCall
<1>27. CASE Unwind
  BY <1>27, <1>f DEF Unwind, CloseRaises, Leave, NoCall
<1>28. CASE UNCHANGED vars
  BY <1>28, <1>f DEF vars
<1>29. CASE FinishUnreleased
  BY <1>29, <1>f DEF FinishUnreleased, FailPhase
<1> QED BY <1>1, <1>2, <1>3, <1>4, <1>5, <1>6, <1>7, <1>8, <1>9, <1>10, <1>11, <1>12, <1>13,
           <1>14, <1>15, <1>16, <1>17, <1>18, <1>19, <1>20, <1>21, <1>22, <1>23, <1>24,
           <1>25, <1>26, <1>27, <1>28, <1>29
           DEF Next, Step, Halted

\* A plan of more than one action has a suffix.
LEMMA TailLeft ==
    ASSUME NEW p \in Seq(Action), p # <<>>, Len(p) # 1
    PROVE  Tail(p) # <<>>
<1>1. Len(p) \in Nat /\ Len(p) # 0
  BY EmptySeq, LenProperties
<1>2. Len(Tail(p)) = Len(p) - 1
  BY HeadTailProperties
<1>3. SUFFICES ASSUME Tail(p) = <<>> PROVE FALSE
  OBVIOUS
<1>4. Len(<<>>) = 0
  OBVIOUS
<1>5. Len(Tail(p)) = 0
  BY <1>3, <1>4, Zenon
<1>6. Len(p) - 1 = 0
  BY <1>2, <1>5, Zenon
<1> QED BY <1>1, <1>6

\* A step keeps what its successors rely on about observations and plans.
LEMMA PlanStep == IInv /\ [Next]_vars => PlanOK'
<1> SUFFICES ASSUME IInv, [Next]_vars PROVE PlanOK'
  OBVIOUS
<1> USE DEF PlanOK, ControlOK, ExecutionLabel, control, theory, pending, TypeOK, Surprised,
        Terminal, Failed, Phase
<1>f. TypeOK /\ ControlOK /\ PlanOK /\ SpendOK
  BY DEF IInv
<1>1. CASE Advance
  BY <1>1, <1>f DEF Advance, CanAdvance
<1>2. CASE RecordStarted
  BY <1>2, <1>f DEF RecordStarted, Locals, NoCall, Entry, Exhausted
<1>3. CASE Complete
  BY <1>3, <1>f DEF Complete
<1>4. CASE RecordCompleted
  BY <1>4, <1>f DEF RecordCompleted, Leave, NoCall
<1>5. CASE EnvStart
  BY <1>5, <1>f DEF EnvStart
<1>6. CASE RecordRunStarted
  BY <1>6, <1>f DEF RecordRunStarted
<1>7. CASE RecordInitial
  <2>1. /\ [call EXCEPT !.reason = "terminal"].intended = call.intended
        /\ [call EXCEPT !.reason = "terminal"].plan = call.plan
    BY <1>f DEF Call
  <2> QED BY <1>7, <1>f, <2>1 DEF RecordInitial
<1>8. CASE Revise
  BY <1>8, <1>f DEF Revise
<1>9. CASE RecordModelExecuted
  <2>1. /\ [call EXCEPT !.reason = finishAfterRevision].intended = call.intended
        /\ [call EXCEPT !.reason = finishAfterRevision].plan = call.plan
    BY <1>f DEF Call
  <2> QED BY <1>9, <1>f, <2>1 DEF RecordModelExecuted
<1>10. CASE ChoosePlan
  <2>1. PICK p \in Plans(observation) : call' = [call EXCEPT !.plan = Clip(p)]
    BY <1>10 DEF ChoosePlan
  <2>2. Remaining > 0
    BY <1>10, <1>f, FieldTypes, BudgetAssumption DEF ChoosePlan, SpendOK, Remaining
  <2>3. call'.plan # <<>>
    BY <1>f, <2>1, <2>2, ClipType DEF Call
  <2> QED BY <1>10, <1>f, <2>3 DEF ChoosePlan
<1>11. CASE RecordCertified
  BY <1>11, <1>f DEF RecordCertified
<1>12. CASE RecordCommitted
  BY <1>12, <1>f DEF RecordCommitted
<1>13. CASE RecordIntent
  BY <1>13, <1>f DEF RecordIntent
<1>14. CASE EnvStep
  BY <1>14, <1>f DEF EnvStep, Spend
<1>15. CASE RecordRaw
  BY <1>15, <1>f DEF RecordRaw
<1>16. CASE Compare
  BY <1>16, <1>f DEF Compare
<1>17. CASE RecordAnalysis
  BY <1>17, <1>f DEF RecordAnalysis, ClearPending
<1>18. CASE RecordObserved
  <2>1. /\ [call EXCEPT !.reason = Disposition].intended = call.intended
        /\ [call EXCEPT !.reason = Disposition].plan = call.plan
        /\ [call EXCEPT !.reason = Disposition].status = call.status
    BY <1>f DEF Call
  <2>2. CASE Surprised
    BY <1>18, <1>f, <2>1, <2>2 DEF RecordObserved, Settle, Disposition, Invalidates
  <2>3. CASE ~Surprised
    <3>1. call.plan \in Seq(Action) /\ call.plan # <<>> /\ phase = "execution"
      BY <1>18, <1>f, <2>3, FieldTypes DEF RecordObserved
    <3>2. /\ Disposition \in {"terminal", "action_budget", "game_over", "replan", "continue"}
          /\ Disposition = "continue" => Tail(call.plan) # <<>>
      BY <2>3, <3>1, TailLeft DEF Disposition
    <3> QED BY <1>18, <1>f, <2>1, <2>3, <3>1, <3>2
               DEF RecordObserved, Settle, Invalidates, ClearPending, Reason
  <2> QED BY <2>2, <2>3
<1>19. CASE RecordInvalidated
  <2>1. /\ [call EXCEPT !.reason = Disposition].intended = call.intended
        /\ [call EXCEPT !.reason = Disposition].plan = call.plan
        /\ [call EXCEPT !.reason = Disposition].status = call.status
    BY <1>f DEF Call
  <2>2. CASE Surprised
    BY <1>19, <1>f, <2>1, <2>2 DEF RecordInvalidated, Settle, Disposition, Invalidates
  <2>3. CASE ~Surprised
    <3>1. call.plan \in Seq(Action) /\ call.plan # <<>> /\ phase = "execution"
      BY <1>19, <1>f, <2>3, FieldTypes DEF RecordInvalidated
    <3>2. /\ Disposition \in {"terminal", "action_budget", "game_over", "replan", "continue"}
          /\ Disposition = "continue" => Tail(call.plan) # <<>>
      BY <2>3, <3>1, TailLeft DEF Disposition
    <3> QED BY <1>19, <1>f, <2>1, <2>3, <3>1, <3>2
               DEF RecordInvalidated, Settle, Invalidates, ClearPending, Reason
  <2> QED BY <2>2, <2>3
<1>20. CASE RecordFinished
  BY <1>20, <1>f DEF RecordFinished, ClearPending
<1>21. CASE Raise
  <2>1. CASE OutcomeLost
    BY <1>21, <1>f, <2>1 DEF Raise, Throw, OutcomeLost
  <2>2. CASE ~OutcomeLost
    BY <1>21, <1>f, <2>2 DEF Raise, Throw, FailPhase
  <2> QED BY <2>1, <2>2
<1>22. CASE EnvStepLost
  BY <1>22, <1>f DEF EnvStepLost, Throw, FailPhase, ClearPending, Spend
<1>23. CASE RecordUnknown
  BY <1>23, <1>f DEF RecordUnknown
<1>24. CASE RaiseUnknown
  BY <1>24, <1>f DEF RaiseUnknown, FailPhase, ClearPending
<1>25. CASE RecordFailed
  BY <1>25, <1>f DEF RecordFailed
<1>26. CASE RecordRunError
  BY <1>26, <1>f DEF RecordRunError, Leave, NoCall
<1>27. CASE Unwind
  BY <1>27, <1>f DEF Unwind, CloseRaises, Leave, NoCall
<1>28. CASE UNCHANGED vars
  BY <1>28, <1>f DEF vars
<1>29. CASE FinishUnreleased
  BY <1>29, <1>f DEF FinishUnreleased, FailPhase
<1> QED BY <1>1, <1>2, <1>3, <1>4, <1>5, <1>6, <1>7, <1>8, <1>9, <1>10, <1>11, <1>12, <1>13,
           <1>14, <1>15, <1>16, <1>17, <1>18, <1>19, <1>20, <1>21, <1>22, <1>23, <1>24,
           <1>25, <1>26, <1>27, <1>28, <1>29
           DEF Next, Step, Halted


\* A record that is neither an intent nor a transition leaves both alone.
LEMMA OtherRecord ==
    ASSUME TypeOK, NEW k \in Kind \ {"action_intent", "transition_raw"}, NEW e, Record(k, e)
    PROVE  Intents' = Intents /\ Raws' = Raws
BY DEF TypeOK, Kind, Record, Intents, Raws

\* A step keeps the account of intents, real actions and outcomes.
LEMMA SpendStep == IInv /\ [Next]_vars => SpendOK'
<1> SUFFICES ASSUME IInv, [Next]_vars PROVE SpendOK'
  OBVIOUS
<1> USE DEF SpendOK, ControlOK, control, theory, pending, Terminal, Failed, Raws, Intents
<1>f. TypeOK /\ ControlOK /\ PlanOK /\ SpendOK
  BY DEF IInv
<1>n. /\ Len(Intents) \in Nat /\ Len(Raws) \in Nat /\ env.spent \in Nat
      /\ Len(transitions) \in Nat /\ Len(transitions) + 1 \in Nat
  BY <1>f, FieldTypes DEF Kind
<1>1. CASE Advance
  BY <1>1, <1>f, <1>n DEF Advance, CanAdvance
<1>2. CASE RecordStarted
  <2>1. Intents' = Intents /\ Raws' = Raws
    BY <1>2, <1>f, OtherRecord DEF RecordStarted, Kind
  <2> QED BY <1>2, <1>f, <1>n, <2>1, BudgetAssumption
             DEF RecordStarted, Locals, NoCall, Entry, Exhausted, Remaining, TypeOK, Phase
<1>3. CASE Complete
  BY <1>3, <1>f, <1>n DEF Complete
<1>4. CASE RecordCompleted
  <2>1. Intents' = Intents /\ Raws' = Raws
    BY <1>4, <1>f, OtherRecord DEF RecordCompleted, Kind
  <2> QED BY <1>4, <1>f, <1>n, <2>1 DEF RecordCompleted, Leave
<1>5. CASE EnvStart
  BY <1>5, <1>f, <1>n DEF EnvStart
<1>6. CASE RecordRunStarted
  <2>1. Intents' = Intents /\ Raws' = Raws
    BY <1>6, <1>f, OtherRecord DEF RecordRunStarted, Kind
  <2> QED BY <1>6, <1>f, <1>n, <2>1 DEF RecordRunStarted
<1>7. CASE RecordInitial
  <2>1. Intents' = Intents /\ Raws' = Raws
    BY <1>7, <1>f, OtherRecord DEF RecordInitial, Kind
  <2> QED BY <1>7, <1>f, <1>n, <2>1 DEF RecordInitial
<1>8. CASE Revise
  BY <1>8, <1>f, <1>n DEF Revise
<1>9. CASE RecordModelExecuted
  <2>1. Intents' = Intents /\ Raws' = Raws
    BY <1>9, <1>f, OtherRecord DEF RecordModelExecuted, Kind
  <2> QED BY <1>9, <1>f, <1>n, <2>1 DEF RecordModelExecuted
<1>10. CASE ChoosePlan
  BY <1>10, <1>f, <1>n DEF ChoosePlan
<1>11. CASE RecordCertified
  <2>1. Intents' = Intents /\ Raws' = Raws
    BY <1>11, <1>f, OtherRecord DEF RecordCertified, Kind
  <2> QED BY <1>11, <1>f, <1>n, <2>1 DEF RecordCertified
<1>12. CASE RecordCommitted
  <2>1. Intents' = Intents /\ Raws' = Raws
    BY <1>12, <1>f, OtherRecord DEF RecordCommitted, Kind
  <2> QED BY <1>12, <1>f, <1>n, <2>1 DEF RecordCommitted
<1>13. CASE RecordIntent
  <2>1. Head(call.plan) \in Action
    BY <1>13, <1>f, FieldTypes, HeadTailProperties DEF PlanOK, ExecutionLabel, RecordIntent
  <2>2. [Linked(Head(call.plan)) EXCEPT !.model = program] \in Event
    BY <1>f, <2>1, EventTypes DEF TypeOK
  <2>3. Len(Intents') = Len(Intents) + 1 /\ Raws' = Raws
    BY <1>13, <1>f, <2>2, RecordAppends DEF RecordIntent, TypeOK, Kind
  <2> QED BY <1>13, <1>f, <1>n, <2>3, BudgetAssumption DEF RecordIntent
<1>14. CASE EnvStep
  <2>1. env'.spent = env.spent + 1
    BY <1>14 DEF EnvStep, Spend
  <2> QED BY <1>14, <1>f, <1>n, <2>1 DEF EnvStep
<1>15. CASE RecordRaw
  <2>1. Head(call.plan) \in Action
    BY <1>15, <1>f, FieldTypes, HeadTailProperties DEF PlanOK, ExecutionLabel, RecordRaw
  <2>2. [Linked(Head(call.plan)) EXCEPT !.at = Len(transitions) + 1] \in Event
    BY <1>f, <1>n, <2>1, EventTypes
  <2>3. Len(Raws') = Len(Raws) + 1 /\ Intents' = Intents
    BY <1>15, <1>f, <2>2, RecordAppends DEF RecordRaw, TypeOK, Kind
  <2>4. [action |-> Head(call.plan), before |-> observation, after |-> call.status]
          \in Transition
    BY <1>15, <1>f, <2>1 DEF RecordRaw, PlanOK, ExecutionLabel, Transition
  <2>5. Len(transitions') = Len(transitions) + 1
    BY <1>15, <1>f, <2>4, AppendProperties DEF RecordRaw, TypeOK
  <2> QED BY <1>15, <1>f, <1>n, <2>3, <2>5 DEF RecordRaw
<1>16. CASE Compare
  BY <1>16, <1>f, <1>n DEF Compare
<1>17. CASE RecordAnalysis
  <2>1. Intents' = Intents /\ Raws' = Raws
    BY <1>17, <1>f, OtherRecord DEF RecordAnalysis, Kind, AppendAnalysis
  <2> QED BY <1>17, <1>f, <1>n, <2>1 DEF RecordAnalysis, AppendAnalysis
<1>18. CASE RecordObserved
  <2>1. Intents' = Intents /\ Raws' = Raws
    BY <1>18, <1>f, OtherRecord DEF RecordObserved, Kind
  <2>2. Disposition \in Reason \cup {"revise", "game_over", "replan", "continue"}
    BY DEF Disposition, Reason
  <2>3. /\ pc' \in {"record_invalidated", "complete", "record_finished"}
        /\ phase' = phase \/ phase' = "planning"
    BY <1>18, <2>2 DEF RecordObserved, Settle
  <2>4. phase \notin Failed
    BY <1>18, <1>f DEF RecordObserved
  <2> QED BY <1>18, <1>f, <1>n, <2>1, <2>3, <2>4 DEF RecordObserved
<1>19. CASE RecordInvalidated
  <2>1. Intents' = Intents /\ Raws' = Raws
    BY <1>19, <1>f, OtherRecord DEF RecordInvalidated, Kind
  <2>2. Disposition \in Reason \cup {"revise", "game_over", "replan", "continue"}
    BY DEF Disposition, Reason
  <2>3. /\ pc' \in {"record_invalidated", "complete", "record_finished"}
        /\ phase' = phase \/ phase' = "planning"
    BY <1>19, <2>2 DEF RecordInvalidated, Settle
  <2>4. phase \notin Failed
    BY <1>19, <1>f DEF RecordInvalidated
  <2> QED BY <1>19, <1>f, <1>n, <2>1, <2>3, <2>4 DEF RecordInvalidated
<1>20. CASE RecordFinished
  <2>1. Intents' = Intents /\ Raws' = Raws
    BY <1>20, <1>f, OtherRecord DEF RecordFinished, AppendFinished, Kind
  <2> QED BY <1>20, <1>f, <1>n, <2>1 DEF RecordFinished
<1>21. CASE Raise
  BY <1>21, <1>f, <1>n DEF Raise, Throw, FailPhase, ClearPending, CallRaises
<1>22. CASE EnvStepLost
  BY <1>22, <1>f, <1>n DEF EnvStepLost, Throw, FailPhase, ClearPending, Spend
<1>23. CASE RecordUnknown
  <2>1. Intents' = Intents /\ Raws' = Raws
    BY <1>23, <1>f, OtherRecord DEF RecordUnknown, Kind
  <2> QED BY <1>23, <1>f, <1>n, <2>1 DEF RecordUnknown
<1>24. CASE RaiseUnknown
  BY <1>24, <1>f, <1>n DEF RaiseUnknown, FailPhase, ClearPending
<1>25. CASE RecordFailed
  <2>1. Intents' = Intents /\ Raws' = Raws
    BY <1>25, <1>f, OtherRecord DEF RecordFailed, Kind
  <2> QED BY <1>25, <1>f, <1>n, <2>1 DEF RecordFailed
<1>26. CASE RecordRunError
  <2>1. Intents' = Intents /\ Raws' = Raws
    BY <1>26, <1>f, OtherRecord DEF RecordRunError, Kind
  <2> QED BY <1>26, <1>f, <1>n, <2>1 DEF RecordRunError, Leave
<1>27. CASE Unwind
  BY <1>27, <1>f, <1>n DEF Unwind, CloseRaises, Leave, NoCall
<1>28. CASE UNCHANGED vars
  BY <1>28, <1>f DEF vars
<1>29. CASE FinishUnreleased
  <2>1. Intents' = Intents /\ Raws' = Raws
    BY <1>29, <1>f, OtherRecord DEF FinishUnreleased, AppendFinished, Kind
  <2> QED BY <1>29, <1>f, <1>n, <2>1 DEF FinishUnreleased, FailPhase
<1> QED BY <1>1, <1>2, <1>3, <1>4, <1>5, <1>6, <1>7, <1>8, <1>9, <1>10, <1>11, <1>12, <1>13,
           <1>14, <1>15, <1>16, <1>17, <1>18, <1>19, <1>20, <1>21, <1>22, <1>23, <1>24,
           <1>25, <1>26, <1>27, <1>28, <1>29
           DEF Next, Step, Halted

-----------------------------------------------------------------------------
(* The theorems                                                            *)

LEMMA InvInit == Init => IInv
<1> SUFFICES ASSUME Init PROVE IInv
  OBVIOUS
<1>1. /\ <<>> \in Seq(Action) /\ <<>> \in Seq(Transition) /\ <<>> \in Seq(Event)
      /\ Len(<<>>) = 0
  BY EmptySeq
<1>2. NoCall \in Call
  BY <1>1 DEF NoCall, Call, Verdict
<1>3. TypeOK
  BY <1>1, <1>2 DEF Init, TypeOK, Phase, Terminal, Label, Result, Game
<1>4. ControlOK /\ PlanOK
  BY DEF Init, ControlOK, PlanOK, ExecutionLabel, NoCall
<1>5. Intents = <<>> /\ Raws = <<>>
  BY DEF Init, Intents, Raws, Kind
<1>6. SpendOK
  BY <1>1, <1>5, BudgetAssumption DEF Init, SpendOK, Failed
<1> QED BY <1>3, <1>4, <1>6 DEF IInv

LEMMA InvNext == IInv /\ [Next]_vars => IInv'
BY TypeStep, ControlStep, PlanStep, SpendStep DEF IInv

\* The inductive invariant holds for every budget, plan length and set of faults.
THEOREM InvCorrect == Spec => []IInv
BY InvInit, InvNext, PTL DEF Spec

\* Every reachable state has its type (the declarations of InteractiveEpisode).
THEOREM TypeCorrect == Spec => []TypeOK
<1>1. IInv => TypeOK
  BY DEF IInv
<1> QED BY InvCorrect, <1>1, PTL

\* For every budget and every pattern of failing calls, durable intents cover the
\* actions the game applied, at most one lacks its recorded outcome, the budget is
\* never exceeded, and no phase can be entered while an outcome is missing
\* (agent_journal.py intent and raw, interactive.py _execute_one).
THEOREM SpendCorrect == Spec => []SpendAccounted
<1>1. IInv => SpendAccounted
  <2> SUFFICES ASSUME IInv PROVE SpendAccounted
    OBVIOUS
  <2>f. TypeOK /\ ControlOK /\ SpendOK
    BY DEF IInv
  <2>n. Len(Intents) \in Nat /\ Len(Raws) \in Nat /\ env.spent \in Nat
    BY <2>f, FieldTypes DEF Intents, Raws, Kind
  <2>1. /\ Len(Raws) <= env.spent /\ env.spent <= Len(Intents)
        /\ Len(Intents) <= Len(Raws) + 1 /\ Len(Intents) <= Budget
    BY <2>f, <2>n DEF SpendOK
  <2>2. CanAdvance => Len(Intents) = Len(Raws)
    BY <2>f, <2>n DEF CanAdvance, ControlOK, SpendOK, Terminal, Failed
  <2> QED BY <2>1, <2>2 DEF SpendAccounted
<1> QED BY InvCorrect, <1>1, PTL

-----------------------------------------------------------------------------
(* The episode implements the account                                      *)

Open  == phase \notin Terminal

\* A step that leaves the account alone.
Quiet == /\ Len(Intents)' = Len(Intents) /\ Len(Raws)' = Len(Raws)
         /\ env.spent' = env.spent /\ Open' = Open

\* A step of the episode is a step of the account it keeps, or none of its business.
LEMMA LedgerStep == IInv /\ [Next]_vars => [Ledger!Next]_(Ledger!ledgerVars)
<1> SUFFICES ASSUME IInv, [Next]_vars PROVE Ledger!Next \/ Quiet
  BY DEF Ledger!ledgerVars, Quiet, Open
<1> USE DEF Quiet, Open, ControlOK, control, Terminal, Failed
<1>f. TypeOK /\ ControlOK /\ PlanOK /\ SpendOK
  BY DEF IInv
<1>n. /\ Len(Intents) \in Nat /\ Len(Raws) \in Nat /\ env.spent \in Nat
      /\ Len(transitions) \in Nat /\ Len(transitions) + 1 \in Nat
  BY <1>f, FieldTypes DEF Intents, Raws, Kind
<1>1. CASE Advance
  BY <1>1, <1>f DEF Advance, Intents, Raws
<1>2. CASE RecordStarted
  <2>1. Intents' = Intents /\ Raws' = Raws
    BY <1>2, <1>f, OtherRecord DEF RecordStarted, Kind
  <2> QED BY <1>2, <1>f, <2>1 DEF RecordStarted, Locals
<1>3. CASE Complete
  BY <1>3, <1>f DEF Complete, Intents, Raws
<1>4. CASE RecordCompleted
  <2>1. Intents' = Intents /\ Raws' = Raws
    BY <1>4, <1>f, OtherRecord DEF RecordCompleted, Kind
  <2> QED BY <1>4, <1>f, <2>1 DEF RecordCompleted, Leave
<1>5. CASE EnvStart
  BY <1>5, <1>f DEF EnvStart, Intents, Raws
<1>6. CASE RecordRunStarted
  <2>1. Intents' = Intents /\ Raws' = Raws
    BY <1>6, <1>f, OtherRecord DEF RecordRunStarted, Kind
  <2> QED BY <1>6, <1>f, <2>1 DEF RecordRunStarted
<1>7. CASE RecordInitial
  <2>1. Intents' = Intents /\ Raws' = Raws
    BY <1>7, <1>f, OtherRecord DEF RecordInitial, Kind
  <2> QED BY <1>7, <1>f, <2>1 DEF RecordInitial
<1>8. CASE Revise
  BY <1>8, <1>f DEF Revise, Intents, Raws
<1>9. CASE RecordModelExecuted
  <2>1. Intents' = Intents /\ Raws' = Raws
    BY <1>9, <1>f, OtherRecord DEF RecordModelExecuted, Kind
  <2> QED BY <1>9, <1>f, <2>1 DEF RecordModelExecuted
<1>10. CASE ChoosePlan
  BY <1>10, <1>f DEF ChoosePlan, Intents, Raws
<1>11. CASE RecordCertified
  <2>1. Intents' = Intents /\ Raws' = Raws
    BY <1>11, <1>f, OtherRecord DEF RecordCertified, Kind
  <2> QED BY <1>11, <1>f, <2>1 DEF RecordCertified
<1>12. CASE RecordCommitted
  <2>1. Intents' = Intents /\ Raws' = Raws
    BY <1>12, <1>f, OtherRecord DEF RecordCommitted, Kind
  <2> QED BY <1>12, <1>f, <2>1 DEF RecordCommitted
<1>13. CASE RecordIntent
  <2>1. Head(call.plan) \in Action
    BY <1>13, <1>f, FieldTypes, HeadTailProperties DEF PlanOK, ExecutionLabel, RecordIntent
  <2>2. [Linked(Head(call.plan)) EXCEPT !.model = program] \in Event
    BY <1>f, <2>1, EventTypes DEF TypeOK
  <2>3. Len(Intents') = Len(Intents) + 1 /\ Raws' = Raws
    BY <1>13, <1>f, <2>2, RecordAppends DEF RecordIntent, TypeOK, Kind, Intents, Raws
  <2>4. Ledger!Announce
    BY <1>13, <1>f, <1>n, <2>3, BudgetAssumption DEF RecordIntent, Ledger!Announce, SpendOK
  <2> QED BY <2>4 DEF Ledger!Next
<1>14. CASE EnvStep
  <2>1. env'.spent = env.spent + 1
    BY <1>14 DEF EnvStep, Spend
  <2>2. Intents' = Intents /\ Raws' = Raws
    BY <1>14 DEF EnvStep, Intents, Raws
  <2>3. phase \notin Terminal /\ env.spent < Len(Intents)
    BY <1>14, <1>f, <1>n DEF EnvStep, SpendOK
  <2>4. (phase' \notin Terminal) \in {TRUE, FALSE}
    OBVIOUS
  <2> QED BY <2>1, <2>2, <2>3, <2>4 DEF Ledger!Next, Ledger!Spend
<1>15. CASE RecordRaw
  <2>1. Head(call.plan) \in Action
    BY <1>15, <1>f, FieldTypes, HeadTailProperties DEF PlanOK, ExecutionLabel, RecordRaw
  <2>2. [Linked(Head(call.plan)) EXCEPT !.at = Len(transitions) + 1] \in Event
    BY <1>f, <1>n, <2>1, EventTypes
  <2>3. Len(Raws') = Len(Raws) + 1 /\ Intents' = Intents
    BY <1>15, <1>f, <2>2, RecordAppends DEF RecordRaw, TypeOK, Kind, Intents, Raws
  <2>4. Ledger!Settle
    BY <1>15, <1>f, <1>n, <2>3 DEF RecordRaw, Ledger!Settle, SpendOK
  <2> QED BY <2>4 DEF Ledger!Next
<1>16. CASE Compare
  BY <1>16, <1>f DEF Compare, Intents, Raws
<1>17. CASE RecordAnalysis
  <2>1. Intents' = Intents /\ Raws' = Raws
    BY <1>17, <1>f, OtherRecord DEF RecordAnalysis, Kind, AppendAnalysis
  <2> QED BY <1>17, <1>f, <2>1 DEF RecordAnalysis
<1>18. CASE RecordObserved
  <2>1. Intents' = Intents /\ Raws' = Raws
    BY <1>18, <1>f, OtherRecord DEF RecordObserved, Kind
  <2>2. Disposition \in Reason \cup {"revise", "game_over", "replan", "continue"}
    BY DEF Disposition, Reason
  <2>3. /\ pc' \in {"record_invalidated", "complete", "record_finished"}
        /\ phase' = phase \/ phase' = "planning"
    BY <1>18, <2>2 DEF RecordObserved, Settle
  <2>4. phase \notin Failed
    BY <1>18, <1>f DEF RecordObserved
  <2>5. Open /\ Open'
    BY <1>18, <1>f, <2>3, <2>4 DEF RecordObserved
  <2>6. env' = env
    BY <1>18 DEF RecordObserved
  <2> QED BY <2>1, <2>5, <2>6
<1>19. CASE RecordInvalidated
  <2>1. Intents' = Intents /\ Raws' = Raws
    BY <1>19, <1>f, OtherRecord DEF RecordInvalidated, Kind
  <2>2. Disposition \in Reason \cup {"revise", "game_over", "replan", "continue"}
    BY DEF Disposition, Reason
  <2>3. /\ pc' \in {"record_invalidated", "complete", "record_finished"}
        /\ phase' = phase \/ phase' = "planning"
    BY <1>19, <2>2 DEF RecordInvalidated, Settle
  <2>4. phase \notin Failed
    BY <1>19, <1>f DEF RecordInvalidated
  <2>5. Open /\ Open'
    BY <1>19, <1>f, <2>3, <2>4 DEF RecordInvalidated
  <2>6. env' = env
    BY <1>19 DEF RecordInvalidated
  <2> QED BY <2>1, <2>5, <2>6
<1>20. CASE RecordFinished
  <2>1. Intents' = Intents /\ Raws' = Raws
    BY <1>20, <1>f, OtherRecord DEF RecordFinished, AppendFinished, Kind
  <2>2. Ledger!Close
    BY <1>20, <1>f, <2>1 DEF RecordFinished, Ledger!Close
  <2> QED BY <2>2 DEF Ledger!Next
<1>21. CASE Raise
  <2>1. Open
    BY <1>21, <1>f DEF Raise, CallRaises, Surprised
  <2>2. Ledger!Close
    BY <1>21, <2>1 DEF Raise, Throw, FailPhase, Ledger!Close, Intents, Raws
  <2> QED BY <2>2 DEF Ledger!Next
<1>22. CASE EnvStepLost
  <2>1. env'.spent = env.spent + 1
    BY <1>22 DEF EnvStepLost, Spend
  <2>2. Intents' = Intents /\ Raws' = Raws
    BY <1>22 DEF EnvStepLost, Throw, FailPhase, Intents, Raws
  <2>3. phase \notin Terminal /\ env.spent < Len(Intents)
    BY <1>22, <1>f, <1>n DEF EnvStepLost, SpendOK
  <2>4. (phase' \notin Terminal) \in {TRUE, FALSE}
    OBVIOUS
  <2> QED BY <2>1, <2>2, <2>3, <2>4 DEF Ledger!Next, Ledger!Spend
<1>23. CASE RecordUnknown
  <2>1. Intents' = Intents /\ Raws' = Raws
    BY <1>23, <1>f, OtherRecord DEF RecordUnknown, Kind
  <2> QED BY <1>23, <1>f, <2>1 DEF RecordUnknown
<1>24. CASE RaiseUnknown
  BY <1>24, <1>f DEF RaiseUnknown, Intents, Raws, FailPhase
<1>25. CASE RecordFailed
  <2>1. Intents' = Intents /\ Raws' = Raws
    BY <1>25, <1>f, OtherRecord DEF RecordFailed, Kind
  <2> QED BY <1>25, <1>f, <2>1 DEF RecordFailed
<1>26. CASE RecordRunError
  <2>1. Intents' = Intents /\ Raws' = Raws
    BY <1>26, <1>f, OtherRecord DEF RecordRunError, Kind
  <2> QED BY <1>26, <1>f, <2>1 DEF RecordRunError, Leave
<1>27. CASE Unwind
  BY <1>27, <1>f DEF Unwind, CloseRaises, Leave, Intents, Raws
<1>28. CASE UNCHANGED vars
  BY <1>28 DEF vars, Intents, Raws
<1>29. CASE FinishUnreleased
  <2>1. Intents' = Intents /\ Raws' = Raws
    BY <1>29, <1>f, OtherRecord DEF FinishUnreleased, AppendFinished, Kind
  <2>2. Ledger!Close
    BY <1>29, <1>f, <2>1 DEF FinishUnreleased, FailPhase, Ledger!Close
  <2> QED BY <2>2 DEF Ledger!Next
<1> QED BY <1>1, <1>2, <1>3, <1>4, <1>5, <1>6, <1>7, <1>8, <1>9, <1>10, <1>11, <1>12, <1>13,
           <1>14, <1>15, <1>16, <1>17, <1>18, <1>19, <1>20, <1>21, <1>22, <1>23, <1>24,
           <1>25, <1>26, <1>27, <1>28, <1>29
           DEF Next, Step, Halted

\* For every budget, plan length and set of faults, the episode keeps the account
\* of SpendLedger: an action is announced before it is spent, settled before the next
\* is announced, and nothing is spent once the episode is over (agent_journal.py
\* intent and raw, interactive.py advance).
THEOREM LedgerImplemented == Spec => ImplementsLedger
<1>1. Init => Ledger!Init
  <2> SUFFICES ASSUME Init PROVE Ledger!Init
    OBVIOUS
  <2>1. Intents = <<>> /\ Raws = <<>>
    BY DEF Init, Intents, Raws, Kind
  <2> QED BY <2>1, EmptySeq DEF Init, Ledger!Init, Terminal
<1> QED BY <1>1, InvCorrect, LedgerStep, PTL DEF Spec, ImplementsLedger, Ledger!Spec

-----------------------------------------------------------------------------
(* What an episode knows                                                   *)

Settled == {"record_completed", "record_failed", "record_run_error"}

\* Places of a call where the handler has not moved the phase.
Unmoved == {"record_started", "env_start", "record_run_started", "record_initial",
            "revise", "record_model_executed", "plan", "record_certified",
            "record_committed", "record_intent", "env_step", "record_raw", "compare",
            "record_analysis", "record_finished"}

\* Where the call in flight stands in its phase, and whether its action is recorded.
CallOK ==
    /\ pc # "idle" => activePhase \in Phase \ Terminal
    /\ pc \in Unmoved => phase = activePhase
    /\ pc \in {"record_observed", "record_invalidated", "record_unknown"}
         => activePhase = "execution"
    /\ pc = "complete" => phase # activePhase \/ activePhase = "execution"
    /\ pc = "record_finished" => phase # "induction"
    /\ phase \notin {"revision", "finished"} \cup Failed => finishAfterRevision = "none"
    /\ pc \in {"record_intent", "env_step", "record_raw"} => call.before = Len(transitions)
    /\ call.intended => \/ call.before # Len(transitions)
                        \/ pc \in {"env_step", "record_raw", "record_unknown",
                                   "record_failed", "record_run_error"}

\* Which of the recorded transitions the committed model reproduces.
JudgedOK ==
    LET n == Len(transitions)
    IN  /\ phase = "start" => n = 0
        /\ phase \in {"start", "induction"} => program = 0
        /\ pc = "record_model_executed" => call.program # 0
        /\ pc \in {"compare", "record_analysis"} => n # 0
        /\ phase \in {"planning", "execution"} =>
             /\ program # 0
             /\ explains = 1..(IF pc \in {"compare", "record_analysis"} THEN n - 1 ELSE n)
        /\ phase = "revision" =>
             /\ program # 0
             /\ IF pc = "record_finished" THEN explains = 1..n ELSE latestMismatch

\* A plan made at GAME_OVER starts with RESET.
Resets(plan) == env.status = "GAME_OVER" => Head(plan) = "RESET"

Acted   == {"record_raw", "compare", "record_analysis"}
Judged  == {"record_observed", "record_invalidated"}
Between == {"idle", "record_started", "complete", "record_completed"}

\* What is known of the game, and what is left to do when it is over.
SeenOK ==
    /\ pc \in {"record_run_started", "record_initial"} => call.status = env.status
    /\ pc \in Acted \cup Judged => call.status = env.status
    /\ phase \in {"induction", "planning", "revision"} => observation = env.status
    /\ phase \in {"induction", "planning"} => env.status # "WIN"
    /\ phase = "execution" /\ pc \notin Acted => observation = env.status
    /\ phase = "execution" /\ pc \notin Acted \cup Judged \cup {"record_finished"}
         => env.status # "WIN"
    /\ phase = "revision" /\ pc # "record_finished" =>
         finishAfterRevision = IF env.status = "WIN" THEN "terminal"
                               ELSE IF BudgetOut THEN "action_budget" ELSE "none"
    /\ pc = "record_finished" =>
         /\ observation = env.status
         /\ call.reason = IF env.status = "WIN" THEN "terminal" ELSE "action_budget"
         /\ env.status # "WIN" => BudgetOut
    /\ pc \in {"record_certified", "record_committed", "record_intent", "env_step"}
         => Resets(call.plan)
    /\ phase = "execution" /\ pc \in Between => Resets(pendingPlan)

Closing == {"complete", "record_completed", "record_failed", "record_run_error", "idle"}

\* How a run on record as finished accounts for itself.
Accounted ==
    /\ Len(Intents) = env.spent
    /\ env.status = "WIN" \/ env.spent = Budget
    /\ store["run_finished"][1].at = env.spent
    /\ transitions # <<>> => explains = 1..Len(transitions)

\* The result of a finished episode.
Stated ==
    /\ result.reason = IF env.status = "WIN" THEN "terminal" ELSE "action_budget"
    /\ result.actions = env.spent

\* What ends a run.
EndOK ==
    /\ Len(store["run_finished"]) <= 1
    /\ phase = "finished" => Len(store["run_finished"]) = 1
    /\ Len(store["run_finished"]) # 0 =>
         /\ phase = "finished" \/ ("close" \in Faults /\ phase = "error")
         /\ pc \in Closing
         /\ Accounted
    /\ \/ Len(store["run_error"]) = 0
       \/ Len(store["run_error"]) = 1 /\ pc = "idle" /\ phase \in Failed
    /\ phase = "finished" => pc \in {"complete", "record_completed", "idle"} /\ Stated
    /\ result.reason # "none" <=> phase = "finished"

-----------------------------------------------------------------------------
(* The locals after an update, field by field                              *)

LEMMA CallFields ==
    ASSUME call \in Call, NEW r \in Reason \cup {"none"}, NEW c, c = [call EXCEPT !.reason = r]
    PROVE  /\ c.reason = r /\ c.before = call.before /\ c.intended = call.intended
           /\ c.status = call.status /\ c.program = call.program /\ c.plan = call.plan
           /\ c.verdict = call.verdict
BY DEF Call

LEMMA LocalsFields ==
    /\ ~Locals.intended
    /\ phase = "execution" /\ ~Exhausted =>
         Locals.before = Len(transitions) /\ Locals.plan = pendingPlan
    /\ Exhausted => Locals.reason = "action_budget"
<1>1. CASE Exhausted
  BY <1>1 DEF Locals, NoCall
<1>2. CASE ~Exhausted /\ phase = "execution"
  BY <1>2 DEF Locals, NoCall
<1>3. CASE ~Exhausted /\ phase # "execution"
  BY <1>3 DEF Locals, NoCall
<1> QED BY <1>1, <1>2, <1>3

\* The transition a raw record adds.
LEMMA RawAppends ==
    ASSUME IInv, RecordRaw
    PROVE  /\ Len(transitions') = Len(transitions) + 1
           /\ transitions'[Len(transitions) + 1].after = call.status
<1>f. TypeOK /\ ControlOK /\ PlanOK
  BY DEF IInv
<1>1. Head(call.plan) \in Action
  BY <1>f, FieldTypes, HeadTailProperties DEF PlanOK, ExecutionLabel, RecordRaw
<1>2. [action |-> Head(call.plan), before |-> observation, after |-> call.status] \in Transition
  BY <1>f, <1>1 DEF RecordRaw, PlanOK, ControlOK, ExecutionLabel, Transition
<1>3. transitions' = Append(transitions,
        [action |-> Head(call.plan), before |-> observation, after |-> call.status])
  BY DEF RecordRaw
<1> QED BY <1>f, <1>2, <1>3, AppendProperties DEF TypeOK

\* How an execution ends.
LEMMA SettleFacts ==
    ASSUME TypeOK, Settle
    PROVE  /\ pc' \in {"complete", "record_finished"}
           /\ phase' = phase \/ (phase' = "planning" /\ ~Surprised /\ pc' = "complete")
           /\ pc' = "record_finished" =>
                ~Surprised /\ phase' = phase /\ Disposition \in Reason /\ call'.reason = Disposition
           /\ call'.before = call.before /\ call'.intended = call.intended
           /\ call'.status = call.status /\ call'.plan = call.plan
           /\ call'.verdict = call.verdict
           /\ pc' = "complete" => call' = call
           /\ Surprised => pc' = "complete"
<1>1. Disposition \in Reason \cup {"revise", "game_over", "replan", "continue"}
  BY DEF Disposition, Reason
<1>2. Surprised <=> Disposition = "revise"
  BY DEF Disposition
<1>3. call \in Call
  BY DEF TypeOK
<1>4. CASE Disposition \in Reason
  <2>1. call' = [call EXCEPT !.reason = Disposition]
    BY <1>2, <1>4 DEF Settle, Reason
  <2>2. /\ call'.reason = Disposition /\ call'.before = call.before
        /\ call'.intended = call.intended /\ call'.status = call.status
        /\ call'.plan = call.plan /\ call'.verdict = call.verdict
    BY <1>3, <1>4, <2>1, CallFields
  <2> QED BY <1>2, <1>4, <2>2 DEF Settle, Reason
<1>5. CASE Disposition \notin Reason
  BY <1>1, <1>2, <1>5 DEF Settle, Reason
<1> QED BY <1>4, <1>5

-----------------------------------------------------------------------------
(* The call in flight                                                      *)

LEMMA CallStep == IInv /\ CallOK /\ [Next]_vars => CallOK'
<1> SUFFICES ASSUME IInv, CallOK, [Next]_vars PROVE CallOK'
  OBVIOUS
<1> USE DEF CallOK, ControlOK, control, theory, pending, Surprised, Terminal, Failed, Phase,
        Reason, Unmoved
<1>f. /\ TypeOK /\ ControlOK /\ CallOK /\ call \in Call
      /\ phase \in Phase /\ activePhase \in Phase \cup {"none"}
  BY DEF IInv, TypeOK
<1>1. CASE Advance
  BY <1>1, <1>f DEF Advance, CanAdvance
<1>2. CASE RecordStarted
  BY <1>2, <1>f, LocalsFields DEF RecordStarted, Entry, Exhausted
<1>3. CASE Complete
  BY <1>3, <1>f DEF Complete
<1>4. CASE RecordCompleted
  BY <1>4, <1>f DEF RecordCompleted, Leave, NoCall
<1>5. CASE EnvStart
  BY <1>5, <1>f DEF EnvStart, Call
<1>6. CASE RecordRunStarted
  BY <1>6, <1>f DEF RecordRunStarted
<1>7. CASE RecordInitial
  <2>1. call'.before = call.before /\ call'.intended = call.intended
    BY <1>7, <1>f, CallFields DEF RecordInitial
  <2> QED BY <1>7, <1>f, <2>1 DEF RecordInitial
<1>8. CASE Revise
  BY <1>8, <1>f DEF Revise, Call
<1>9. CASE RecordModelExecuted
  <2>1. call'.before = call.before /\ call'.intended = call.intended
    BY <1>9, <1>f, CallFields DEF RecordModelExecuted, TypeOK, IInv
  <2> QED BY <1>9, <1>f, <2>1 DEF RecordModelExecuted, CommitModel
<1>10. CASE ChoosePlan
  BY <1>10, <1>f DEF ChoosePlan, Call
<1>11. CASE RecordCertified
  BY <1>11, <1>f DEF RecordCertified
<1>12. CASE RecordCommitted
  BY <1>12, <1>f DEF RecordCommitted
<1>13. CASE RecordIntent
  BY <1>13, <1>f DEF RecordIntent, Call
<1>14. CASE EnvStep
  BY <1>14, <1>f DEF EnvStep, Spend, Call
<1>15. CASE RecordRaw
  <2>1. Len(transitions') = Len(transitions) + 1 /\ Len(transitions) \in Nat
    BY <1>15, <1>f, RawAppends, FieldTypes
  <2> QED BY <1>15, <1>f, <2>1 DEF RecordRaw
<1>16. CASE Compare
  BY <1>16, <1>f DEF Compare
<1>17. CASE RecordAnalysis
  BY <1>17, <1>f DEF RecordAnalysis, ClearPending
<1>18. CASE RecordObserved
  <2>1. /\ pc' \in {"record_invalidated", "complete", "record_finished"}
        /\ phase' = phase \/ (phase' = "planning" /\ ~Surprised)
        /\ pc' \in {"record_finished", "record_invalidated"} => phase' = phase
        /\ pc' = "record_finished" => ~Surprised
        /\ call'.intended = call.intended /\ call'.before = call.before
    BY <1>18, <1>f, SettleFacts DEF RecordObserved
  <2> QED BY <1>18, <1>f, <2>1 DEF RecordObserved
<1>19. CASE RecordInvalidated
  <2>1. /\ pc' \in {"record_invalidated", "complete", "record_finished"}
        /\ phase' = phase \/ (phase' = "planning" /\ ~Surprised)
        /\ pc' \in {"record_finished", "record_invalidated"} => phase' = phase
        /\ pc' = "record_finished" => ~Surprised
        /\ call'.intended = call.intended /\ call'.before = call.before
    BY <1>19, <1>f, SettleFacts DEF RecordInvalidated
  <2> QED BY <1>19, <1>f, <2>1 DEF RecordInvalidated
<1>20. CASE RecordFinished
  BY <1>20, <1>f DEF RecordFinished, ClearPending
<1>21. CASE Raise
  BY <1>21, <1>f DEF Raise, Throw, FailPhase, ClearPending, CallRaises, OutcomeLost
<1>22. CASE EnvStepLost
  BY <1>22, <1>f DEF EnvStepLost, Throw, FailPhase, ClearPending, Spend, OutcomeLost
<1>23. CASE RecordUnknown
  BY <1>23, <1>f DEF RecordUnknown
<1>24. CASE RaiseUnknown
  BY <1>24, <1>f DEF RaiseUnknown, FailPhase
<1>25. CASE RecordFailed
  BY <1>25, <1>f DEF RecordFailed
<1>26. CASE RecordRunError
  BY <1>26, <1>f DEF RecordRunError, Leave, NoCall
<1>27. CASE Unwind
  BY <1>27, <1>f DEF Unwind, CloseRaises, Leave, NoCall
<1>28. CASE UNCHANGED vars
  BY <1>28, <1>f DEF vars
<1>29. CASE FinishUnreleased
  BY <1>29, <1>f DEF FinishUnreleased, FailPhase
<1> QED BY <1>1, <1>2, <1>3, <1>4, <1>5, <1>6, <1>7, <1>8, <1>9, <1>10, <1>11, <1>12, <1>13,
           <1>14, <1>15, <1>16, <1>17, <1>18, <1>19, <1>20, <1>21, <1>22, <1>23, <1>24,
           <1>25, <1>26, <1>27, <1>28, <1>29
           DEF Next, Step, Halted

-----------------------------------------------------------------------------
(* The evidence and the model                                              *)

LEMMA JudgedStep == IInv /\ CallOK /\ JudgedOK /\ [Next]_vars => JudgedOK'
<1> SUFFICES ASSUME IInv, CallOK, JudgedOK, [Next]_vars PROVE JudgedOK'
  OBVIOUS
<1> USE DEF JudgedOK, ControlOK, control, theory, pending, Surprised, Terminal, Failed
<1>f. /\ TypeOK /\ ControlOK /\ CallOK /\ JudgedOK /\ call \in Call
      /\ phase \in Phase /\ Len(transitions) \in Nat /\ revisionCount \in Nat
  BY FieldTypes DEF IInv, TypeOK
<1>g. /\ phase \notin {"revision", "finished"} \cup Failed => finishAfterRevision = "none"
      /\ pc = "record_finished" => phase # "induction"
  BY <1>f DEF CallOK
<1>1. CASE Advance
  BY <1>1, <1>f, <1>g DEF Advance, CanAdvance
<1>2. CASE RecordStarted
  <2>1. /\ UNCHANGED <<phase, program, explains, latestMismatch, transitions>>
        /\ pc = "record_started"
        /\ pc' \notin {"record_model_executed", "compare", "record_analysis"}
        /\ pc' = "record_finished" => phase \in {"planning", "execution"}
    BY <1>2, <1>f DEF RecordStarted, Entry, Exhausted, Phase
  <2> QED BY <1>f, <2>1
<1>3. CASE Complete
  BY <1>3, <1>f, <1>g DEF Complete
<1>4. CASE RecordCompleted
  BY <1>4, <1>f, <1>g DEF RecordCompleted, Leave, NoCall
<1>5. CASE EnvStart
  BY <1>5, <1>f, <1>g DEF EnvStart
<1>6. CASE RecordRunStarted
  BY <1>6, <1>f, <1>g DEF RecordRunStarted
<1>7. CASE RecordInitial
  BY <1>7, <1>f, <1>g DEF RecordInitial
<1>8. CASE Revise
  <2>1. call'.program # 0
    BY <1>8, <1>f DEF Revise, Call
  <2> QED BY <1>8, <1>f, <2>1 DEF Revise
<1>9. CASE RecordModelExecuted
  <2>1. /\ program' # 0 /\ explains' = 1..Len(transitions) /\ UNCHANGED transitions
        /\ pc' = "complete" => phase' = "planning"
        /\ pc' \in {"complete", "record_finished"}
        /\ pc' = "record_finished" => phase' = "revision"
    BY <1>9, <1>f, <1>g DEF RecordModelExecuted, CommitModel
  <2> QED BY <1>f, <2>1
<1>10. CASE ChoosePlan
  BY <1>10, <1>f, <1>g DEF ChoosePlan
<1>11. CASE RecordCertified
  BY <1>11, <1>f, <1>g DEF RecordCertified
<1>12. CASE RecordCommitted
  BY <1>12, <1>f, <1>g DEF RecordCommitted
<1>13. CASE RecordIntent
  BY <1>13, <1>f, <1>g DEF RecordIntent
<1>14. CASE EnvStep
  BY <1>14, <1>f, <1>g DEF EnvStep, Spend
<1>15. CASE RecordRaw
  <2>1. Len(transitions') = Len(transitions) + 1
    BY <1>15, <1>f, RawAppends
  <2>2. Len(transitions) + 1 - 1 = Len(transitions) /\ Len(transitions) + 1 # 0
    BY <1>f
  <2> QED BY <1>15, <1>f, <2>1, <2>2 DEF RecordRaw
<1>16. CASE Compare
  BY <1>16, <1>f, <1>g DEF Compare
<1>17. CASE RecordAnalysis
  <2>1. 1..(Len(transitions) - 1) \cup {Len(transitions)} = 1..Len(transitions)
    BY <1>17, <1>f DEF RecordAnalysis
  <2> QED BY <1>17, <1>f, <2>1 DEF RecordAnalysis, ClearPending
<1>18. CASE RecordObserved
  <2>1. /\ pc' \in {"record_invalidated", "complete", "record_finished"}
        /\ phase' = phase \/ (phase' = "planning" /\ phase = "execution")
        /\ pc' = "record_finished" => phase = "execution"
    BY <1>18, <1>f, SettleFacts DEF RecordObserved
  <2> QED BY <1>18, <1>f, <2>1 DEF RecordObserved
<1>19. CASE RecordInvalidated
  <2>1. /\ pc' \in {"record_invalidated", "complete", "record_finished"}
        /\ phase' = phase \/ (phase' = "planning" /\ phase = "execution")
        /\ pc' = "record_finished" => phase = "execution"
    BY <1>19, <1>f, SettleFacts DEF RecordInvalidated
  <2> QED BY <1>19, <1>f, <2>1 DEF RecordInvalidated
<1>20. CASE RecordFinished
  BY <1>20, <1>f, <1>g DEF RecordFinished, ClearPending
<1>21. CASE Raise
  BY <1>21, <1>f, <1>g DEF Raise, Throw, FailPhase, ClearPending, CallRaises
<1>22. CASE EnvStepLost
  BY <1>22, <1>f, <1>g DEF EnvStepLost, Throw, FailPhase, ClearPending, Spend
<1>23. CASE RecordUnknown
  BY <1>23, <1>f, <1>g DEF RecordUnknown
<1>24. CASE RaiseUnknown
  BY <1>24, <1>f, <1>g DEF RaiseUnknown, FailPhase
<1>25. CASE RecordFailed
  BY <1>25, <1>f, <1>g DEF RecordFailed
<1>26. CASE RecordRunError
  BY <1>26, <1>f, <1>g DEF RecordRunError, Leave, NoCall
<1>27. CASE Unwind
  BY <1>27, <1>f, <1>g DEF Unwind, CloseRaises, Leave, NoCall
<1>28. CASE UNCHANGED vars
  BY <1>28, <1>f, <1>g DEF vars
<1>29. CASE FinishUnreleased
  BY <1>29, <1>f, <1>g DEF FinishUnreleased, FailPhase
<1> QED BY <1>1, <1>2, <1>3, <1>4, <1>5, <1>6, <1>7, <1>8, <1>9, <1>10, <1>11, <1>12, <1>13,
           <1>14, <1>15, <1>16, <1>17, <1>18, <1>19, <1>20, <1>21, <1>22, <1>23, <1>24,
           <1>25, <1>26, <1>27, <1>28, <1>29
           DEF Next, Step, Halted

-----------------------------------------------------------------------------
\* A step of the episode buys a transition, judges it, adopts a model, or is none of the
\* theory's business.
LEMMA TheoryStep ==
    IInv /\ CallOK /\ JudgedOK /\ [Next]_vars => [Model!Next]_(Model!theoryVars)
<1> SUFFICES ASSUME IInv, CallOK, JudgedOK, [Next]_vars
             PROVE  \/ Model!Next
                    \/ Len(transitions') = Len(transitions) /\ Standing' = Standing
  BY DEF Model!theoryVars, Standing
<1>f. /\ TypeOK /\ ControlOK /\ CallOK /\ JudgedOK
      /\ Len(transitions) \in Nat /\ revisionCount \in Nat
  BY FieldTypes DEF IInv, TypeOK
<1>1. CASE RecordRaw
  <2>1. Len(transitions') = Len(transitions) + 1
    BY <1>1, RawAppends
  <2>2. Standing = "certified"
    BY <1>1, <1>f DEF RecordRaw, ControlOK, JudgedOK, Standing
  <2>3. UNCHANGED <<program, explains, latestMismatch>> /\ program # 0
    BY <1>1, <1>f DEF RecordRaw, theory, ControlOK, JudgedOK
  <2>4. Standing' \in {"unjudged", "certified", "refuted"}
    BY <2>3 DEF Standing
  <2>5. Model!Buy
    BY <2>1, <2>2, <2>4 DEF Model!Buy, Standing
  <2> QED BY <2>5 DEF Model!Next
<1>2. CASE RecordAnalysis
  <2>1. /\ phase = "execution" /\ program # 0 /\ Len(transitions) # 0
        /\ explains = 1..(Len(transitions) - 1)
        /\ UNCHANGED <<program, transitions>>
    BY <1>2, <1>f DEF RecordAnalysis, ControlOK, JudgedOK
  <2>2. Len(transitions) \in 1..Len(transitions) /\ Len(transitions) \notin 1..(Len(transitions) - 1)
    BY <1>f, <2>1
  <2>3. explains # 1..Len(transitions)
    BY <2>1, <2>2
  <2>4. Standing \in {"unjudged", "refuted"} /\ (latestMismatch => Standing = "refuted")
    BY <2>1, <2>3 DEF Standing
  <2>5. CASE Surprised
    <3>1. latestMismatch' = TRUE /\ explains' = explains
      BY <1>2, <2>5 DEF RecordAnalysis
    <3>2. Standing' = "refuted"
      BY <2>1, <2>3, <3>1 DEF Standing
    <3> QED BY <2>1, <2>4, <3>2 DEF Model!Next, Model!Judge, Standing
  <2>6. CASE ~Surprised
    <3>1. explains' = 1..Len(transitions)
      BY <1>2, <1>f, <2>1, <2>6 DEF RecordAnalysis
    <3>2. Standing' = "certified"
      BY <2>1, <3>1 DEF Standing
    <3> QED BY <2>1, <2>4, <3>2 DEF Model!Next, Model!Judge, Model!Adopt, Standing
  <2> QED BY <2>5, <2>6
<1>3. CASE RecordModelExecuted
  <2>1. /\ program' # 0 /\ explains' = 1..Len(transitions) /\ UNCHANGED transitions
        /\ phase \in {"induction", "revision"}
    BY <1>3, <1>f DEF RecordModelExecuted, CommitModel, ControlOK, JudgedOK
  <2>2. Standing' = "certified"
    BY <2>1 DEF Standing
  <2>3. Standing \in {"none", "certified", "refuted"}
    BY <1>3, <1>f, <2>1 DEF RecordModelExecuted, JudgedOK, Standing
  <2> QED BY <2>1, <2>2, <2>3 DEF Model!Next, Model!Adopt, Standing
<1>4. ASSUME UNCHANGED <<program, explains, latestMismatch, transitions>>
      PROVE  Len(transitions') = Len(transitions) /\ Standing' = Standing
  BY <1>4 DEF Standing
<1>5. ASSUME ~RecordRaw, ~RecordAnalysis, ~RecordModelExecuted
      PROVE  UNCHANGED <<program, explains, latestMismatch, transitions>>
  <2>1. CASE Advance \/ Halted \/ UNCHANGED vars
    BY <2>1 DEF Advance, Halted, vars, theory
  <2>2. CASE RecordStarted \/ Complete \/ RecordCompleted \/ EnvStart \/ RecordRunStarted
             \/ RecordInitial \/ Revise \/ ChoosePlan \/ RecordCertified \/ RecordCommitted
    BY <2>2 DEF RecordStarted, Complete, RecordCompleted, EnvStart, RecordRunStarted,
       RecordInitial, Revise, ChoosePlan, RecordCertified, RecordCommitted, theory
  <2>3. CASE RecordIntent \/ EnvStep \/ Compare \/ RecordFinished \/ RecordUnknown
             \/ RecordFailed \/ RecordRunError \/ Unwind
    BY <2>3 DEF RecordIntent, EnvStep, Compare, RecordFinished, RecordUnknown, RecordFailed,
       RecordRunError, Unwind, theory
  <2>4. CASE RecordObserved \/ RecordInvalidated
    BY <2>4 DEF RecordObserved, RecordInvalidated
  <2>5. CASE Raise \/ EnvStepLost \/ RaiseUnknown \/ FinishUnreleased
    BY <2>5 DEF Raise, EnvStepLost, RaiseUnknown, FinishUnreleased, Throw, theory
  <2> QED BY <1>5, <2>1, <2>2, <2>3, <2>4, <2>5 DEF Next, Step
<1> QED BY <1>1, <1>2, <1>3, <1>4, <1>5

-----------------------------------------------------------------------------
(* The phase graph                                                         *)

Ctl == [phase |-> phase, active |-> activePhase, version |-> stateVersion,
        settled |-> pc \in Settled]

LEMMA CtlRecord ==
    ASSUME TypeOK
    PROVE  /\ Ctl \in [phase : Phase, active : Phase \cup {"none"}, version : Nat, settled : BOOLEAN]
           /\ Ctl.phase = phase /\ Ctl.active = activePhase /\ Ctl.version = stateVersion
           /\ Ctl.settled = (pc \in Settled)
<1> DEFINE s == pc \in Settled
<1>1. Ctl = [phase |-> phase, active |-> activePhase, version |-> stateVersion, settled |-> s]
  BY Zenon DEF Ctl
<1>2. s \in BOOLEAN
  OBVIOUS
<1>3. s = (pc \in Settled)
  OBVIOUS
<1>4. phase \in Phase /\ activePhase \in Phase \cup {"none"} /\ stateVersion \in Nat
  BY DEF TypeOK
<1> HIDE DEF s
<1>5. Ctl \in [phase : Phase, active : Phase \cup {"none"}, version : Nat, settled : BOOLEAN]
  BY <1>1, <1>2, <1>4
<1>6. /\ Ctl.phase = phase /\ Ctl.active = activePhase /\ Ctl.version = stateVersion
      /\ Ctl.settled = s
  BY <1>1
<1> QED BY <1>3, <1>5, <1>6, Zenon

LEMMA RecordUpdates ==
    ASSUME NEW c \in [phase : Phase, active : Phase \cup {"none"}, version : Nat, settled : BOOLEAN],
           NEW q \in Phase, NEW d, NEW e,
           d = [c EXCEPT !.settled = TRUE, !.phase = q, !.version = @ + 1],
           e = [c EXCEPT !.active = "none", !.settled = FALSE]
    PROVE  /\ d = [phase |-> q, active |-> c.active, version |-> c.version + 1, settled |-> TRUE]
           /\ e = [phase |-> c.phase, active |-> "none", version |-> c.version, settled |-> FALSE]
BY DEF Phase, Terminal

\* A handler that moves its phase where the graph allows takes a step of the graph.
LEMMA TurnStep ==
    ASSUME NEW p, phase = activePhase, activePhase # "none",
           activePhase \in Phase \ Terminal, p \in Control!Reaches[activePhase],
           pc \notin Settled, pc' \notin Settled,
           phase' = p, UNCHANGED <<activePhase, stateVersion>>
    PROVE  Control!Next
<1>1. Ctl' = [Ctl EXCEPT !.phase = p]
  BY DEF Ctl
<1>2. Ctl.active = activePhase /\ Ctl.phase = activePhase /\ ~Ctl.settled
  BY DEF Ctl
<1>3. Ctl' \in Control!Turns(Ctl)
  BY <1>1, <1>2 DEF Control!Turns
<1> QED BY <1>3 DEF Control!Next, Control!Turn, Ctl, Settled

\* So does one that counts the version, in the phase it has come to or in error.
LEMMA SettleStep ==
    ASSUME TypeOK, activePhase # "none", pc \notin Settled, pc' \in Settled,
           \/ phase' = phase /\ (phase # activePhase \/ activePhase = "execution")
           \/ phase' = "error" /\ phase # "finished",
           stateVersion' = stateVersion + 1, UNCHANGED activePhase
    PROVE  Control!Next
<1>1. (pc' \in Settled) = TRUE
  OBVIOUS
<1>4. Ctl' = [phase |-> phase', active |-> activePhase', version |-> stateVersion', settled |-> TRUE]
  BY <1>1, Zenon DEF Ctl
<1>5. [Ctl EXCEPT !.settled = TRUE, !.phase = phase', !.version = @ + 1]
        = [phase |-> phase', active |-> activePhase, version |-> stateVersion + 1, settled |-> TRUE]
  <2>1. phase' \in Phase
    BY DEF TypeOK, Phase, Terminal
  <2> QED BY <2>1, CtlRecord, RecordUpdates
<1>6. Ctl' = [Ctl EXCEPT !.settled = TRUE, !.phase = phase', !.version = @ + 1]
  BY <1>4, <1>5
<1>2. Ctl.active = activePhase /\ Ctl.phase = phase /\ ~Ctl.settled
  BY DEF Ctl
<1>3. phase' \in Control!Finals(Ctl)
  BY <1>2 DEF Control!Finals
<1>7. Ctl' \in Control!Settlings(Ctl)
  BY <1>6, <1>3 DEF Control!Settlings
<1> QED BY <1>7 DEF Control!Next, Control!Settle, Ctl, Settled

\* And one that leaves.
LEMMA EndStep ==
    ASSUME TypeOK, pc \in Settled, pc' = "idle", activePhase' = "none",
           UNCHANGED <<phase, stateVersion>>
    PROVE  Control!Next
<1>1. (pc' \in Settled) = FALSE
  BY DEF Settled
<1>2. Ctl' = [phase |-> phase', active |-> activePhase', version |-> stateVersion', settled |-> FALSE]
  BY <1>1, Zenon DEF Ctl
<1>3. [Ctl EXCEPT !.active = "none", !.settled = FALSE]
        = [phase |-> phase, active |-> "none", version |-> stateVersion, settled |-> FALSE]
  BY CtlRecord, RecordUpdates
<1>4. Ctl' = [Ctl EXCEPT !.active = "none", !.settled = FALSE]
  BY <1>2, <1>3
<1>5. Ctl.settled
  BY DEF Ctl
<1> QED BY <1>4, <1>5 DEF Control!Next, Control!End, Control!Ended, Ctl, Settled

LEMMA PhaseStep == IInv /\ CallOK /\ [Next]_vars => [Control!Next]_Ctl
<1> SUFFICES ASSUME IInv, CallOK, [Next]_vars PROVE Control!Next \/ UNCHANGED Ctl
  OBVIOUS
<1> USE DEF control, Settled
<1>f. /\ TypeOK /\ ControlOK /\ CallOK /\ phase \in Phase
      /\ activePhase \in Phase \cup {"none"}
  BY DEF IInv, TypeOK
<1>q. ASSUME UNCHANGED <<phase, activePhase, stateVersion>>,
             pc' \in Settled <=> pc \in Settled
      PROVE  UNCHANGED Ctl
  BY <1>q DEF Ctl
<1>1. CASE Advance
  <2>1. Ctl' = [Ctl EXCEPT !.active = phase] /\ Ctl.phase = phase /\ Ctl.active = "none"
    BY <1>1 DEF Advance, CanAdvance, Ctl
  <2>2. phase \notin Control!Closed
    BY <1>1 DEF Advance, CanAdvance, Terminal, Control!Closed
  <2>3. Control!Begin
    BY <1>1, <2>1, <2>2 DEF Advance, CanAdvance, Control!Begin, Control!CanBegin, Control!Begun, Ctl
  <2> QED BY <2>3 DEF Control!Next
<1>2. CASE RecordStarted
  BY <1>2, <1>q, <1>f DEF RecordStarted, Entry, Exhausted, Phase, Terminal, ControlOK
<1>3. CASE Complete
  BY <1>3, <1>f, SettleStep DEF Complete, CallOK, ControlOK, Phase
<1>4. CASE RecordCompleted
  BY <1>4, <1>f, EndStep DEF RecordCompleted, Leave
<1>5. CASE EnvStart
  BY <1>5, <1>q, <1>f DEF EnvStart
<1>6. CASE RecordRunStarted
  BY <1>6, <1>q, <1>f DEF RecordRunStarted
<1>7. CASE RecordInitial
  <2>1. phase = "start" /\ activePhase = "start"
    BY <1>7, <1>f DEF RecordInitial, ControlOK, CallOK, Unmoved
  <2>2. CASE phase' = "induction"
    BY <1>7, <1>f, <2>1, <2>2, TurnStep DEF RecordInitial, Control!Reaches, Phase, Terminal
  <2>3. CASE phase' = phase
    BY <1>7, <1>q, <2>3 DEF RecordInitial
  <2> QED BY <1>7, <2>2, <2>3 DEF RecordInitial
<1>8. CASE Revise
  BY <1>8, <1>q, <1>f DEF Revise
<1>9. CASE RecordModelExecuted
  <2>1. phase = activePhase /\ activePhase \in {"induction", "revision"}
    BY <1>9, <1>f DEF RecordModelExecuted, ControlOK, CallOK, Unmoved
  <2>2. CASE phase' = "planning"
    BY <1>9, <1>f, <2>1, <2>2, TurnStep DEF RecordModelExecuted, Control!Reaches, Phase, Terminal
  <2>3. CASE phase' = phase
    BY <1>9, <1>q, <2>3 DEF RecordModelExecuted
  <2> QED BY <1>9, <2>2, <2>3 DEF RecordModelExecuted
<1>10. CASE ChoosePlan
  BY <1>10, <1>q, <1>f DEF ChoosePlan
<1>11. CASE RecordCertified
  BY <1>11, <1>q, <1>f DEF RecordCertified
<1>12. CASE RecordCommitted
  <2>1. phase = "planning" /\ activePhase = "planning"
    BY <1>12, <1>f DEF RecordCommitted, ControlOK, CallOK, Unmoved
  <2> QED BY <1>12, <1>f, <2>1, TurnStep DEF RecordCommitted, Control!Reaches, Phase, Terminal
<1>13. CASE RecordIntent
  BY <1>13, <1>q, <1>f DEF RecordIntent
<1>14. CASE EnvStep
  BY <1>14, <1>q, <1>f DEF EnvStep
<1>15. CASE RecordRaw
  BY <1>15, <1>q, <1>f DEF RecordRaw
<1>16. CASE Compare
  BY <1>16, <1>q, <1>f DEF Compare
<1>17. CASE RecordAnalysis
  <2>1. phase = "execution" /\ activePhase = "execution"
    BY <1>17, <1>f DEF RecordAnalysis, ControlOK, CallOK, Unmoved
  <2>2. CASE phase' = "revision"
    BY <1>17, <1>f, <2>1, <2>2, TurnStep DEF RecordAnalysis, Control!Reaches, Phase, Terminal
  <2>3. CASE phase' = phase
    BY <1>17, <1>q, <2>3 DEF RecordAnalysis
  <2> QED BY <1>17, <2>2, <2>3 DEF RecordAnalysis
<1>18. CASE RecordObserved
  <2>1. /\ pc' \in {"record_invalidated", "complete", "record_finished"}
        /\ phase' = phase \/ (phase' = "planning" /\ ~Surprised)
        /\ UNCHANGED <<activePhase, stateVersion>> /\ pc \notin Settled
    BY <1>18, <1>f, SettleFacts DEF RecordObserved
  <2>2. activePhase = "execution" /\ (~Surprised => phase = "execution")
    BY <1>18, <1>f DEF RecordObserved, ControlOK, CallOK
  <2>3. CASE phase' = phase
    BY <1>q, <2>1, <2>3
  <2>4. CASE phase' = "planning" /\ ~Surprised
    BY <1>f, <2>1, <2>2, <2>4, TurnStep DEF Control!Reaches, Phase, Terminal
  <2> QED BY <2>1, <2>3, <2>4
<1>19. CASE RecordInvalidated
  <2>1. /\ pc' \in {"record_invalidated", "complete", "record_finished"}
        /\ phase' = phase \/ (phase' = "planning" /\ ~Surprised)
        /\ UNCHANGED <<activePhase, stateVersion>> /\ pc \notin Settled
    BY <1>19, <1>f, SettleFacts DEF RecordInvalidated
  <2>2. activePhase = "execution" /\ (~Surprised => phase = "execution")
    BY <1>19, <1>f DEF RecordInvalidated, ControlOK, CallOK
  <2>3. CASE phase' = phase
    BY <1>q, <2>1, <2>3
  <2>4. CASE phase' = "planning" /\ ~Surprised
    BY <1>f, <2>1, <2>2, <2>4, TurnStep DEF Control!Reaches, Phase, Terminal
  <2> QED BY <2>1, <2>3, <2>4
<1>20. CASE RecordFinished
  <2>1. phase = activePhase /\ phase \in {"start", "planning", "execution", "revision"}
    BY <1>20, <1>f DEF RecordFinished, ControlOK, CallOK, Unmoved, Phase, Terminal
  <2> QED BY <1>20, <1>f, <2>1, TurnStep DEF RecordFinished, Control!Reaches, Phase, Terminal
<1>21. CASE Raise
  <2>1. /\ pc \notin Settled /\ pc # "idle" /\ phase # "finished" /\ activePhase # "none"
        /\ UNCHANGED activePhase
    BY <1>21, <1>f DEF Raise, Throw, CallRaises, ControlOK, CallOK, Unmoved, Phase, Terminal
  <2>2. CASE OutcomeLost
    <3>1. pc \in {"env_step", "record_raw"}
      BY <1>21, <1>f, <2>2 DEF Raise, CallRaises, OutcomeLost, CallOK
    <3>2. phase = "execution" /\ activePhase = "execution"
      BY <1>f, <3>1 DEF ControlOK, CallOK, Unmoved
    <3>3. phase' = "outcome_unknown" /\ pc' = "record_unknown" /\ UNCHANGED stateVersion
      BY <1>21, <2>2 DEF Raise, Throw
    <3> QED BY <1>f, <2>1, <3>2, <3>3, TurnStep DEF Control!Reaches, Phase, Terminal
  <2>3. CASE ~OutcomeLost
    BY <1>21, <1>f, <2>1, <2>3, SettleStep DEF Raise, Throw, FailPhase
  <2> QED BY <2>2, <2>3
<1>22. CASE EnvStepLost
  <2>1. /\ pc \notin Settled /\ pc # "idle" /\ phase # "finished" /\ activePhase # "none"
        /\ UNCHANGED activePhase
    BY <1>22, <1>f DEF EnvStepLost, Throw, CallRaises, ControlOK, CallOK, Unmoved, Phase, Terminal
  <2>2. CASE OutcomeLost
    <3>1. pc \in {"env_step", "record_raw"}
      BY <1>22, <1>f, <2>2 DEF EnvStepLost, CallRaises, OutcomeLost, CallOK
    <3>2. phase = "execution" /\ activePhase = "execution"
      BY <1>f, <3>1 DEF ControlOK, CallOK, Unmoved
    <3>3. phase' = "outcome_unknown" /\ pc' = "record_unknown" /\ UNCHANGED stateVersion
      BY <1>22, <2>2 DEF EnvStepLost, Throw
    <3> QED BY <1>f, <2>1, <3>2, <3>3, TurnStep DEF Control!Reaches, Phase, Terminal
  <2>3. CASE ~OutcomeLost
    BY <1>22, <1>f, <2>1, <2>3, SettleStep DEF EnvStepLost, Throw, FailPhase
  <2> QED BY <2>2, <2>3
<1>23. CASE RecordUnknown
  BY <1>23, <1>f, SettleStep DEF RecordUnknown, CallOK, ControlOK
<1>24. CASE RaiseUnknown
  BY <1>24, <1>f, SettleStep DEF RaiseUnknown, FailPhase, CallOK, ControlOK
<1>25. CASE RecordFailed
  BY <1>25, <1>q, <1>f DEF RecordFailed
<1>26. CASE RecordRunError
  BY <1>26, <1>f, EndStep DEF RecordRunError, Leave
<1>27. CASE Unwind
  BY <1>27, <1>f, EndStep DEF Unwind, CloseRaises, Leave
<1>28. CASE UNCHANGED vars
  BY <1>28 DEF vars, Ctl
<1>29. CASE FinishUnreleased
  BY <1>29, <1>f, SettleStep DEF FinishUnreleased, FailPhase, CallOK, ControlOK, Phase, Terminal
<1> QED BY <1>1, <1>2, <1>3, <1>4, <1>5, <1>6, <1>7, <1>8, <1>9, <1>10, <1>11, <1>12, <1>13,
           <1>14, <1>15, <1>16, <1>17, <1>18, <1>19, <1>20, <1>21, <1>22, <1>23, <1>24,
           <1>25, <1>26, <1>27, <1>28, <1>29
           DEF Next, Step, Halted

-----------------------------------------------------------------------------
(* The game                                                                *)

\* What an execution that ends knows of the game.
LEMMA SettleSeen ==
    ASSUME IInv, SeenOK, Settle, pc \in Judged,
           UNCHANGED <<env, observation, transitions, finishAfterRevision>>
    PROVE  SeenOK'
<1>f. /\ TypeOK /\ call.status = env.status /\ phase = IF Surprised THEN "revision" ELSE "execution"
      /\ observation = env.status
      /\ phase = "revision" => finishAfterRevision = IF env.status = "WIN" THEN "terminal"
                               ELSE IF BudgetOut THEN "action_budget" ELSE "none"
  BY DEF IInv, ControlOK, SeenOK, Judged, Acted
<1>1. pc' \in {"complete", "record_finished"} /\ (BudgetOut' <=> BudgetOut)
  BY <1>f, SettleFacts DEF BudgetOut
<1>2. CASE Surprised
  <2>1. pc' = "complete" /\ phase' = phase /\ phase = "revision"
    BY <1>f, <1>2, SettleFacts
  <2> QED BY <1>f, <1>1, <2>1 DEF SeenOK, Acted, Judged
<1>3. CASE ~Surprised /\ pc' = "record_finished"
  <2>1. phase' = "execution" /\ call'.reason = Disposition /\ Disposition \in Reason
    BY <1>f, <1>3, SettleFacts
  <2>2. /\ Disposition = IF env.status = "WIN" THEN "terminal" ELSE "action_budget"
        /\ env.status # "WIN" => BudgetOut
    BY <1>f, <1>3, <2>1 DEF Disposition, Reason
  <2> QED BY <1>f, <1>1, <1>3, <2>1, <2>2 DEF SeenOK, Acted, Judged, Between
<1>4. CASE ~Surprised /\ pc' = "complete"
  <2>1. Disposition \in {"game_over", "replan", "continue"}
    BY <1>4 DEF Settle, Disposition, Reason
  <2>2. env.status # "WIN"
    BY <1>f, <1>4, <2>1 DEF Disposition
  <2>3. phase' = "execution" => env.status # "GAME_OVER"
    BY <1>f, <1>4, <2>1 DEF Settle, Disposition, Reason
  <2>4. phase' \in {"planning", "execution"}
    BY <1>f, <1>4, SettleFacts
  <2> QED BY <1>f, <1>1, <1>4, <2>2, <2>3, <2>4 DEF SeenOK, Acted, Judged, Between, Resets
<1> QED BY <1>1, <1>2, <1>3, <1>4

LEMMA SeenStep == IInv /\ CallOK /\ SeenOK /\ [Next]_vars => SeenOK'
<1> SUFFICES ASSUME IInv, CallOK, SeenOK, [Next]_vars PROVE SeenOK'
  OBVIOUS
<1> USE DEF SeenOK, ControlOK, control, theory, pending, Surprised, Terminal, Failed, Acted,
        Judged, Between, Resets, BudgetOut
<1>f. /\ IInv /\ TypeOK /\ ControlOK /\ SpendOK /\ SeenOK /\ call \in Call /\ env \in Game
      /\ phase \in Phase /\ Len(transitions) \in Nat
      /\ finishAfterRevision \in Reason \cup {"none"}
  BY FieldTypes DEF IInv, TypeOK
<1>g. phase \notin {"revision", "finished"} \cup Failed => finishAfterRevision = "none"
  BY DEF CallOK
<1>1. CASE Advance
  BY <1>1, <1>f DEF Advance, CanAdvance
<1>2. CASE RecordStarted
  <2>1. /\ UNCHANGED <<phase, observation, env, transitions, finishAfterRevision, pendingPlan>>
        /\ pc = "record_started" /\ call' = Locals
        /\ pc' = IF Exhausted THEN "record_finished" ELSE Entry(phase)
    BY <1>2 DEF RecordStarted
  <2>2. CASE Exhausted
    <3>1. phase \in {"planning", "execution"} /\ BudgetOut
      BY <1>f, <2>2, BudgetAssumption DEF Exhausted, Remaining
    <3> QED BY <1>f, <2>1, <2>2, <3>1, LocalsFields
  <2>3. CASE ~Exhausted
    <3>1. pc' \in {"env_start", "revise", "plan", "record_intent"}
          /\ (pc' = "record_intent" <=> phase = "execution")
      BY <1>f, <2>1, <2>3 DEF Entry, Phase
    <3> QED BY <1>f, <2>1, <2>3, <3>1, LocalsFields
  <2> QED BY <2>2, <2>3
<1>3. CASE Complete
  BY <1>3, <1>f DEF Complete
<1>4. CASE RecordCompleted
  BY <1>4, <1>f DEF RecordCompleted, Leave, NoCall
<1>5. CASE EnvStart
  BY <1>5, <1>f DEF EnvStart, Call, Game
<1>6. CASE RecordRunStarted
  BY <1>6, <1>f DEF RecordRunStarted
<1>7. CASE RecordInitial
  <2>1. /\ call' = [call EXCEPT !.reason = "terminal"] => call'.reason = "terminal"
        /\ phase = "start" /\ call.status = env.status
    BY <1>7, <1>f DEF RecordInitial, Call
  <2> QED BY <1>7, <1>f, <2>1 DEF RecordInitial
<1>8. CASE Revise
  BY <1>8, <1>f DEF Revise
<1>9. CASE RecordModelExecuted
  <2>1. finishAfterRevision # "none" => call'.reason = finishAfterRevision
    BY <1>9, <1>f, CallFields DEF RecordModelExecuted
  <2> QED BY <1>9, <1>f, <1>g, <2>1 DEF RecordModelExecuted, CommitModel
<1>10. CASE ChoosePlan
  <2>1. PICK p \in Plans(observation) : call' = [call EXCEPT !.plan = Clip(p)]
    BY <1>10 DEF ChoosePlan
  <2>2. observation = env.status /\ phase = "planning" /\ Remaining > 0
    BY <1>10, <1>f, BudgetAssumption DEF ChoosePlan, SpendOK, Remaining
  <2>3. call'.plan = Clip(p)
    BY <1>f, <2>1 DEF Call
  <2>4. env.status = "GAME_OVER" => Clip(p) = <<"RESET">>
    <3>1. SUFFICES ASSUME env.status = "GAME_OVER" PROVE Clip(p) = <<"RESET">>
      OBVIOUS
    <3>2. p = <<"RESET">>
      BY <2>1, <2>2, <3>1 DEF Plans
    <3>3. Len(p) = 1
      BY <3>2
    <3>4. Remaining \in Int
      BY <1>f, BudgetAssumption DEF Remaining
    <3> QED BY <2>2, <3>2, <3>3, <3>4 DEF Clip
  <2>5. Head(<<"RESET">>) = "RESET"
    OBVIOUS
  <2>6. Resets(call'.plan)
    BY <2>3, <2>4, <2>5
  <2> QED BY <1>10, <1>f, <2>2, <2>6 DEF ChoosePlan
<1>11. CASE RecordCertified
  BY <1>11, <1>f DEF RecordCertified
<1>12. CASE RecordCommitted
  BY <1>12, <1>f DEF RecordCommitted
<1>13. CASE RecordIntent
  <2>1. call'.plan = call.plan /\ phase = "execution"
    BY <1>13, <1>f DEF RecordIntent, Call
  <2>2. Resets(call'.plan)
    BY <1>13, <1>f, <2>1 DEF RecordIntent
  <2> QED BY <1>13, <1>f, <2>1, <2>2 DEF RecordIntent
<1>14. CASE EnvStep
  <2>1. call'.status = env'.status
    BY <1>14, <1>f DEF EnvStep, Spend, Call
  <2> QED BY <1>14, <1>f, <2>1 DEF EnvStep
<1>15. CASE RecordRaw
  BY <1>15, <1>f DEF RecordRaw
<1>16. CASE Compare
  BY <1>16, <1>f DEF Compare
<1>17. CASE RecordAnalysis
  <2>1. phase = "execution" /\ call.status = env.status
    BY <1>17, <1>f DEF RecordAnalysis
  <2> QED BY <1>17, <1>f, <2>1 DEF RecordAnalysis, BudgetOut
<1>18. CASE RecordObserved
  <2>1. /\ UNCHANGED <<env, observation, transitions, finishAfterRevision>> /\ pc \in Judged
        /\ \/ pc' = "record_invalidated" /\ UNCHANGED <<phase, pending, call>>
           \/ Settle
    BY <1>18 DEF RecordObserved
  <2>2. CASE pc' = "record_invalidated" /\ UNCHANGED <<phase, pending, call>>
    BY <1>f, <2>1, <2>2
  <2>3. CASE Settle
    BY <1>f, <2>1, <2>3, SettleSeen
  <2> QED BY <2>1, <2>2, <2>3
<1>19. CASE RecordInvalidated
  <2>1. /\ UNCHANGED <<env, observation, transitions, finishAfterRevision>> /\ pc \in Judged
        /\ \/ pc' = "record_invalidated" /\ UNCHANGED <<phase, pending, call>>
           \/ Settle
    BY <1>19 DEF RecordInvalidated
  <2>2. CASE pc' = "record_invalidated" /\ UNCHANGED <<phase, pending, call>>
    BY <1>f, <2>1, <2>2
  <2>3. CASE Settle
    BY <1>f, <2>1, <2>3, SettleSeen
  <2> QED BY <2>1, <2>2, <2>3
<1>20. CASE RecordFinished
  BY <1>20, <1>f DEF RecordFinished, ClearPending
<1>21. CASE Raise
  BY <1>21, <1>f DEF Raise, Throw, FailPhase, ClearPending, CallRaises
<1>22. CASE EnvStepLost
  BY <1>22, <1>f DEF EnvStepLost, Throw, FailPhase, ClearPending, Spend
<1>23. CASE RecordUnknown
  BY <1>23, <1>f DEF RecordUnknown
<1>24. CASE RaiseUnknown
  BY <1>24, <1>f DEF RaiseUnknown, FailPhase
<1>25. CASE RecordFailed
  BY <1>25, <1>f DEF RecordFailed
<1>26. CASE RecordRunError
  BY <1>26, <1>f DEF RecordRunError, Leave, NoCall
<1>27. CASE Unwind
  BY <1>27, <1>f DEF Unwind, CloseRaises, Leave, NoCall
<1>28. CASE UNCHANGED vars
  BY <1>28, <1>f DEF vars
<1>29. CASE FinishUnreleased
  BY <1>29, <1>f DEF FinishUnreleased, FailPhase
<1> QED BY <1>1, <1>2, <1>3, <1>4, <1>5, <1>6, <1>7, <1>8, <1>9, <1>10, <1>11, <1>12, <1>13,
           <1>14, <1>15, <1>16, <1>17, <1>18, <1>19, <1>20, <1>21, <1>22, <1>23, <1>24,
           <1>25, <1>26, <1>27, <1>28, <1>29
           DEF Next, Step, Halted

-----------------------------------------------------------------------------
(* The end of a run                                                        *)

\* A record of a kind that is no verdict leaves the verdicts alone.
LEMMA NoVerdict ==
    ASSUME store \in [Kind -> Seq(Event)], NEW k \in Kind \ {"run_finished", "run_error"},
           NEW e, Record(k, e)
    PROVE  UNCHANGED <<store["run_finished"], store["run_error"]>>
BY DEF Record, Kind

\* A step inside a call that ends nothing.
LEMMA EndFrame ==
    ASSUME EndOK, pc \notin Closing, phase' # "finished", result' = result,
           UNCHANGED <<store["run_finished"], store["run_error"]>>
    PROVE  EndOK'
<1>1. /\ Len(store["run_finished"]) = 0 /\ Len(store["run_error"]) = 0
      /\ phase # "finished"
  BY DEF EndOK, Closing
<1> QED BY <1>1 DEF EndOK

\* The last record of a run and what it states, whether its process is released or not.
LEMMA FinishRecord ==
    ASSUME IInv, CallOK, JudgedOK, SeenOK, EndOK, pc = "record_finished", AppendFinished,
           UNCHANGED <<env, transitions, explains>>
    PROVE  /\ Len(store["run_finished"]) = 0 /\ Len(store["run_error"]) = 0
           /\ Len(store'["run_finished"]) = 1 /\ Len(store'["run_error"]) = 0
           /\ Accounted'
           /\ call.reason = IF env.status = "WIN" THEN "terminal" ELSE "action_budget"
           /\ Len(transitions) = env.spent
<1>f. /\ TypeOK /\ phase \notin Terminal /\ call.reason \in Reason
      /\ Len(transitions) = Len(Raws) /\ Len(Intents) <= Budget
      /\ env.spent = Len(Raws) /\ Len(Intents) = Len(Raws)
  BY DEF IInv, ControlOK, SpendOK, Terminal, Failed
<1>n. Len(transitions) \in Nat /\ env.spent \in Nat /\ revisionCount \in Nat
  BY <1>f, FieldTypes DEF TypeOK
<1>1. /\ call.reason = IF env.status = "WIN" THEN "terminal" ELSE "action_budget"
      /\ env.status # "WIN" => Len(transitions) >= Budget
  BY <1>f DEF SeenOK, BudgetOut
<1>2. transitions # <<>> => explains = 1..Len(transitions)
  <2>1. phase \in {"start", "planning", "execution", "revision"}
    BY <1>f DEF CallOK, TypeOK, Phase, Terminal
  <2>2. phase = "start" => transitions = <<>>
    BY <1>f, EmptySeq DEF JudgedOK, TypeOK
  <2> QED BY <1>f, <2>1, <2>2 DEF JudgedOK
<1> DEFINE e == [Blank EXCEPT !.at = Len(transitions), !.model = revisionCount]
<1>3. e \in Event /\ e.at = Len(transitions)
  BY <1>n, EventUpdates DEF Blank
<1>4. store \in [Kind -> Seq(Event)] /\ Record("run_finished", e)
  BY <1>f DEF TypeOK, AppendFinished
<1> HIDE DEF e
<1>5. /\ Len(store'["run_finished"]) = Len(store["run_finished"]) + 1
      /\ store'["run_finished"][Len(store["run_finished"]) + 1] = e
      /\ UNCHANGED <<store["run_error"], Intents>>
  <2>1. {"run_finished", "run_error", "action_intent"} \subseteq Kind
    BY DEF Kind
  <2> QED BY <1>3, <1>4, <2>1, RecordAppends DEF Intents
<1>6. Len(store["run_finished"]) = 0 /\ Len(store["run_error"]) = 0
  BY <1>f DEF EndOK, Terminal, Closing
<1>7. Accounted'
  BY <1>f, <1>n, <1>1, <1>2, <1>3, <1>5, <1>6, BudgetAssumption DEF Accounted
<1> QED BY <1>f, <1>1, <1>5, <1>6, <1>7

LEMMA FinishStep ==
    ASSUME IInv, CallOK, JudgedOK, SeenOK, EndOK, RecordFinished \/ FinishUnreleased
    PROVE  EndOK'
<1>1. pc = "record_finished" /\ AppendFinished /\ UNCHANGED <<env, transitions, explains>>
  BY DEF RecordFinished, FinishUnreleased, theory
<1>2. /\ Len(store'["run_finished"]) = 1 /\ Len(store'["run_error"]) = 0 /\ Accounted'
      /\ call.reason = IF env.status = "WIN" THEN "terminal" ELSE "action_budget"
      /\ Len(transitions) = env.spent
  BY <1>1, FinishRecord
<1>3. CASE RecordFinished
  <2>1. /\ phase' = "finished" /\ pc' = "complete"
        /\ result'.reason = call.reason /\ result'.actions = Len(transitions)
    BY <1>3 DEF RecordFinished
  <2> QED BY <1>1, <1>2, <2>1 DEF EndOK, Closing, Stated
<1>4. CASE FinishUnreleased
  <2>1. /\ phase' = "error" /\ pc' = "record_failed" /\ result' = result
        /\ "close" \in Faults /\ phase # "finished"
    BY <1>4 DEF FinishUnreleased, FailPhase, IInv, ControlOK, Terminal
  <2> QED BY <1>2, <2>1 DEF EndOK, Closing
<1> QED BY <1>3, <1>4

LEMMA EndsStep ==
    IInv /\ CallOK /\ JudgedOK /\ SeenOK /\ EndOK /\ [Next]_vars => EndOK'
<1> SUFFICES ASSUME IInv, CallOK, JudgedOK, SeenOK, EndOK, [Next]_vars PROVE EndOK'
  OBVIOUS
<1>f. TypeOK /\ ControlOK /\ store \in [Kind -> Seq(Event)]
  BY DEF IInv, TypeOK
<1>s. \A k \in Kind \ {"run_finished", "run_error"} : \A e :
         Record(k, e) => UNCHANGED <<store["run_finished"], store["run_error"]>>
  BY <1>f, NoVerdict
<1>k. {"interactive_phase_started", "interactive_phase_completed",
       "interactive_phase_failed", "run_started", "initial_observation",
       "model_executed", "controller_plan_certified", "plan_committed",
       "action_intent", "transition_raw", "transition_analysis",
       "action_observed", "plan_invalidated", "action_outcome_unknown"}
        \subseteq Kind \ {"run_finished", "run_error"}
  BY DEF Kind
<1>1. CASE Advance \/ UNCHANGED vars
  <2>1. UNCHANGED <<phase, result, env, store, transitions, explains>>
    BY <1>1 DEF Advance, vars, control, theory
  <2>2. pc = pc' \/ phase \notin Terminal
    BY <1>1 DEF Advance, CanAdvance, vars
  <2> QED BY <2>1, <2>2 DEF EndOK, Accounted, Stated, Closing, Terminal, Failed, Intents
<1>2. CASE RecordFinished \/ FinishUnreleased
  BY <1>2, FinishStep
<1>3. CASE Complete \/ RecordCompleted \/ RecordFailed \/ Unwind
  <2>1. /\ UNCHANGED <<phase, result, env, transitions, explains>>
        /\ pc \in {"complete", "record_completed", "record_failed", "record_run_error"}
        /\ pc' \in {"record_completed", "record_run_error", "idle"}
        /\ pc \in {"complete", "record_completed"} => pc' \in {"record_completed", "idle"}
    BY <1>3 DEF Complete, RecordCompleted, RecordFailed, Unwind, CloseRaises, Leave, theory,
       control
  <2>2. UNCHANGED <<store["run_finished"], store["run_error"], Intents>>
    <3>1. CASE RecordCompleted
      <4>1. UNCHANGED Intents
        BY <1>f, <3>1 DEF RecordCompleted, Record, Kind, Intents
      <4> QED BY <1>s, <1>k, <3>1, <4>1 DEF RecordCompleted
    <3>2. CASE RecordFailed
      <4>1. UNCHANGED Intents
        BY <1>f, <3>2 DEF RecordFailed, Record, Kind, Intents
      <4> QED BY <1>s, <1>k, <3>2, <4>1 DEF RecordFailed
    <3> QED BY <1>3, <3>1, <3>2 DEF Complete, Unwind, Intents
  <2> QED BY <2>1, <2>2 DEF EndOK, Accounted, Stated, Closing
<1>5. CASE RecordRunError
  <2>1. /\ Len(store'["run_error"]) = Len(store["run_error"]) + 1
        /\ UNCHANGED <<store["run_finished"], Intents>>
    <3>1. {"run_finished", "run_error", "action_intent"} \subseteq Kind
      BY DEF Kind
    <3> QED BY <1>5, <1>f, <3>1, BlankType, RecordAppends DEF RecordRunError, Intents
  <2>2. /\ phase \in Failed /\ pc # "idle" /\ pc' = "idle"
        /\ UNCHANGED <<phase, result, env, transitions, explains>>
    BY <1>5, <1>f DEF RecordRunError, Leave, ControlOK, theory
  <2> QED BY <2>1, <2>2 DEF EndOK, Failed, Accounted, Closing
<1>6. ASSUME ~Advance, ~(UNCHANGED vars), ~RecordFinished, ~FinishUnreleased, ~Complete,
             ~RecordCompleted, ~RecordFailed, ~Unwind, ~RecordRunError
      PROVE  EndOK'
  <2>1. /\ pc \notin Closing /\ result' = result
        /\ phase' # "finished" \/ phase' = phase
    <3>1. CASE RecordStarted \/ EnvStart \/ RecordRunStarted \/ RecordInitial \/ Revise
               \/ RecordModelExecuted \/ ChoosePlan \/ RecordCertified \/ RecordCommitted
      BY <3>1 DEF RecordStarted, EnvStart, RecordRunStarted, RecordInitial, Revise,
         RecordModelExecuted, ChoosePlan, RecordCertified, RecordCommitted, control,
         Closing
    <3>2. CASE RecordIntent \/ EnvStep \/ RecordRaw \/ Compare \/ RecordAnalysis
               \/ RecordUnknown
      BY <3>2 DEF RecordIntent, EnvStep, RecordRaw, Compare, RecordAnalysis, RecordUnknown,
         control, Closing
    <3>3. CASE RecordObserved \/ RecordInvalidated
      <4>1. pc \in {"record_observed", "record_invalidated"} /\ result' = result
        BY <3>3 DEF RecordObserved, RecordInvalidated
      <4>2. Settle \/ phase' = phase
        BY <3>3 DEF RecordObserved, RecordInvalidated
      <4> QED BY <1>f, <4>1, <4>2, SettleFacts DEF Closing
    <3>4. CASE Raise \/ EnvStepLost \/ RaiseUnknown
      BY <3>4 DEF Raise, EnvStepLost, RaiseUnknown, Throw, FailPhase, CallRaises, Closing
    <3> QED BY <1>6, <3>1, <3>2, <3>3, <3>4 DEF Next, Step, Halted
  <2>2. phase' # "finished"
    BY <2>1 DEF EndOK, Closing
  <2>3. UNCHANGED <<store["run_finished"], store["run_error"]>>
    <3>1. CASE RecordStarted \/ RecordRunStarted \/ RecordInitial \/ RecordModelExecuted
               \/ RecordCertified \/ RecordCommitted \/ RecordIntent \/ RecordRaw
      BY <3>1, <1>s, <1>k DEF RecordStarted, RecordRunStarted, RecordInitial,
         RecordModelExecuted, RecordCertified, RecordCommitted, RecordIntent, RecordRaw
    <3>2. CASE RecordAnalysis \/ RecordObserved \/ RecordInvalidated \/ RecordUnknown
      BY <3>2, <1>s, <1>k DEF RecordAnalysis, AppendAnalysis, RecordObserved,
         RecordInvalidated, RecordUnknown
    <3>3. CASE EnvStart \/ Revise \/ ChoosePlan \/ EnvStep \/ Compare \/ Raise
               \/ EnvStepLost \/ RaiseUnknown
      BY <3>3 DEF EnvStart, Revise, ChoosePlan, EnvStep, Compare, Raise, EnvStepLost,
         RaiseUnknown, Throw
    <3> QED BY <1>6, <3>1, <3>2, <3>3 DEF Next, Step, Halted
  <2> QED BY <2>1, <2>2, <2>3, EndFrame
<1> QED BY <1>1, <1>2, <1>3, <1>5, <1>6

-----------------------------------------------------------------------------
(* The theorems                                                            *)

JInv == IInv /\ CallOK /\ JudgedOK /\ SeenOK /\ EndOK

LEMMA JudgedInit == Init => JInv
<1> SUFFICES ASSUME Init PROVE JInv
  OBVIOUS
<1>1. CallOK
  BY DEF Init, CallOK, NoCall, Unmoved, Failed
<1>2. JudgedOK
  BY EmptySeq DEF Init, JudgedOK
<1>3. SeenOK
  BY DEF Init, SeenOK, Acted, Judged, Failed
<1>4. EndOK
  <2>1. {"run_finished", "run_error"} \subseteq Kind
    BY DEF Kind
  <2>2. store["run_finished"] = <<>> /\ store["run_error"] = <<>>
    BY <2>1 DEF Init
  <2> QED BY <2>2, EmptySeq DEF Init, EndOK
<1> QED BY <1>1, <1>2, <1>3, <1>4, InvInit DEF JInv

\* What a call has in hand, what the model reproduces, what is known of the game and what
\* ends a run, for every budget, plan length and set of faults.
THEOREM JudgedCorrect == Spec => []JInv
<1>1. JInv /\ [Next]_vars => JInv'
  BY InvNext, CallStep, JudgedStep, SeenStep, EndsStep DEF JInv
<1> QED BY JudgedInit, <1>1, PTL DEF Spec

\* Evidence is bought only with a model that reproduces all of it so far, judged before
\* the next is bought, and a refuted model is replaced by one that reproduces them all
\* (interactive.py _execute_one, _revise; agent_journal.py transition).
THEOREM TheoryImplemented == Spec => ImplementsTheory
<1>1. Init => Model!Init
  BY EmptySeq DEF Init, Model!Init, Standing
<1>2. JInv /\ [Next]_vars => [Model!Next]_(Model!theoryVars)
  BY TheoryStep DEF JInv
<1> QED BY <1>1, <1>2, JudgedCorrect, PTL DEF Spec, ImplementsTheory, Model!Spec

\* On every path, failures of the failure handlers included, a call of advance() follows
\* the phase graph and counts exactly one new version between its last move and the
\* release of its slot (interactive.py:86-172).
THEOREM PhaseControlImplemented == Spec => ImplementsPhaseControl
<1>1. Init => Control!Init
  <2> SUFFICES ASSUME Init PROVE Control!Init
    OBVIOUS
  <2>1. (pc \in {"record_completed", "record_failed", "record_run_error"}) = FALSE
    BY DEF Init
  <2> QED BY <2>1 DEF Init, Control!Init, Control!Fresh
<1>2. JInv /\ [Next]_vars => [Control!Next]_Ctl
  BY PhaseStep DEF JInv
<1> QED BY <1>1, <1>2, JudgedCorrect, PTL DEF Spec, ImplementsPhaseControl, Control!Spec, Ctl, Settled

\* No action is spent with a model that has a transition unexplained, on a game that is
\* won, or, at GAME_OVER, on anything but RESET (interactive.py _plan, _execute_one).
THEOREM SpendsAreJustified == Spec => SpendJustified
<1> DEFINE Justified == /\ explains = 1..Len(transitions)
                        /\ env.status # "WIN"
                        /\ env.status = "GAME_OVER" => Head(call.plan) = "RESET"
<1>1. ASSUME JInv, [Next]_vars, env'.spent # env.spent
      PROVE  Justified
  <2>1. pc = "env_step"
    <3>1. CASE Advance \/ Halted \/ UNCHANGED vars
      BY <1>1, <3>1 DEF Advance, Halted, vars
    <3>2. CASE RecordStarted \/ Complete \/ RecordCompleted \/ RecordRunStarted
               \/ RecordInitial \/ Revise \/ RecordModelExecuted \/ ChoosePlan
               \/ RecordCertified \/ RecordCommitted
      BY <1>1, <3>2 DEF RecordStarted, Complete, RecordCompleted, RecordRunStarted,
         RecordInitial, Revise, RecordModelExecuted, ChoosePlan, RecordCertified,
         RecordCommitted
    <3>3. CASE RecordIntent \/ RecordRaw \/ Compare \/ RecordAnalysis \/ RecordObserved
               \/ RecordInvalidated \/ RecordFinished \/ FinishUnreleased \/ Raise
      BY <1>1, <3>3 DEF RecordIntent, RecordRaw, Compare, RecordAnalysis, RecordObserved,
         RecordInvalidated, RecordFinished, FinishUnreleased, Raise
    <3>4. CASE RecordUnknown \/ RaiseUnknown \/ RecordFailed \/ RecordRunError \/ Unwind
      BY <1>1, <3>4 DEF RecordUnknown, RaiseUnknown, RecordFailed, RecordRunError, Unwind
    <3>5. CASE EnvStart
      <4>1. env \in Game
        BY <1>1 DEF JInv, IInv, TypeOK
      <4> QED BY <1>1, <3>5, <4>1 DEF EnvStart, Game
    <3>6. CASE EnvStep \/ EnvStepLost
      BY <3>6 DEF EnvStep, EnvStepLost
    <3> QED BY <1>1, <3>1, <3>2, <3>3, <3>4, <3>5, <3>6 DEF Next, Step
  <2>2. phase = "execution" /\ JudgedOK /\ SeenOK
    BY <1>1, <2>1 DEF JInv, IInv, ControlOK
  <2> QED BY <2>1, <2>2 DEF JudgedOK, SeenOK, Resets, Acted, Judged
<1>2. JInv /\ [Next]_vars => [env'.spent # env.spent => Justified]_vars
  BY <1>1
<1> QED BY <1>2, JudgedCorrect, PTL DEF Spec, SpendJustified

\* A run finishes at most once, the result in memory is the one on record, and what is on
\* record as finished accounts for every action with a model that explains them all, also
\* when the process of that model would not end (interactive.py:385 and 513).
THEOREM FinishCorrect == Spec => []FinishExplained
<1>1. ASSUME JInv
      PROVE  FinishExplained
  <2>1. EndOK /\ store["run_finished"] \in Seq(Event) /\ store["run_error"] \in Seq(Event)
    BY <1>1 DEF JInv, IInv, TypeOK, Kind
  <2>2. /\ store["run_finished"] # <<>> <=> Len(store["run_finished"]) # 0
        /\ store["run_error"] = <<>> <=> Len(store["run_error"]) = 0
    BY <2>1, EmptySeq
  <2>3. Len(store["run_finished"]) <= 1 /\ Len(store["run_error"]) <= 1
    <3> DEFINE errors == Len(store["run_error"])
    <3>1. errors = 0 \/ errors = 1
      BY <2>1, Zenon DEF EndOK
    <3>2. errors <= 1
      <4> HIDE DEF errors
      <4> QED BY <3>1
    <3>3. Len(store["run_finished"]) <= 1
      BY <2>1, Zenon DEF EndOK
    <3> QED BY <3>2, <3>3, Zenon
  <2>4. ASSUME phase = "finished"
        PROVE  store["run_finished"] # <<>> /\ store["run_error"] = <<>> /\ Stated
    <3>1. Len(store["run_finished"]) = 1 /\ Len(store["run_error"]) = 0 /\ Stated
      BY <2>1, <2>4 DEF EndOK, Failed
    <3> QED BY <2>2, <3>1
  <2>5. ASSUME store["run_finished"] # <<>>
        PROVE  Accounted /\ (phase = "finished" \/ ("close" \in Faults /\ phase = "error"))
    <3>1. Len(store["run_finished"]) # 0
      BY <2>2, <2>5
    <3> QED BY <2>1, <3>1 DEF EndOK
  <2>6. result.reason # "none" <=> phase = "finished"
    BY <2>1 DEF EndOK
  <2> QED BY <2>3, <2>4, <2>5, <2>6 DEF FinishExplained, Accounted, Stated
<1> QED BY <1>1, JudgedCorrect, PTL
=============================================================================
