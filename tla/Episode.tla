------------------------------ MODULE Episode ------------------------------
(***************************************************************************)
(* One game episode: the phase controller InteractiveEpisode, the journal  *)
(* that writes its evidence, and the executor that spends one real action. *)
(*                                                                         *)
(* A call of advance() runs one phase.  It is modelled at the granularity  *)
(* of its external calls: every durable append, every environment call and *)
(* every call of the revision or planning service is a step of its own,    *)
(* and each of them may raise.  `pc' names the next call of the phase in   *)
(* flight and `call' holds the locals of its handlers.  A crash of the     *)
(* process needs no action: nothing resumes an episode, so what a crash    *)
(* leaves behind is what `store' and `env' hold in some reachable state.   *)
(***************************************************************************)
EXTENDS Integers, Sequences

CONSTANTS
    Budget,     \* action_budget: real actions the episode may spend
    MaxPlan,    \* longest plan the planning service returns
    Faults      \* kinds of external calls that may go wrong

ASSUME BudgetAssumption == Budget \in Nat \ {0}
ASSUME MaxPlanAssumption == MaxPlan \in Nat \ {0}
ASSUME FaultsAssumption ==
    Faults \subseteq {"store", "environment", "service", "shape", "close"}

VARIABLES
    \* --- InteractiveEpisode
    phase, activePhase, stateVersion,
    observation,        \* status of the latest observation, or "none"
    transitions,        \* history.transitions
    program,            \* digest of the committed model; 0 is None
    modelState,         \* the state of that model: transitions folded into it
    explains,           \* the transitions the committed model reproduces
    revisionCount, latestMismatch, finishAfterRevision,
    pendingPlan, pendingPlanId,
    result,
    \* --- the call of advance() in flight
    pc, call,
    outcome,            \* how the latest call of advance() ended
    \* --- outside the process
    env,                \* the game: actions applied to it and its status
    store               \* the durable events of the run, by kind

control == <<phase, activePhase, stateVersion, outcome>>
theory  == <<program, modelState, explains, revisionCount, latestMismatch,
             finishAfterRevision>>
pending == <<pendingPlan, pendingPlanId>>
vars    == <<control, theory, pending, observation, transitions, result,
             pc, call, env, store>>

-----------------------------------------------------------------------------
Status   == {"NOT_FINISHED", "WIN", "GAME_OVER"}  \* NOT_PLAYED is treated as NOT_FINISHED
Action   == {"RESET", "ACT"}        \* RESET, and any action of the game itself
Reason   == {"terminal", "action_budget"}
Verdict  == {"match", "mismatch", "reshaped"}
Terminal == {"finished", "error", "outcome_unknown"}
Phase    == {"start", "induction", "planning", "execution", "revision"}
              \cup Terminal
Kind     == {"interactive_phase_started", "interactive_phase_completed",
             "interactive_phase_failed", "run_started", "initial_observation",
             "model_executed", "controller_plan_certified", "plan_committed",
             "action_intent", "transition_raw", "transition_analysis",
             "action_observed", "plan_invalidated", "action_outcome_unknown",
             "run_finished", "run_error"}

Label    == {"idle", "record_started", "complete", "record_completed",
             "env_start", "record_run_started", "record_initial",
             "revise", "record_model_executed",
             "plan", "record_certified", "record_committed",
             "record_intent", "env_step", "record_raw", "compare",
             "record_analysis", "record_observed", "record_invalidated",
             "record_finished", "record_unknown", "record_failed",
             "record_run_error"}

\* The linkage fields of an event's payload; a kind without a field keeps its blank.
Event == [action : Action \cup {"none"}, plan : Nat, model : Nat,
          version : Nat, at : Nat]
Blank == [action |-> "none", plan |-> 0, model |-> 0, version |-> 0, at |-> 0]

Transition == [action : Action, before : Status, after : Status]
Result == [reason : Reason \cup {"none"}, status : Status \cup {"none"},
           actions : Nat, revisions : Nat]
Game   == [spent : Nat, status : Status \cup {"none"}]
Call   == [plan : Seq(Action), planId : Nat, program : Nat,
           status : Status \cup {"none"}, verdict : Verdict,
           reason : Reason \cup {"none"}, intended : BOOLEAN, before : Nat]

\* The planning service.  At GAME_OVER it answers with RESET alone.
Plans(status) ==
    IF status = "GAME_OVER" THEN {<<"RESET">>}
    ELSE UNION {[1..n -> Action] : n \in 1..MaxPlan}

NoCall == [plan |-> <<>>, planId |-> 0, program |-> 0, status |-> "none",
           verdict |-> "match", reason |-> "none", intended |-> FALSE,
           before |-> 0]

-----------------------------------------------------------------------------
Remaining     == Budget - Len(transitions)
Clip(plan)    == IF Len(plan) > Remaining THEN SubSeq(plan, 1, Remaining) ELSE plan
Record(k, e)  == store' = [store EXCEPT ![k] = Append(@, e)]
ClearPending  == pendingPlan' = <<>> /\ pendingPlanId' = 0
CanAdvance    == activePhase = "none" /\ phase \notin Terminal
Exhausted     == phase \in {"planning", "execution"} /\ Remaining <= 0

\* Where a handler makes its first external call.
Entry(p) ==
    CASE p = "start"                 -> "env_start"
      [] p \in {"induction", "revision"} -> "revise"
      [] p = "planning"              -> "plan"
      [] p = "execution"             -> "record_intent"

\* The locals a handler sets before that call.
Locals ==
    IF Exhausted THEN [NoCall EXCEPT !.reason = "action_budget"]
    ELSE IF phase = "execution"
    THEN [NoCall EXCEPT !.plan = pendingPlan, !.planId = pendingPlanId,
                        !.before = Len(transitions)]
    ELSE NoCall

Init ==
    /\ phase = "start" /\ activePhase = "none" /\ stateVersion = 0
    /\ outcome = "none"
    /\ observation = "none" /\ transitions = <<>>
    /\ program = 0 /\ modelState = 0 /\ explains = {}
    /\ revisionCount = 0 /\ latestMismatch = FALSE
    /\ finishAfterRevision = "none"
    /\ pendingPlan = <<>> /\ pendingPlanId = 0
    /\ result = [reason |-> "none", status |-> "none", actions |-> 0, revisions |-> 0]
    /\ pc = "idle" /\ call = NoCall
    /\ env = [spent |-> 0, status |-> "none"]
    /\ store = [k \in Kind |-> <<>>]

-----------------------------------------------------------------------------
(* advance(): the common prologue and epilogue.                            *)

Advance ==
    /\ pc = "idle" /\ CanAdvance
    /\ activePhase' = phase
    /\ outcome' = "none"
    /\ pc' = "record_started"
    /\ UNCHANGED <<phase, stateVersion, theory, pending, observation,
                   transitions, result, call, env, store>>

RecordStarted ==
    /\ pc = "record_started"
    /\ Record("interactive_phase_started",
              [Blank EXCEPT !.version = stateVersion, !.at = Len(transitions)])
    /\ call' = Locals
    /\ pc' = IF Exhausted THEN "record_finished" ELSE Entry(phase)
    /\ UNCHANGED <<control, theory, pending, observation, transitions, result, env>>

Complete ==
    /\ pc = "complete"
    /\ stateVersion' = stateVersion + 1
    /\ pc' = "record_completed"
    /\ UNCHANGED <<phase, activePhase, outcome, theory, pending, observation,
                   transitions, result, call, env, store>>

\* Leave advance(): the finally clause gives the phase slot back.
Leave(how) ==
    /\ activePhase' = "none"
    /\ outcome' = how
    /\ call' = NoCall
    /\ pc' = "idle"

RecordCompleted ==
    /\ pc = "record_completed"
    /\ Record("interactive_phase_completed",
              [Blank EXCEPT !.version = stateVersion, !.at = Len(transitions)])
    /\ Leave("returned")
    /\ UNCHANGED <<phase, stateVersion, theory, pending, observation, transitions,
                   result, env>>

-----------------------------------------------------------------------------
(* START                                                                   *)

\* Faulty variant of EnvStart: the first observation is not kept.
EnvStartUnseen ==
    /\ pc = "env_start"
    /\ \E s \in Status : env' = [env EXCEPT !.status = s]
    /\ pc' = "record_run_started"
    /\ UNCHANGED <<control, theory, pending, observation, transitions, result, call,
                   store>>

EnvStart ==
    /\ pc = "env_start"
    /\ \E s \in Status :
         /\ env' = [env EXCEPT !.status = s]
         /\ call' = [call EXCEPT !.status = s]
    /\ pc' = "record_run_started"
    /\ UNCHANGED <<control, theory, pending, observation, transitions, result, store>>

RecordRunStarted ==
    /\ pc = "record_run_started"
    /\ Record("run_started", Blank)
    /\ pc' = "record_initial"
    /\ UNCHANGED <<control, theory, pending, observation, transitions, result,
                   call, env>>

RecordInitial ==
    /\ pc = "record_initial"
    /\ Record("initial_observation", Blank)
    /\ observation' = call.status
    /\ IF call.status = "WIN"
       THEN /\ call' = [call EXCEPT !.reason = "terminal"]
            /\ pc' = "record_finished"
            /\ phase' = phase
       ELSE /\ phase' = "induction"
            /\ pc' = "complete"
            /\ call' = call
    /\ UNCHANGED <<activePhase, stateVersion, outcome, theory, pending, transitions,
                   result, env>>

-----------------------------------------------------------------------------
(* INDUCTION and REVISION: the revision service answers with a model it    *)
(* has replayed over the whole history.  A digest is named by the number   *)
(* of the revision that produced it.                                       *)

Revise ==
    /\ pc = "revise"
    /\ call' = [call EXCEPT !.program = revisionCount + 1]
    /\ pc' = "record_model_executed"
    /\ UNCHANGED <<control, theory, pending, observation, transitions, result, env,
                   store>>

\* Faulty variant of CommitModel: the new model starts in the state of the old one.
CommitModelNoReplay ==
    /\ program' = call.program
    /\ modelState' = modelState
    /\ explains' = 1..Len(transitions)
    /\ revisionCount' = revisionCount + 1
    /\ latestMismatch' = FALSE
    /\ finishAfterRevision' = "none"

\* Faulty variant of CommitModel: the new model was checked on the latest transition only.
CommitModelLatestOnly ==
    /\ program' = call.program
    /\ modelState' = Len(transitions)
    /\ explains' = {Len(transitions)} \ {0}
    /\ revisionCount' = revisionCount + 1
    /\ latestMismatch' = FALSE
    /\ finishAfterRevision' = "none"

CommitModel ==
    /\ program' = call.program
    /\ modelState' = Len(transitions)
    /\ explains' = 1..Len(transitions)
    /\ revisionCount' = revisionCount + 1
    /\ latestMismatch' = FALSE
    /\ finishAfterRevision' = "none"

RecordModelExecuted ==
    /\ pc = "record_model_executed"
    /\ Record("model_executed",
              [Blank EXCEPT !.model = call.program, !.at = Len(transitions)])
    /\ CommitModel
    /\ IF finishAfterRevision = "none"
       THEN /\ phase' = "planning"
            /\ pc' = "complete"
            /\ call' = call
       ELSE /\ call' = [call EXCEPT !.reason = finishAfterRevision]
            /\ pc' = "record_finished"
            /\ phase' = phase
    /\ UNCHANGED <<activePhase, stateVersion, outcome, pending, observation,
                   transitions, result, env>>

-----------------------------------------------------------------------------
(* PLANNING                                                                *)

ChoosePlan ==
    /\ pc = "plan"
    /\ \E p \in Plans(observation) : call' = [call EXCEPT !.plan = Clip(p)]
    /\ pc' = "record_certified"
    /\ UNCHANGED <<control, theory, pending, observation, transitions, result, env,
                   store>>

\* Linkage of a plan event: a plan is named by the commit that gave it its identity.
PlanEvent ==
    [Blank EXCEPT !.model = program, !.plan = Len(store["plan_committed"]) + 1,
                  !.version = stateVersion, !.at = Len(transitions)]

RecordCertified ==
    /\ pc = "record_certified"
    /\ Record("controller_plan_certified", PlanEvent)
    /\ pc' = "record_committed"
    /\ UNCHANGED <<control, theory, pending, observation, transitions, result,
                   call, env>>

RecordCommitted ==
    /\ pc = "record_committed"
    /\ Record("plan_committed", PlanEvent)
    /\ pendingPlan' = call.plan
    /\ pendingPlanId' = PlanEvent.plan
    /\ phase' = "execution"
    /\ pc' = "complete"
    /\ UNCHANGED <<activePhase, stateVersion, outcome, theory, observation,
                   transitions, result, call, env>>

-----------------------------------------------------------------------------
(* EXECUTION: predict, write the intent, act, write the outcome, compare.  *)

\* Linkage of an execution event to its plan and to the state it was authorized in.
Linked(a) ==
    [Blank EXCEPT !.action = a, !.plan = call.planId, !.version = stateVersion]

\* Faulty variant of RecordIntent: the action goes out while its intent is not durable.
RecordIntentLazily ==
    /\ pc = "record_intent"
    /\ call' = [call EXCEPT !.intended = TRUE]
    /\ pc' = "env_step"
    /\ UNCHANGED <<control, theory, pending, observation, transitions, result, env,
                   store>>

RecordIntent ==
    /\ pc = "record_intent"
    /\ Record("action_intent",
              [Linked(Head(call.plan)) EXCEPT !.model = program])
    /\ call' = [call EXCEPT !.intended = TRUE]
    /\ pc' = "env_step"
    /\ UNCHANGED <<control, theory, pending, observation, transitions, result, env>>

Spend(s) == env' = [spent |-> env.spent + 1, status |-> s]

EnvStep ==
    /\ pc = "env_step"
    /\ \E s \in Status, v \in Verdict :
         /\ v = "reshaped" => "shape" \in Faults
         /\ Spend(s)
         /\ call' = [call EXCEPT !.status = s, !.verdict = v]
    /\ pc' = "record_raw"
    /\ UNCHANGED <<control, theory, pending, observation, transitions, result, store>>

\* The event is durable before the transition enters the in-memory history.
RecordRaw ==
    /\ pc = "record_raw"
    /\ Record("transition_raw",
              [Linked(Head(call.plan)) EXCEPT !.at = Len(transitions) + 1])
    /\ transitions' = Append(transitions,
           [action |-> Head(call.plan),
            before |-> observation, after |-> call.status])
    /\ pc' = "compare"
    /\ UNCHANGED <<control, theory, pending, observation, result, call, env>>

\* compare_observations raises when the two grids have different shapes.
Compare ==
    /\ pc = "compare" /\ call.verdict # "reshaped"
    /\ pc' = "record_analysis"
    /\ UNCHANGED <<control, theory, pending, observation, transitions, result,
                   call, env, store>>

\* Faulty variant of BudgetOut: the last budgeted action is never spent.
BudgetOutEarly == Len(transitions) + 1 >= Budget

Surprised == call.verdict = "mismatch"
BudgetOut == Len(transitions) >= Budget

AnalysisEvent == [Linked("none") EXCEPT !.model = program, !.at = Len(transitions)]

\* Faulty variant of AppendAnalysis: only surprises are analysed.
AppendAnalysisOfSurprise ==
    IF Surprised THEN Record("transition_analysis", AnalysisEvent) ELSE UNCHANGED store

AppendAnalysis == Record("transition_analysis", AnalysisEvent)

\* After the analysis is durable the controller sees the outcome; a divergence
\* discards the plan before anything else is recorded about it.
RecordAnalysis ==
    /\ pc = "record_analysis"
    /\ AppendAnalysis
    /\ observation' = call.status
    /\ explains' = IF Surprised THEN explains ELSE explains \cup {Len(transitions)}
    /\ IF Surprised
       THEN /\ latestMismatch' = TRUE
            /\ ClearPending
            /\ finishAfterRevision' = IF call.status = "WIN" THEN "terminal"
                                      ELSE IF BudgetOut THEN "action_budget" ELSE "none"
            /\ phase' = "revision"
       ELSE UNCHANGED <<latestMismatch, pending, finishAfterRevision, phase>>
    /\ pc' = "record_observed"
    /\ UNCHANGED <<activePhase, stateVersion, outcome, program, modelState,
                   revisionCount, transitions, result, call, env>>

\* Faulty variant of Disposition: the suffix of the plan survives a GAME_OVER.
DispositionGameOver ==
    IF Surprised THEN "revise"
    ELSE IF call.status = "WIN" THEN "terminal"
    ELSE IF BudgetOut THEN "action_budget"
    ELSE IF Len(call.plan) = 1 THEN "replan" ELSE "continue"

\* What a phase of execution ends with.
Disposition ==
    IF Surprised THEN "revise"
    ELSE IF call.status = "WIN" THEN "terminal"
    ELSE IF BudgetOut THEN "action_budget"
    ELSE IF call.status = "GAME_OVER" THEN "game_over"
    ELSE IF Len(call.plan) = 1 THEN "replan" ELSE "continue"

Settle ==
    CASE Disposition = "revise" ->
           pc' = "complete" /\ UNCHANGED <<phase, modelState, pending, call>>
      [] Disposition \in Reason ->
           /\ ClearPending
           /\ call' = [call EXCEPT !.reason = Disposition]
           /\ pc' = "record_finished"
           /\ UNCHANGED <<phase, modelState>>
      [] Disposition \in {"game_over", "replan"} ->
           /\ modelState' = modelState + 1
           /\ ClearPending
           /\ phase' = "planning"
           /\ pc' = "complete"
           /\ UNCHANGED call
      [] Disposition = "continue" ->
           /\ modelState' = modelState + 1
           /\ pendingPlan' = Tail(call.plan)
           /\ pc' = "complete"
           /\ UNCHANGED <<phase, pendingPlanId, call>>

\* A surprise always invalidates the plan; an early end does when a suffix is left.
Invalidates ==
    \/ Disposition = "revise"
    \/ Disposition \in Reason \cup {"game_over"} /\ Len(call.plan) > 1

RecordObserved ==
    /\ pc = "record_observed"
    /\ Record("action_observed", [Linked(Head(call.plan)) EXCEPT !.model = program])
    /\ IF Invalidates
       THEN pc' = "record_invalidated" /\ UNCHANGED <<phase, modelState, pending, call>>
       ELSE Settle
    /\ UNCHANGED <<activePhase, stateVersion, outcome, program, explains,
                   revisionCount, latestMismatch, finishAfterRevision, observation,
                   transitions, result, env>>

RecordInvalidated ==
    /\ pc = "record_invalidated"
    /\ Record("plan_invalidated",
              [Linked("none") EXCEPT !.model = program, !.at = Len(call.plan) - 1])
    /\ Settle
    /\ UNCHANGED <<activePhase, stateVersion, outcome, program, explains,
                   revisionCount, latestMismatch, finishAfterRevision, observation,
                   transitions, result, env>>

-----------------------------------------------------------------------------
(* The end of the run                                                      *)

AppendFinished ==
    Record("run_finished", [Blank EXCEPT !.at = Len(transitions), !.model = revisionCount])

\* Appends the event and closes the process of the model, when there is a model.
RecordFinished ==
    /\ pc = "record_finished"
    /\ AppendFinished
    /\ result' = [reason |-> call.reason, status |-> observation,
                  actions |-> Len(transitions), revisions |-> revisionCount]
    /\ ClearPending
    /\ phase' = "finished"
    /\ pc' = "complete"
    /\ UNCHANGED <<activePhase, stateVersion, outcome, theory, observation,
                   transitions, call, env>>

-----------------------------------------------------------------------------
(* Exceptions                                                              *)

\* The call about to be made can raise without any other effect.  The service
\* calls are revise(), the replay of a new model before its record, plan(), the
\* simulation before a certificate and the prediction before an intent.
CallRaises ==
    \/ "store" \in Faults
       /\ pc \in {"record_started", "record_run_started", "record_initial",
                  "record_model_executed", "record_certified", "record_committed",
                  "record_intent", "record_raw", "record_analysis",
                  "record_observed", "record_invalidated", "record_finished"}
    \/ "service" \in Faults
       /\ pc \in {"revise", "record_model_executed", "plan", "record_certified",
                  "record_intent"}
    \/ "environment" \in Faults /\ pc \in {"env_start", "env_step"}
    \/ pc = "compare" /\ call.verdict = "reshaped"

\* The handler of every other exception.
FailPhase ==
    /\ phase' = "error"
    /\ stateVersion' = stateVersion + 1
    /\ pc' = "record_failed"
    /\ UNCHANGED pending

\* The process of the model does not end in time: close() raises between the durable
\* event and the result.  The handler's own close() then finds no process to wait for.
FinishUnreleased ==
    /\ pc = "record_finished"
    /\ "close" \in Faults /\ program # 0
    /\ AppendFinished
    /\ FailPhase
    /\ UNCHANGED <<activePhase, outcome, theory, observation, transitions, result,
                   call, env>>

\* An intent is durable and its transition is not in the history.
OutcomeLost == call.intended /\ Len(transitions) = call.before

\* Faulty variant of Throw: an action whose outcome was lost is left to be retried.
ThrowRetry ==
    /\ IF OutcomeLost
       THEN /\ pc' = "record_unknown"
            /\ UNCHANGED <<phase, pending, stateVersion>>
       ELSE FailPhase
    /\ UNCHANGED <<activePhase, outcome, theory, observation, transitions, result,
                   call, store>>

Throw ==
    /\ IF OutcomeLost
       THEN /\ ClearPending
            /\ phase' = "outcome_unknown"
            /\ pc' = "record_unknown"
            /\ UNCHANGED stateVersion
       ELSE FailPhase
    /\ UNCHANGED <<activePhase, outcome, theory, observation, transitions, result,
                   call, store>>

Raise == CallRaises /\ Throw /\ UNCHANGED env

\* The game applied the action, but the answer was lost on the way back.
EnvStepLost ==
    /\ pc = "env_step" /\ "environment" \in Faults
    /\ \E s \in Status : Spend(s)
    /\ Throw

\* Faulty variant of RecordUnknown: an unknown outcome keeps its state version.
RecordUnknownAtVersion ==
    /\ pc = "record_unknown"
    /\ Record("action_outcome_unknown",
              [Linked(Head(call.plan)) EXCEPT !.model = program])
    /\ pc' = "record_failed"
    /\ UNCHANGED <<control, theory, pending, observation, transitions, result, call,
                   env>>

RecordUnknown ==
    /\ pc = "record_unknown"
    /\ Record("action_outcome_unknown",
              [Linked(Head(call.plan)) EXCEPT !.model = program])
    /\ stateVersion' = stateVersion + 1
    /\ pc' = "record_failed"
    /\ UNCHANGED <<phase, activePhase, outcome, theory, pending, observation,
                   transitions, result, call, env>>

\* The report of an unknown outcome fails too: the generic handler takes over.
RaiseUnknown ==
    /\ pc = "record_unknown" /\ "store" \in Faults
    /\ FailPhase
    /\ UNCHANGED <<activePhase, outcome, theory, observation, transitions, result,
                   call, env, store>>

RecordFailed ==
    /\ pc = "record_failed"
    /\ Record("interactive_phase_failed",
              [Blank EXCEPT !.version = stateVersion, !.at = Len(transitions)])
    /\ pc' = "record_run_error"
    /\ UNCHANGED <<control, theory, pending, observation, transitions, result,
                   call, env>>

RecordRunError ==
    /\ pc = "record_run_error"
    /\ Record("run_error", Blank)
    /\ Leave(IF phase = "outcome_unknown" THEN "returned" ELSE "raised")
    /\ UNCHANGED <<phase, stateVersion, theory, pending, observation, transitions,
                   result, env>>

\* A handler closes the process of the model first, unless the finish has tried to.
CloseRaises ==
    "close" \in Faults /\ pc = "record_failed" /\ program # 0
      /\ store["run_finished"] = <<>>

\* A call of the epilogue or of a handler fails: nothing catches it.
Unwind ==
    /\ \/ /\ pc \in {"record_completed", "record_failed", "record_run_error"}
          /\ "store" \in Faults
       \/ CloseRaises
    /\ Leave("raised")
    /\ UNCHANGED <<phase, stateVersion, theory, pending, observation, transitions,
                   result, env, store>>

-----------------------------------------------------------------------------
\* The episode is over and no phase is in flight.
Halted == pc = "idle" /\ phase \in Terminal /\ UNCHANGED vars

Step ==
    \/ RecordStarted \/ Complete \/ RecordCompleted
    \/ EnvStart \/ RecordRunStarted \/ RecordInitial
    \/ Revise \/ RecordModelExecuted
    \/ ChoosePlan \/ RecordCertified \/ RecordCommitted
    \/ RecordIntent \/ EnvStep \/ RecordRaw \/ Compare \/ RecordAnalysis
    \/ RecordObserved \/ RecordInvalidated \/ RecordFinished \/ FinishUnreleased
    \/ Raise \/ EnvStepLost \/ RecordUnknown \/ RaiseUnknown
    \/ RecordFailed \/ RecordRunError \/ Unwind

Next == Advance \/ Step \/ Halted

Spec == Init /\ [][Next]_vars

-----------------------------------------------------------------------------
(* Properties                                                              *)

Intents  == store["action_intent"]
Raws     == store["transition_raw"]
LastPlan == store["plan_committed"][Len(store["plan_committed"])]
Idle     == pc = "idle"

TypeOK ==
    /\ phase \in Phase
    /\ activePhase \in Phase \cup {"none"}
    /\ stateVersion \in Nat
    /\ outcome \in {"none", "returned", "raised"}
    /\ observation \in Status \cup {"none"}
    /\ transitions \in Seq(Transition)
    /\ program \in Nat /\ modelState \in Nat /\ explains \in SUBSET Nat
    /\ revisionCount \in Nat /\ latestMismatch \in BOOLEAN
    /\ finishAfterRevision \in Reason \cup {"none"}
    /\ pendingPlan \in Seq(Action) /\ pendingPlanId \in Nat
    /\ result \in Result
    /\ pc \in Label
    /\ call \in Call
    /\ env \in Game
    /\ store \in [Kind -> Seq(Event)]

\* At every instant, so also after a crash, the durable intents cover the actions
\* the game applied, at most one intent lacks its recorded outcome, and no phase
\* can be entered while one does (agent_journal.py intent and raw, the outcome
\* unknown handling of _execute_one).
SpendAccounted ==
    /\ Len(Raws) <= env.spent
    /\ env.spent <= Len(Intents)
    /\ Len(Intents) <= Len(Raws) + 1
    /\ Len(Intents) <= Budget
    /\ CanAdvance => Len(Intents) = Len(Raws)

\* When the controller is about to plan or to act, the committed model reproduces every
\* recorded transition, its state has folded all of them, and the observation planned
\* from is the answer to the last of them.
ModelCoherent ==
    phase \in {"planning", "execution"} =>
        /\ explains = 1..Len(transitions)
        /\ modelState = Len(transitions)
        /\ transitions # <<>> => observation = transitions[Len(transitions)].after

\* A plan offered for execution is the suffix, not yet spent, of the plan that was last
\* certified; it fits the budget.
PlanCertified ==
    phase = "execution" =>
        /\ Len(pendingPlan) \in 1..Remaining
        /\ pendingPlanId = LastPlan.plan
        /\ program = LastPlan.model
        /\ \A i \in 1..Len(Raws) : i > LastPlan.at <=> Raws[i].plan = pendingPlanId

\* Between two phases, whatever failed in the last one, what is planned from and what is
\* about to be executed belong together: one model, certified on the history that is
\* current, and the plan it certified.  No other phase holds a plan
\* (interactive.py:384 and 485).
PlanGrounded ==
    Idle => /\ ModelCoherent
            /\ PlanCertified
            /\ phase \notin {"execution", "error"} => pendingPlan = <<>>

\* A run finishes at most once, and the result in memory is the one on record, whichever
\* call of its last phase fails.  What is on record as finished had ended for the reason
\* it states, with every action accounted for, and never with a model that fails to
\* explain its evidence: a surprise on the last action is revised first.  It is on record
\* as failed, too, only when the process of the model would not end (interactive.py:158,
\* 385 and 513).
FinishExplained ==
    /\ Len(store["run_finished"]) <= 1 /\ Len(store["run_error"]) <= 1
    /\ result.reason # "none" <=> phase = "finished"
    /\ phase = "finished" =>
         /\ store["run_finished"] # <<>> /\ store["run_error"] = <<>>
         /\ result.reason = IF env.status = "WIN" THEN "terminal" ELSE "action_budget"
         /\ result.actions = env.spent
    /\ store["run_finished"] # <<>> =>
         /\ phase = "finished" \/ ("close" \in Faults /\ phase = "error")
         /\ Len(Intents) = env.spent
         /\ env.status = "WIN" \/ env.spent = Budget
         /\ store["run_finished"][1].at = env.spent
         /\ transitions # <<>> => explains = 1..Len(transitions)

\* A real action is spent only by a model that explains all earlier ones, never on
\* a game that is won, and at GAME_OVER only to reset it.
SpendJustified ==
    [][env'.spent # env.spent =>
         /\ explains = 1..Len(transitions)
         /\ env.status # "WIN"
         /\ env.status = "GAME_OVER" => Head(call.plan) = "RESET"]_vars

\* The account of real actions the episode keeps.
Ledger == INSTANCE SpendLedger WITH
    intended <- Len(Intents), spent <- env.spent, recorded <- Len(Raws),
    open <- phase \notin Terminal

ImplementsLedger == Ledger!Spec

\* What the other components see of the controller.
Control == INSTANCE PhaseControl WITH ctl <-
    [phase |-> phase, active |-> activePhase, version |-> stateVersion,
     settled |-> pc \in {"record_completed", "record_failed", "record_run_error"}]

\* On every path, failures of the failure handlers included, a call of advance()
\* follows the phase graph and counts exactly one new version between its last move
\* and the release of the phase slot (interactive.py:86-172).
ImplementsPhaseControl == Control!Spec

\* The standing of the committed model with regard to the recorded transitions.
Standing ==
    IF program = 0 THEN "none"
    ELSE IF explains = 1..Len(transitions) THEN "certified"
    ELSE IF latestMismatch THEN "refuted" ELSE "unjudged"

Model == INSTANCE Theory WITH evidence <- Len(transitions), standing <- Standing

\* A transition is recorded only with a model that reproduces all earlier ones, and
\* judged before the next; a mispredicting model is replaced by one that reproduces
\* them all.  VersionSpace shows that what revise() returns is such a model.
ImplementsTheory == Model!Spec

\* app.js:677 tells the operator that any mismatch cancels the unspent plan: once a
\* phase is over, a plan is pending only when the last transition was predicted.
\* Stated for a store that works.
MismatchCancelsPlan ==
    Idle /\ transitions # <<>> /\ Len(transitions) \notin explains => pendingPlan = <<>>

\* tests/test_interactive.py:163: a failure after the intent becomes outcome_unknown.
LostOutcomeReported ==
    Idle /\ Len(Intents) > Len(Raws) => phase = "outcome_unknown"
=============================================================================
