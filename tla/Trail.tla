------------------------------- MODULE Trail -------------------------------
(***************************************************************************)
(* The paper trail of generated code: what RecordingReasoner, the proposer *)
(* and the planner, and the two services that use their answers leave in   *)
(* the events of a run, and what the audit later makes of it.  A request   *)
(* is recorded before it is sent and its answer before it is used; a call  *)
(* that fails, or an event that is not written, ends the run, because      *)
(* nothing retries.                                                        *)
(*                                                                         *)
(* An answer is the one block of source it holds, or Unusable: none or     *)
(* several, or source the contract rejects.  Its digest is represented by  *)
(* the request it answers.  Which programs replay the history is the       *)
(* business of VersionSpace, how an action ends that of Episode; here both *)
(* are any.                                                                *)
(***************************************************************************)
EXTENDS Audit

CONSTANTS
    Program, Plan,      \* sources a reasoner may write, by what is asked for
    Unusable,           \* an answer that cannot be used
    Improvised,         \* the plans the service makes itself: a probe, or RESET
    Readings,           \* scene readings a revision rotates through, at least one
    CandidateCount,     \* programs a revision asks for, at least one
    MaxRequests, MaxActions     \* bounds

VARIABLES
    trail,              \* events of the run that bear on generated code
    at,                 \* what comes next
    open,               \* a request is with its provider
    last,               \* by role: last_request_id and last_response_digest
    candidates,         \* the CandidateSpecs of the revision that runs
    ledger,             \* hypotheses of earlier revisions
    reports,            \* model_revision events still to be written
    model, plan,        \* what controls the next action
    stopping            \* the run finishes after this revision

vars == <<trail, at, open, last, candidates, ledger, reports, model, plan, stopping>>

-----------------------------------------------------------------------------
Role == {"revision", "planning"}

Nowhere == [request |-> 0, response |-> 0]

\* The events of a kind, in the order they were written.
EventsOf(kind) ==
    LET places == {i \in DOMAIN trail : trail[i].kind = kind}
    IN  [k \in 1..Cardinality(places) |->
            trail[CHOOSE i \in places : Cardinality({j \in places : j < i}) = k - 1]]

ByKind == [k \in {"reasoner_response", "model_revision", "model_executed",
                  "plan_generated", "plan_simulated", "action_intent"} |-> EventsOf(k)]

Requests == Len(EventsOf("reasoner_request"))

Record(event) == trail' = Append(trail, event)

Init ==
    /\ trail = <<>> /\ at = "revision" /\ open = FALSE
    /\ last = [r \in Role |-> Nowhere]
    /\ candidates = <<>> /\ ledger = {} /\ reports = <<>>
    /\ model = Unusable /\ plan = [source |-> Improvised, origin |-> Nowhere]
    /\ stopping = FALSE

-----------------------------------------------------------------------------
(* RecordingReasoner.complete                                              *)

Ask(role) ==
    /\ at = role /\ ~open /\ Requests < MaxRequests
    /\ last' = [last EXCEPT ![role] = [request |-> Requests + 1, response |-> 0]]
    /\ Record([kind |-> "reasoner_request", request |-> Requests + 1, role |-> role])
    /\ open' = TRUE
    /\ UNCHANGED <<at, candidates, ledger, reports, model, plan, stopping>>

\* The provider raises, or times out: reasoner_error, and the error goes on.
Refuse(role) ==
    /\ at = role /\ open
    /\ Record([kind |-> "reasoner_error", request |-> last[role].request, role |-> role])
    /\ open' = FALSE /\ at' = "failed"
    /\ UNCHANGED <<last, candidates, ledger, reports, model, plan, stopping>>

\* The source of an answer with the identity its caller reads off the reasoner after it.
Linked(role, text) ==
    [source |-> text, origin |-> last'[role]]

\* The answer is recorded, then its digest kept, then its source extracted and checked.
Respond(role, text) ==
    /\ at = role /\ open
    /\ Record([kind |-> "reasoner_response", request |-> last[role].request, role |-> role,
               source |-> text])
    /\ last' = [last EXCEPT ![role].response = last[role].request]
    /\ open' = FALSE
    /\ \/ /\ text = Unusable
          /\ at' = "failed" /\ UNCHANGED <<candidates, plan>>
       \/ /\ role = "revision" /\ text \in Program
          /\ candidates' = Append(candidates, Linked(role, text))
          /\ at' = IF Len(candidates') = CandidateCount THEN "reconcile" ELSE at
          /\ UNCHANGED plan
       \/ /\ role = "planning" /\ text \in Plan
          /\ plan' = Linked(role, text)
          /\ at' = "generated" /\ UNCHANGED candidates
    /\ UNCHANGED <<ledger, reports, model, stopping>>

-----------------------------------------------------------------------------
(* InductiveRevisionService.revise and RevisionManager.reconcile           *)

Hypothesis(i) == <<candidates[i].source, ((i - 1) % Readings) + 1>>

Proposed == {Hypothesis(i) : i \in DOMAIN candidates}

\* Faulty variant of Origin: the service reads the reasoner's identity after the loop.
OriginLatest(h) == IF h \notin Proposed THEN Nowhere ELSE last["revision"]

\* The origin of a hypothesis in this call: that of its last candidate, if it has one.
Origin(h) ==
    IF h \notin Proposed THEN Nowhere
    ELSE LET i == CHOOSE i \in DOMAIN candidates :
                      /\ Hypothesis(i) = h
                      /\ \A j \in DOMAIN candidates : Hypothesis(j) = h => j <= i
         IN  candidates[i].origin

\* Every hypothesis is replayed; one that passes is promoted, and each has its event.  When
\* none passes, or a replay or a write fails, the call raises (Raise).
Reconcile ==
    /\ at = "reconcile"
    /\ ledger' = ledger \cup Proposed
    /\ \E winner \in ledger' :
         /\ model' = winner[1]
         /\ reports' = SetToSeq({[kind |-> "model_revision", source |-> h[1], reading |-> h[2],
                                  origin |-> Origin(h), promoted |-> h = winner] : h \in ledger'})
    /\ at' = "report"
    /\ UNCHANGED <<trail, open, last, candidates, plan, stopping>>

\* One event after the other; then the committed program is run over the history.
Report ==
    /\ at = "report"
    /\ Record(Head(reports)) /\ reports' = Tail(reports)
    /\ at' = IF reports' = <<>> THEN "initialize" ELSE at
    /\ UNCHANGED <<open, last, candidates, ledger, model, plan, stopping>>

Initialize ==
    /\ at = "initialize"
    /\ Record([kind |-> "model_executed", source |-> model])
    /\ candidates' = <<>>
    /\ at' = IF stopping THEN "finished" ELSE "planning"
    /\ UNCHANGED <<open, last, ledger, reports, model, plan, stopping>>

-----------------------------------------------------------------------------
(* BeliefAwarePlanningService.plan and LLMPlanningService.plan             *)

\* A probe, or RESET at GAME_OVER: simulated, but no event tells of it.
Improvise ==
    /\ at = "planning" /\ ~open
    /\ plan' = [source |-> Improvised, origin |-> Nowhere]
    /\ at' = "execute"
    /\ UNCHANGED <<trail, open, last, candidates, ledger, reports, model, stopping>>

Generate ==
    /\ at = "generated"
    /\ Record([kind |-> "plan_generated", model |-> model, source |-> plan.source,
               origin |-> plan.origin])
    /\ at' = "simulate"
    /\ UNCHANGED <<open, last, candidates, ledger, reports, model, plan, stopping>>

Simulate ==
    /\ at = "simulate"
    /\ Record([kind |-> "plan_simulated", model |-> model, source |-> plan.source])
    /\ at' = "execute"
    /\ UNCHANGED <<open, last, candidates, ledger, reports, model, plan, stopping>>

\* An intended action: the plan goes on, is used up, surprises, or the run is over; with a
\* surprise on its last action it is revised first.
Intend ==
    /\ at = "execute" /\ Len(EventsOf("action_intent")) < MaxActions
    /\ Record([kind |-> "action_intent", model |-> model, plan |-> plan.source])
    /\ \/ /\ at' \in {"execute", "planning", "finished"}
          /\ at' = "execute" => plan.source # Improvised    \* one action long
          /\ UNCHANGED stopping
       \/ at' = "revision" /\ stopping' \in BOOLEAN
    /\ UNCHANGED <<open, last, candidates, ledger, reports, model, plan>>

\* Any call in between raises: an event not written, a rejected plan, a failed replay.
Raise ==
    /\ at \notin {"finished", "failed"}
    /\ at' = "failed"
    /\ UNCHANGED <<trail, open, last, candidates, ledger, reports, model, plan, stopping>>

Next ==
    \/ \E role \in Role : Ask(role) \/ Refuse(role)
    \/ \E role \in Role, text \in Program \cup Plan \cup {Unusable} : Respond(role, text)
    \/ Reconcile \/ Report \/ Initialize
    \/ Improvise \/ Generate \/ Simulate \/ Intend \/ Raise

Spec == Init /\ [][Next]_vars

-----------------------------------------------------------------------------
(* Properties                                                              *)

\* A real action of a generated plan in a generated model has, durable before it and in
\* that order, the answer with the plan, the plan and its simulation in this model, and
\* the answer with the model, its promotion and its execution.
ActionsTraced ==
    \A i \in DOMAIN trail : trail[i].kind = "action_intent" =>
        /\ \E e, p, a \in 1..i-1 :
             /\ a < p /\ p < e
             /\ trail[e].kind = "model_executed" /\ trail[e].source = trail[i].model
             /\ trail[p].kind = "model_revision" /\ trail[p].source = trail[i].model /\ trail[p].promoted
             /\ trail[a].kind = "reasoner_response" /\ trail[a].source = trail[i].model
        /\ trail[i].plan # Improvised => \E s, g, a \in 1..i-1 :
             /\ a < g /\ g < s
             /\ trail[s].kind = "plan_simulated" /\ trail[s].source = trail[i].plan
             /\ trail[s].model = trail[i].model
             /\ trail[g].kind = "plan_generated" /\ trail[g].source = trail[i].plan
             /\ trail[a].kind = "reasoner_response" /\ trail[a].source = trail[i].plan
             /\ trail[a].request = trail[g].origin.request

\* A run that finished passes the checks of its generated code, whatever it went through,
\* unless the service made all its plans itself or it promoted a hypothesis of an earlier
\* revision, whose event has no link.
FinishedRunAudited ==
    /\ at = "finished"
    /\ EventsOf("plan_generated") # <<>>
    /\ \A i \in DOMAIN trail :
         trail[i].kind = "model_revision" /\ trail[i].promoted => trail[i].origin # Nowhere
    => ProviderCheck(ByKind) /\ WorldModelCheck(ByKind) /\ PlanCheck(ByKind)

\* Evidence is complete when it is used and consistent when it is read (llm/base.py:79,
\* services.py:53 and 63, audit.py:200 and 246).
RunTraced == ActionsTraced /\ FinishedRunAudited
=============================================================================
