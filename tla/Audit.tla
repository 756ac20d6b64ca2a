------------------------------- MODULE Audit -------------------------------
(***************************************************************************)
(* The requirement-level audit of a recorded run, audit_real_llm_run, over *)
(* the events of the run grouped by kind.  The lifecycle and the execution *)
(* checks read the evidence of the controller, which Episode writes, the   *)
(* checks of provider, world model and plan that of the services, which    *)
(* Trail writes.  The check of the game assets reads files.                *)
(***************************************************************************)
EXTENDS Integers, Sequences, SequencesExt

LifecycleCheck(byKind) ==
    LET finished == byKind["run_finished"]
    IN  /\ Len(byKind["run_started"]) = 1
        /\ Len(finished) = 1
        /\ finished[Len(finished)].at > 0

\* The k-th transition is paired with the k-th intent and the k-th analysis.
ExecutionCheck(byKind) ==
    LET raws     == byKind["transition_raw"]
        intents  == byKind["action_intent"]
        analyses == byKind["transition_analysis"]
        Paired(k) == /\ k <= Len(intents) /\ k <= Len(analyses)
                     /\ raws[k].action = intents[k].action
                     /\ intents[k].model = analyses[k].model
                     /\ intents[k].plan = analyses[k].plan
    IN  /\ raws # <<>> /\ intents # <<>> /\ analyses # <<>>
        /\ \A k \in 1..Len(raws) : Paired(k)

\* At least two answers, some of each role.
ProviderCheck(byKind) ==
    LET responses == byKind["reasoner_response"]
    IN  /\ Len(responses) >= 2
        /\ {"revision", "planning"} \subseteq {responses[i].role : i \in DOMAIN responses}

\* The answer an event names as its origin has that digest and holds that source.
LinkHolds(byKind, item) ==
    \E r \in ToSet(byKind["reasoner_response"]) :
        /\ r.request = item.origin.request /\ r.request = item.origin.response
        /\ r.source = item.source

\* Promoted programs are linked and were executed.
WorldModelCheck(byKind) ==
    LET promoted == {e \in ToSet(byKind["model_revision"]) : e.promoted}
    IN  /\ promoted # {}
        /\ \A item \in promoted :
             /\ LinkHolds(byKind, item)
             /\ \E e \in ToSet(byKind["model_executed"]) : e.source = item.source

\* Generated plans are linked, were simulated and led to an action.
PlanCheck(byKind) ==
    /\ byKind["plan_generated"] # <<>>
    /\ \A item \in ToSet(byKind["plan_generated"]) :
         /\ LinkHolds(byKind, item)
         /\ \E e \in ToSet(byKind["plan_simulated"]) : e.source = item.source
         /\ \E e \in ToSet(byKind["action_intent"]) : e.plan = item.source
=============================================================================
