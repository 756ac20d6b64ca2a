----------------------------- MODULE MCEpisode -----------------------------
(***************************************************************************)
(* Small instances of Episode, with the audit reading the store the        *)
(* episode wrote.                                                          *)
(***************************************************************************)
EXTENDS Agent, Audit

\* A run on record as finished that spent a real action passes the checks the audit makes
\* of the controller's evidence, whatever failed on the way or after (audit.py:79 and 296).
FinishedRunPassesAudit ==
    store["run_finished"] # <<>> /\ transitions # <<>> =>
        LifecycleCheck(store) /\ ExecutionCheck(store)
=============================================================================
