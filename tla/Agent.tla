------------------------------- MODULE Agent -------------------------------
(***************************************************************************)
(* The batch facade: WorldModelAgent.run drives one episode from start to  *)
(* end, calling advance() while the episode can advance.  An exception     *)
(* that leaves advance() leaves run() too.  An episode of the console is   *)
(* advanced from outside instead, also after a phase that raised.          *)
(***************************************************************************)
EXTENDS Episode

VARIABLE run        \* "looping", or how run() ended, "returned" or "raised"; or "console"

agentVars == <<vars, run>>

RunInit == Init /\ run \in {"looping", "console"}

\* The exception of advance() that run() does not catch.
Thrown == pc = "idle" /\ outcome = "raised"

Loop ==
    /\ run = "looping" /\ ~Thrown
    /\ Advance
    /\ UNCHANGED run

Work ==
    /\ Step
    /\ UNCHANGED run

\* A command of the console, between two phases.
Command ==
    /\ run = "console"
    /\ Advance
    /\ UNCHANGED run

\* Faulty variant of Exit: an episode that ended without a result is returned.
ExitUnchecked ==
    /\ run = "looping" /\ pc = "idle"
    /\ Thrown \/ ~CanAdvance
    /\ run' = IF Thrown THEN "raised" ELSE "returned"
    /\ UNCHANGED vars

Exit ==
    /\ run = "looping" /\ pc = "idle"
    /\ Thrown \/ ~CanAdvance
    /\ run' = IF Thrown \/ result.reason = "none" THEN "raised" ELSE "returned"
    /\ UNCHANGED vars

Ended ==
    /\ pc = "idle"
    /\ run # "looping" /\ (run = "console" => ~CanAdvance)
    /\ UNCHANGED agentVars

RunNext == Loop \/ Command \/ Work \/ Exit \/ Ended

\* One thread runs the loop, and every external call returns or raises.
RunSpec == RunInit /\ [][RunNext]_agentVars /\ WF_agentVars(Loop \/ Work \/ Exit)

-----------------------------------------------------------------------------
\* run() ends whatever fails: it raises, or returns a finished episode.  As long as no
\* call of advance() raises or loses an outcome it ends by returning, also through
\* surprises and game overs (agent.py:25).
RunEnds ==
    run = "looping" =>
        /\ <>(run = "raised" \/ (run = "returned" /\ phase = "finished"))
        /\ [](outcome # "raised" /\ phase # "outcome_unknown") => <>(run = "returned")
=============================================================================
