---------------------------- MODULE PhaseSteps -----------------------------
(***************************************************************************)
(* A phase controller as the rest of the program sees it: what snapshot()  *)
(* reveals of an InteractiveEpisode, and how one call of advance() may     *)
(* change it.  A controller is a record; `settled' says that the call in   *)
(* flight has counted its new state version and has only to leave.         *)
(***************************************************************************)
EXTENDS Integers

Closed  == {"finished", "error", "outcome_unknown"}
Working == {"start", "induction", "planning", "execution", "revision"}

Controller == [phase : Working \cup Closed, active : Working \cup {"none"},
               version : Nat, settled : BOOLEAN]

Fresh == [phase |-> "start", active |-> "none", version |-> 0, settled |-> FALSE]

\* Where a call that runs a phase may move the episode, short of an error.
Reaches ==
    [start     |-> {"induction", "finished"},
     induction |-> {"planning"},
     planning  |-> {"execution", "finished"},
     execution |-> {"planning", "revision", "finished", "outcome_unknown"},
     revision  |-> {"planning", "finished"}]

CanBegin(c) == c.active = "none" /\ c.phase \notin Closed
Begun(c)    == [c EXCEPT !.active = c.phase]

\* The handler moves the phase at most once, before the version is counted.
Turns(c) ==
    IF c.active = "none" \/ c.settled \/ c.phase # c.active THEN {}
    ELSE {[c EXCEPT !.phase = p] : p \in Reaches[c.active]}

\* The phases a call in flight may settle in: a phase that completes has moved on,
\* except that execution may go on with its plan; anything but a finished run may fail.
Finals(c) ==
    IF c.active = "none" \/ c.settled THEN {}
    ELSE (IF c.phase # c.active \/ c.active = "execution" THEN {c.phase} ELSE {})
         \cup (IF c.phase # "finished" THEN {"error"} ELSE {})

\* Faulty variant of Settlings: only a failure counts a new version.
SettlingsOfFailures(c) ==
    {[c EXCEPT !.settled = TRUE, !.phase = p,
               !.version = IF p = "error" THEN @ + 1 ELSE @] : p \in Finals(c)}

\* The one new version of a call, whether it completes or fails.
Settlings(c) ==
    {[c EXCEPT !.settled = TRUE, !.phase = p, !.version = @ + 1] : p \in Finals(c)}

Ended(c) == [c EXCEPT !.active = "none", !.settled = FALSE]
=============================================================================
