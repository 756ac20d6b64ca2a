------------------------------- MODULE RunLog -------------------------------
(***************************************************************************)
(* What the evidence store promises, without hashes, columns, transactions *)
(* or processes: runs that are never removed, each with a log that grows   *)
(* by one event at a time and never changes otherwise.  RunStore implements*)
(* this specification.                                                     *)
(***************************************************************************)
EXTENDS Sequences

CONSTANTS Run, Data

VARIABLES runs, log     \* the runs that exist; the events of each, in order

logVars == <<runs, log>>

Init ==
    /\ runs \in SUBSET Run
    /\ DOMAIN log = Run
    /\ \A r \in Run \ runs : log[r] = <<>>

Create(r) ==
    /\ r \in Run \ runs
    /\ runs' = runs \cup {r}
    /\ UNCHANGED log

Extend(r, d) ==
    /\ r \in runs
    /\ log' = [log EXCEPT ![r] = Append(@, d)]
    /\ UNCHANGED runs

Next == \E r \in Run : Create(r) \/ \E d \in Data : Extend(r, d)

Spec == Init /\ [][Next]_logVars
=============================================================================
