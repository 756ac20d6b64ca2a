------------------------------ MODULE Theory -------------------------------
(***************************************************************************)
(* What the parts of ARCWorld together promise about the theory that       *)
(* spends real actions: evidence is bought only with a theory that         *)
(* reproduces all the evidence so far; every new transition is judged      *)
(* before the next is bought; and a refuted theory is replaced, before     *)
(* anything more is bought, by one that reproduces the transition that     *)
(* refuted it and all the others.  Episode implements this specification   *)
(* with its committed model, VersionSpace with the model its revisions     *)
(* promote.                                                                *)
(***************************************************************************)
EXTENDS Integers

VARIABLES
    evidence,   \* transitions recorded so far
    standing    \* of the committed theory with regard to all of them

theoryVars == <<evidence, standing>>

Init == evidence = 0 /\ standing = "none"

\* The transition may be judged in the same step or later.
Buy ==
    /\ standing = "certified"
    /\ evidence' = evidence + 1
    /\ standing' \in {"unjudged", "certified", "refuted"}

Judge ==
    /\ standing = "unjudged"
    /\ standing' \in {"certified", "refuted"}
    /\ UNCHANGED evidence

Adopt ==
    /\ standing \in {"none", "refuted"}
    /\ standing' = "certified"
    /\ UNCHANGED evidence

Next == Buy \/ Judge \/ Adopt

Spec == Init /\ [][Next]_theoryVars
=============================================================================
