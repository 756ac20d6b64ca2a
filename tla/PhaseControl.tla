--------------------------- MODULE PhaseControl ----------------------------
(***************************************************************************)
(* What every call of advance() promises to those who only see snapshots:  *)
(* the phases follow one another as Reaches says, and the call counts      *)
(* exactly one new state version, after its last move and before it leaves *)
(* its phase slot, on every path.  Episode implements this specification;  *)
(* Sessions relies on nothing else.                                        *)
(***************************************************************************)
EXTENDS PhaseSteps

VARIABLE ctl

Init == ctl = Fresh

Begin  == CanBegin(ctl) /\ ctl' = Begun(ctl)
Turn   == ctl' \in Turns(ctl)
Settle == ctl' \in Settlings(ctl)
End    == ctl.settled /\ ctl' = Ended(ctl)

Next == Begin \/ Turn \/ Settle \/ End

Spec == Init /\ [][Next]_ctl
=============================================================================
