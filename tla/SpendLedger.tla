---------------------------- MODULE SpendLedger ----------------------------
(***************************************************************************)
(* What an episode promises about the real actions it spends, stated       *)
(* without phases, plans or models: an account of at most Budget actions   *)
(* in which every action is announced before it is spent, the outcome of   *)
(* one is on record before the next is announced, and a closed account     *)
(* spends nothing more, also when the outcome of its last action is        *)
(* unknown.  Episode implements this specification.                        *)
(***************************************************************************)
EXTENDS Integers

CONSTANT Budget     \* a positive number

VARIABLES
    intended,   \* actions announced by a durable intent
    spent,      \* actions the game has applied
    recorded,   \* actions whose outcome is durable
    open        \* the account still authorizes actions

ledgerVars == <<intended, spent, recorded, open>>

Init == intended = 0 /\ spent = 0 /\ recorded = 0 /\ open = TRUE

Announce ==
    /\ open
    /\ intended = recorded /\ intended < Budget
    /\ intended' = intended + 1
    /\ UNCHANGED <<spent, recorded, open>>

\* The action is applied; the account may close with it when the answer is lost.
Spend ==
    /\ open
    /\ spent < intended
    /\ spent' = spent + 1
    /\ open' \in {TRUE, FALSE}
    /\ UNCHANGED <<intended, recorded>>

Settle ==
    /\ open
    /\ recorded < spent
    /\ recorded' = recorded + 1
    /\ UNCHANGED <<intended, spent, open>>

Close ==
    /\ open
    /\ open' = FALSE
    /\ UNCHANGED <<intended, spent, recorded>>

Next == Announce \/ Spend \/ Settle \/ Close

Spec == Init /\ [][Next]_ledgerVars
=============================================================================
