------------------------------ MODULE MCHost -------------------------------
(***************************************************************************)
(* Small instances of what a process of the program does with code it did  *)
(* not write: it starts the sources of a game (GameSources), calls a       *)
(* generated program in its sandbox (Sandbox), or has a reasoner write one *)
(* and records where it came from (Trail).  The three share nothing, so a  *)
(* behavior is one of one of them.                                         *)
(***************************************************************************)
EXTENDS Sandbox, TLC

CONSTANTS
    d1, d2, g1, g2,
    Dir, Game, Canonical, Test, MaxEdits,
    Program, Plan, Unusable, Improvised, Readings, CandidateCount, MaxRequests, MaxActions

ASSUME EditsAssumption == MaxEdits \in Nat

VARIABLES
    part,
    metadata, source, edits, booted, stage, game, expected, code, loadedHashes, modules,
    trail, at, open, last, candidates, ledger, reports, model, plan, stopping

Sources == INSTANCE GameSources WITH pc <- stage
Papers  == INSTANCE Trail

sources == <<metadata, source, edits, booted, stage, game, expected, code, loadedHashes, modules>>
papers  == <<trail, at, open, last, candidates, ledger, reports, model, plan, stopping>>

\* A directory named after the one game, none after the other.
MCCanonical == g1 :> {d1} @@ g2 :> {}

NoGame ==
    /\ \A d \in Dir : metadata[d] = [game |-> "absent", content |-> 0]
    /\ \A d \in Dir : ~source[d].valid
    /\ \A t \in Test : game[t] = g1

\* The directory named after a game holds it to begin with, for the first test.
OneGame ==
    /\ metadata[d1].game = g1 /\ source[d1].valid
    /\ game[CHOOSE t \in Test : TRUE] = g1

MCInit ==
    /\ part \in {"sources", "sandbox", "trail"}
    /\ Init /\ Sources!Init /\ Papers!Init
    /\ IF part = "sources" THEN OneGame ELSE NoGame

MCNext ==
    \/ part = "sources" /\ Sources!Next /\ UNCHANGED <<part, vars, papers>>
    \/ part = "sandbox" /\ Next /\ UNCHANGED <<part, sources, papers>>
    \/ part = "trail" /\ Papers!Next /\ UNCHANGED <<part, vars, sources>>

MCSpec ==
    /\ MCInit /\ [][MCNext]_<<part, vars, sources, papers>>
    /\ \A c \in Caller : WF_vars(Work(c))

StartDecided == Sources!StartDecided
RunTraced    == Papers!RunTraced
=============================================================================
