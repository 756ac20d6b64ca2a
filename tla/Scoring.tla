------------------------------ MODULE Scoring ------------------------------
(***************************************************************************)
(* The efficiency score of a run.  A score is an exact fraction, where the *)
(* code rounds to a float, and is counted in parts of a unit that every    *)
(* quotient divides.                                                       *)
(***************************************************************************)
EXTENDS Integers, Sequences, SequencesExt

\* A unit for levels of up to that many actions: a multiple of 20, for the cap, and of the
\* square of every number of actions.
Unit(most) ==
    LET square[k \in 0..most] == IF k = 0 THEN 20 ELSE k * k * square[k - 1]
    IN  square[most]

LevelScoreCap(unit) == (115 * unit) \div 100

LevelScore(unit, baseline, actions, completed) ==
    IF ~completed \/ actions = 0 THEN 0
    ELSE Min({(unit * baseline * baseline) \div (actions * actions), LevelScoreCap(unit)})

\* Levels weigh as their numbers.
Weights(count) == [i \in 1..count |-> i]

Total(s) == FoldLeft(LAMBDA a, b : a + b, 0, s)

\* The weight of the levels that count as complete.
CompletionCap(unit, flags) ==
    Total([i \in DOMAIN flags |-> IF flags[i] THEN unit * Weights(Len(flags))[i] ELSE 0])

\* Faulty variant of GameScore: fast levels make up for levels that are not complete.
GameScoreUncapped(unit, scores) ==
    Total([i \in DOMAIN scores |-> Weights(Len(scores))[i] * scores[i]])

\* The weighted scores, at most the weight of the levels that scored; out of the unit
\* times the weight of all levels.
GameScore(unit, scores) ==
    Min({Total([i \in DOMAIN scores |-> Weights(Len(scores))[i] * scores[i]]),
         CompletionCap(unit, [i \in DOMAIN scores |-> scores[i] > 0])})

LevelScores(unit, baselines, actions, completed) ==
    [i \in DOMAIN baselines |-> LevelScore(unit, baselines[i], actions[i], completed[i])]

ScoreGame(unit, baselines, actions, completed) ==
    GameScore(unit, LevelScores(unit, baselines, actions, completed))

Perfect(unit, count) == unit * Total(Weights(count))
=============================================================================
