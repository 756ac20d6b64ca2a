------------------------------ MODULE Planning ------------------------------
(***************************************************************************)
(* What the agent computes with a rule program: its predictions, the       *)
(* replay that certifies it, the simulation of a plan, its execution one   *)
(* action at a time, and the search for a goal.  Pure functions of their   *)
(* arguments.                                                              *)
(*                                                                         *)
(* A call of generated code returns the set of its value, and the empty    *)
(* set when it raises.  A program is a record of its functions; the ones   *)
(* it may leave out are empty functions when it does.  An observation has  *)
(* the fields that are compared: its frame stands for the last grid, its   *)
(* level for levels_completed and win_levels.                              *)
(***************************************************************************)
EXTENDS Integers, Sequences, SequencesExt

Reset == "RESET"

One(S) == CHOOSE x \in S : TRUE

-----------------------------------------------------------------------------
(* The contract of a rule program                                          *)

Optional(f, state, default) == IF f = <<>> THEN default ELSE f[state]

\* What a program leaves out stays as it was observed; a reset is not assumed.
Predict(program, state, action, previous) ==
    {[state |-> next,
      observation |-> [frame     |-> program.render[next],
                       status    |-> Optional(program.status, next, previous.status),
                       level     |-> Optional(program.metrics, next, previous.level),
                       available |-> Optional(program.available, next, previous.available),
                       reset     |-> Optional(program.reset, next, FALSE)]] :
        next \in program.step[<<state, action>>]}

InitialState(program, observation) == program.initial[observation.frame]

-----------------------------------------------------------------------------
(* Replay                                                                  *)

\* Every transition is predicted from the observation before it.  A call that raises
\* fails its transition and leaves the replay where it was.
VerifyStep(program, replay, transition) ==
    LET predicted == Predict(program, replay.state, transition.action, replay.previous)
    IN  IF predicted = {}
        THEN [replay EXCEPT !.steps = Append(@, FALSE)]
        ELSE [state    |-> One(predicted).state,
              previous |-> transition.after,
              steps    |-> Append(replay.steps, One(predicted).observation = transition.after)]

\* Faulty variant of Verify: only the last transition decides.
VerifyLast(program, initial, transitions, stopAtFirst) ==
    LET Step(replay, t) ==
            IF stopAtFirst /\ \E i \in DOMAIN replay.steps : ~replay.steps[i] THEN replay
            ELSE VerifyStep(program, replay, t)
    IN  \E s \in InitialState(program, initial) :
            LET replay == FoldLeft(Step, [state |-> s, previous |-> initial, steps |-> <<>>],
                                   transitions)
            IN  replay.steps = <<>> \/ Last(replay.steps)

\* The verdict of a replay; with stopAtFirst it ends at the first failure.
Verify(program, initial, transitions, stopAtFirst) ==
    LET Step(replay, t) ==
            IF stopAtFirst /\ \E i \in DOMAIN replay.steps : ~replay.steps[i] THEN replay
            ELSE VerifyStep(program, replay, t)
    IN  \E s \in InitialState(program, initial) :
            LET replay == FoldLeft(Step, [state |-> s, previous |-> initial, steps |-> <<>>],
                                   transitions)
            IN  /\ Len(replay.steps) = Len(transitions)
                /\ \A i \in DOMAIN replay.steps : replay.steps[i]

\* The state of the model after the history; the first call that raises ends it.
ReplayState(program, initial, transitions) ==
    LET Step(reached, t) ==
            UNION {{[state |-> p.state, previous |-> t.after] :
                        p \in Predict(program, r.state, t.action, r.previous)} : r \in reached}
    IN  {r.state : r \in FoldLeft(Step, {[state |-> s, previous |-> initial] :
                                            s \in InitialState(program, initial)}, transitions)}

-----------------------------------------------------------------------------
(* Simulation and execution                                                *)

\* A step of a plan: legal where it is taken, and nothing may follow a win, nothing but
\* a reset a lost game.
SimulateStep(program, plan, rollout, i) ==
    LET here == rollout.observation
        legal == plan[i] = Reset \/ here.available = {} \/ plan[i] \in here.available
        Sound(o) == /\ o.status = "WIN" => i = Len(plan)
                    /\ o.status = "GAME_OVER" => i = Len(plan) \/ plan[i + 1] = Reset
    IN  {p \in Predict(program, rollout.state, plan[i], here) : legal /\ Sound(p.observation)}

\* The state and the observation a plan leads to; no value when it is refused.
Simulate(program, state, observation, plan) ==
    LET Step(reached, i) == UNION {SimulateStep(program, plan, r, i) : r \in reached}
    IN  FoldLeft(Step, {[state |-> state, observation |-> observation]},
                 [i \in 1..Len(plan) |-> i])

\* A game is a total program with a state of its own.
Play(game, at, action) ==
    LET next == One(game.step[<<at, action>>])
    IN  [at |-> next,
         observation |-> One(Predict(game, at, action,
             [frame |-> 0, status |-> "", level |-> 0, available |-> {}, reset |-> FALSE]))
                 .observation]

\* Faulty variant of ExecuteStep: the model follows the surprise.
ExecuteStepAnyway(program, game, e, action) ==
    LET predicted == Predict(program, e.state, action, e.observation)
        played    == Play(game, e.at, action)
        match     == \E p \in predicted : p.observation = played.observation
    IN  IF e.stopped THEN e
        ELSE IF predicted = {} THEN [e EXCEPT !.stopped = TRUE, !.raised = TRUE]
        ELSE [at |-> played.at, observation |-> played.observation, raised |-> FALSE,
              state |-> One(predicted).state,
              remaining |-> Tail(e.remaining), diverged |-> ~match,
              stopped |-> played.observation.status \in {"WIN", "GAME_OVER"}]

\* One real action: predicted first, then spent.  A surprise leaves the model where it
\* was and ends the execution, as the end of a game does.
ExecuteStep(program, game, e, action) ==
    LET predicted == Predict(program, e.state, action, e.observation)
        played    == Play(game, e.at, action)
        match     == \E p \in predicted : p.observation = played.observation
    IN  IF e.stopped THEN e
        ELSE IF predicted = {} THEN [e EXCEPT !.stopped = TRUE, !.raised = TRUE]
        ELSE [at |-> played.at, observation |-> played.observation, raised |-> FALSE,
              state |-> IF match THEN One(predicted).state ELSE e.state,
              remaining |-> Tail(e.remaining), diverged |-> ~match,
              stopped |-> ~match \/ played.observation.status \in {"WIN", "GAME_OVER"}]

\* At most maxActions actions of the plan, from where the model and the game are.
Execute(program, game, from, plan, maxActions) ==
    FoldLeft(LAMBDA e, action : ExecuteStep(program, game, e, action),
             [at |-> from.at, state |-> from.state, observation |-> from.observation,
              remaining |-> plan, diverged |-> FALSE, stopped |-> FALSE, raised |-> FALSE],
             SubSeq(plan, 1, IF maxActions < Len(plan) THEN maxActions ELSE Len(plan)))

-----------------------------------------------------------------------------
(* Search                                                                  *)

\* Faulty variant of Discover: a state is marked when it is expanded, never when found.
DiscoverLate(program, actions, state, path, queue, seen) ==
    FoldLeft(LAMBDA acc, a :
                 IF program.step[<<state, a>>] \subseteq {state} THEN acc
                 ELSE [queue |-> <<[state |-> One(program.step[<<state, a>>]),
                                    path |-> Append(path, a)]>> \o acc.queue,
                       seen |-> acc.seen \cup program.step[<<state, a>>]],
             [queue |-> queue, seen |-> seen], actions)

\* The new states one action away join the queue; an action that raises leads nowhere.
Discover(program, actions, state, path, queue, seen) ==
    FoldLeft(LAMBDA acc, a :
                 IF program.step[<<state, a>>] \subseteq acc.seen THEN acc
                 ELSE [queue |-> Append(acc.queue, [state |-> One(program.step[<<state, a>>]),
                                                    path |-> Append(path, a)]),
                       seen |-> acc.seen \cup program.step[<<state, a>>]],
             [queue |-> queue, seen |-> seen], actions)

\* One turn of the loop: nothing once a limit is reached, a goal is found, or the call of
\* is_goal has raised, which leaves the search.  goal keeps what that call returned.
Visit(program, actions, search, maxDepth, maxNodes) ==
    LET state == Head(search.queue).state
        path  == Head(search.queue).path
        next  == Discover(program, actions, state, path, Tail(search.queue), search.seen)
    IN  IF search.goal # {FALSE} \/ search.queue = <<>> \/ search.expanded >= maxNodes
        THEN search
        ELSE IF program.goal[state] # {FALSE}
        THEN [search EXCEPT !.goal = program.goal[state], !.path = path]
        ELSE IF Len(path) >= maxDepth THEN [search EXCEPT !.queue = Tail(@)]
        ELSE [search EXCEPT !.queue = next.queue, !.seen = next.seen, !.expanded = @ + 1]

\* A state joins the queue once, so that a turn for each of them empties it.
BreadthFirstSearch(program, initial, actions, maxDepth, maxNodes) ==
    LET turns == Cardinality(DOMAIN program.goal)
        after[n \in 0..turns] ==
            IF n = 0
            THEN [queue |-> <<[state |-> initial, path |-> <<>>]>>, seen |-> {initial},
                  expanded |-> 0, goal |-> {FALSE}, path |-> <<>>]
            ELSE Visit(program, actions, after[n - 1], maxDepth, maxNodes)
        end == after[turns]
    IN  {[found |-> found, path |-> end.path,
          reason |-> IF found THEN "goal"
                     ELSE IF end.expanded >= maxNodes THEN "node_limit"
                     ELSE "depth_exhausted"] : found \in end.goal}
=============================================================================
