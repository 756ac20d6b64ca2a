---------------------------- MODULE MCAlgorithms ----------------------------
(***************************************************************************)
(* The pure algorithms over small inputs.  A state is one input, or one    *)
(* moment of a toy game or of a tracked sequence of scenes; a step changes *)
(* it a little, so that TLC walks through all inputs within the bounds.    *)
(***************************************************************************)
EXTENDS Perception, Planning, Toy, Scoring

CONSTANTS
    GridBounds,     \* width, height, colors and most pixels that are not 0 of a grid
    MaxChanges,     \* pixels in which two grids differ
    MaxEdits,       \* edits of a program or of the game it faces
    MaxPlan,
    MaxDetours,     \* moves of a toy game off its shortest way
    MaxUndo,        \* moves of a toy game that can be taken back
    MaxTracked,     \* objects per scene
    Limit,          \* costs beyond it are too high
    MaxLevels,
    MaxActions      \* actions a level takes

ASSUME BoundsAssumption ==
    MaxPlan \in Nat /\ MaxTracked \in Nat /\ Limit \in Nat /\ MaxActions \in Nat

ASSUME GridsAssumption ==
    \A b \in GridBounds : b.width \in Nat /\ b.height \in Nat /\ b.colors \subseteq Int

VARIABLE case

-----------------------------------------------------------------------------
(* Two grids                                                               *)

Blank(b) == [p \in (0..(b.width - 1)) \X (0..(b.height - 1)) |-> 0]

GridCase ==
    {[kind |-> "grids", bound |-> b, before |-> Blank(b), after |-> Blank(b)] : b \in GridBounds}

Painted(grid) == Cardinality({p \in DOMAIN grid : grid[p] # 0})
Changed(c)    == Cardinality({p \in DOMAIN c.before : c.before[p] # c.after[p]})

Paint ==
    /\ case.kind = "grids"
    /\ \E p \in DOMAIN case.before, color \in case.bound.colors :
         \/ /\ case.before = case.after
            /\ case' = [case EXCEPT !.before[p] = color, !.after[p] = color]
         \/ case' = [case EXCEPT !.after[p] = color]
    /\ Painted(case'.before) <= case.bound.painted /\ Changed(case') <= MaxChanges

\* No proper part of the set is out of reach of the rest.
Joined(set, steps) ==
    \A part \in (SUBSET set) \ {{}, set} :
        \E p \in part, q \in set \ part : <<q[1] - p[1], q[2] - p[2]>> \in steps

Enclosed(o) ==
    LET frame   == ((o.box.x - 1)..(Right(o.box) + 1)) \X ((o.box.y - 1)..(Bottom(o.box) + 1))
        outside == Flood({<<o.box.x - 1, o.box.y - 1>>}, frame \ o.pixels, Steps4)
    IN  Cardinality(Regions(frame \ (o.pixels \cup outside), Steps4))

\* The objects of a scene are the figure cut into joined, one-colored pieces, as few as
\* there can be; none is found twice, holes are what the outside cannot reach, objects
\* of one color never touch, and whatever the ranking lists first lies no lower
\* (components.py:37).
SceneSegmented ==
    case.kind = "grids" =>
        \A background \in case.bound.colors, steps \in {Steps4, Steps8} :
            LET grid  == case.after
                scene == ParseScene(grid, background, steps)
            IN  /\ UNION {scene[i].pixels : i \in DOMAIN scene}
                       = {p \in DOMAIN grid : grid[p] # background}
                /\ \A i, j \in DOMAIN scene :
                     i < j =>
                        /\ scene[i].pixels \cap scene[j].pixels = {}
                        /\ scene[i].box.y <= scene[j].box.y
                        /\ scene[i].color = scene[j].color =>
                             /\ ~Touching(scene[i], scene[j])
                             /\ ~Joined(scene[i].pixels \cup scene[j].pixels, steps)
                /\ \A i \in DOMAIN scene :
                     /\ \A p \in scene[i].pixels : grid[p] = scene[i].color
                     /\ Joined(scene[i].pixels, steps)
                     /\ scene[i].holes = Enclosed(scene[i])

Figure(scene) == {<<scene[i].color, scene[i].pixels>> : i \in DOMAIN scene}

\* The semantic difference of two grids is empty exactly when they show the same objects
\* in the same places, so equal pixels never count as a change of the scene; every
\* object of either scene is matched once, or reported as removed or created; and the
\* regions of the exact difference cover the changed pixels and nothing can be cut off
\* them (diff.py:95 and 115).
SceneDiffExact ==
    case.kind = "grids" =>
        LET from   == Scene(case.before)
            to     == Scene(case.after)
            diff   == CompareScenes(from, to)
            pixels == CompareGrids(case.before, case.after)
            Matches(side, i) == Cardinality({m \in diff.matched : m[side] = i})
        IN  /\ SceneEqual(diff) <=> Figure(from) = Figure(to)
            /\ pixels.changed = {} => SceneEqual(diff)
            /\ \A i \in DOMAIN from :
                 Matches(1, i) + Cardinality({d \in diff.deltas : d = <<"removed", i, 0>>}) = 1
            /\ \A j \in DOMAIN to :
                 Matches(2, j) + Cardinality({d \in diff.deltas : d = <<"created", 0, j>>}) = 1
            /\ \A p \in pixels.changed : \E r \in pixels.regions :
                 p[1] \in r.x..Right(r) /\ p[2] \in r.y..Bottom(r)
            /\ \A r \in pixels.regions :
                 /\ \A x \in r.x..Right(r) : \E p \in pixels.changed :
                      p[1] = x /\ p[2] \in r.y..Bottom(r)
                 /\ \A y \in r.y..Bottom(r) : \E p \in pixels.changed :
                      p[2] = y /\ p[1] \in r.x..Right(r)

-----------------------------------------------------------------------------
(* A tracked sequence of scenes                                            *)

TrackCase ==
    {[kind |-> "track", previous |-> <<>>, cost |-> <<>>, names |-> Initialize(k, 0).names,
      next |-> Initialize(k, 0).next, gone |-> {}] : k \in 1..MaxTracked}

Track ==
    /\ case.kind = "track" /\ case.next <= 2 * MaxTracked
    /\ \E count \in 0..MaxTracked :
       \E cost \in [(DOMAIN case.names) \X (1..count) -> 0..(Limit + 1)] :
         LET new == Update(case.names, count, cost, Limit, case.next)
         IN  case' = [kind |-> "track", previous |-> case.names, cost |-> cost,
                      names |-> new.names, next |-> new.next,
                      gone |-> case.gone \cup (ToSet(case.names) \ ToSet(new.names))]

\* An identity belongs to one object at a time and is never given to another one once
\* its object is gone; and no two objects of successive scenes would rather be one
\* than what the tracker took them for (tracking.py:35).
TracksStable ==
    case.kind = "track" =>
        LET same == {m \in (DOMAIN case.previous) \X (DOMAIN case.names) :
                        case.previous[m[1]] = case.names[m[2]]}
        IN  /\ \A i, j \in DOMAIN case.names : case.names[i] = case.names[j] => i = j
            /\ ToSet(case.names) \cap case.gone = {}
            /\ \A m \in same : case.cost[m] <= Limit
            /\ \A i \in DOMAIN case.previous, j \in DOMAIN case.names :
                 case.cost[<<i, j>>] <= Limit =>
                     \E m \in same : (m[1] = i \/ m[2] = j) /\ case.cost[m] <= case.cost[<<i, j>>]

-----------------------------------------------------------------------------
(* A program, a game and a plan                                            *)

States == 0..2
Acts   == <<Reset, "ACTION1">>

\* What is_goal returns: a verdict, or nothing.
Answers == {{TRUE}, {FALSE}, {}}

\* A corridor of three cells: one action walks on, a reset goes back.
Corridor ==
    [initial |-> [f \in States |-> {f}],
     step |-> [x \in States \X ToSet(Acts) |->
                 IF x[2] = Reset THEN {0} ELSE {IF x[1] < 2 THEN x[1] + 1 ELSE 2}],
     render |-> [s \in States |-> s],
     status |-> [s \in States |-> IF s = 2 THEN "WIN" ELSE "NOT_FINISHED"],
     metrics |-> [s \in States |-> IF s = 2 THEN 1 ELSE 0],
     available |-> [s \in States |-> {"ACTION1"}],
     reset |-> <<>>,
     goal |-> [s \in States |-> {s = 2}]]

\* The same corridor with a trap in the middle.
Trap == [Corridor EXCEPT !.status[1] = "GAME_OVER"]

ProgramCase ==
    {[kind |-> "program", program |-> g, game |-> g, plan |-> <<>>, edits |-> 0] :
        g \in {Corridor, Trap}}

EditProgram ==
    /\ case.edits < MaxEdits
    /\ \/ \E x \in DOMAIN Corridor.step, next \in {{s} : s \in States} \cup {{}} :
            case' = [case EXCEPT !.program.step[x] = next, !.edits = @ + 1]
       \/ \E s \in States : case' = [case EXCEPT !.program.render[s] = 0, !.edits = @ + 1]
       \/ \E f \in {"status", "metrics", "available"} :
            case' = [case EXCEPT !.program[f] = <<>>, !.edits = @ + 1]
       \/ \E s \in States, goal \in Answers :
            case' = [case EXCEPT !.program.goal[s] = goal, !.edits = @ + 1]

EditGame ==
    /\ case.edits < MaxEdits
    /\ \/ \E x \in DOMAIN Corridor.step, s \in States :
            case' = [case EXCEPT !.game.step[x] = {s}, !.edits = @ + 1]
       \/ \E s \in States, status \in {"WIN", "GAME_OVER", "NOT_FINISHED"} :
            case' = [case EXCEPT !.game.status[s] = status, !.edits = @ + 1]
       \/ \E s \in States, available \in SUBSET {"ACTION1"} :
            case' = [case EXCEPT !.game.available[s] = available, !.edits = @ + 1]

Edit ==
    /\ case.kind = "program"
    /\ \/ EditProgram
       \/ EditGame
       \/ /\ Len(case.plan) < MaxPlan
          /\ \E a \in ToSet(Acts) : case' = [case EXCEPT !.plan = Append(@, a)]

FirstSeen(game) ==
    [frame |-> game.render[0], status |-> game.status[0], level |-> game.metrics[0],
     available |-> game.available[0], reset |-> FALSE]

\* The history of a game in which the actions are played from the start.
Played(game, actions) ==
    FoldLeft(LAMBDA h, a :
                 LET now == Play(game, h.at, a)
                 IN  [at |-> now.at,
                      transitions |-> Append(h.transitions,
                                             [action |-> a, after |-> now.observation])],
             [at |-> 0, transitions |-> <<>>], actions).transitions

\* What the program shows when it is left alone.
Alone(program, first, history) ==
    LET told[k \in 0..Len(history)] ==
            IF k = 0
            THEN {[state |-> s, observation |-> first] : s \in InitialState(program, first)}
            ELSE UNION {Predict(program, r.state, history[k].action, r.observation) :
                            r \in told[k - 1]}
    IN  told

\* A program is certified exactly when it retells the whole history by itself, although
\* the replay corrects it after every step and goes on after a failed one; the
\* verdict does not depend on where the replay stops, and the state replayed for
\* planning exists for every certified program (verifier.py:66, services.py:228).
VerdictIsReplay ==
    case.kind = "program" =>
        LET first   == FirstSeen(case.game)
            history == Played(case.game, case.plan)
            told    == Alone(case.program, first, history)
            retold  == /\ told[Len(history)] # {}
                       /\ \A k \in DOMAIN history : \A r \in told[k] :
                            r.observation = history[k].after
        IN  /\ \A stop \in BOOLEAN : Verify(case.program, first, history, stop) <=> retold
            /\ retold => ReplayState(case.program, first, history) # {}

\* The rest of a plan that was simulated stays certified while no surprise occurs: cut
\* after any number of actions and simulated again, it is accepted, ends where the
\* first simulation said, and its execution in parts is its execution at once, also
\* across a lost game that the plan resets (simulate.py:29, interactive.py:482).
CertifiedPlanStays ==
    case.kind = "program" =>
        LET from  == [at |-> 0, state |-> 0, observation |-> FirstSeen(case.game)]
            ahead == Simulate(case.program, 0, from.observation, case.plan)
            whole == Execute(case.program, case.game, from, case.plan, MaxPlan)
            After(k) == Execute(case.program, case.game, from, case.plan, k)
        IN  ahead # {} =>
              \A k \in 1..Len(case.plan) :
                LET e == After(k)
                IN  ~e.diverged =>
                    /\ ~e.raised
                    /\ {[state |-> p.state, observation |-> p.observation] : p \in ahead}
                         = {[state |-> p.state, observation |-> p.observation] :
                                p \in Simulate(case.program, e.state, e.observation, e.remaining)}
                    /\ ~e.stopped =>
                         Execute(case.program, case.game, e, e.remaining, MaxPlan) = whole
                    /\ e.stopped /\ e.remaining # <<>> => Head(e.remaining) = Reset

Reaches(program, d, answers) ==
    \E n \in 0..d : \E path \in [1..n -> ToSet(Acts)] :
        \E s \in FoldLeft(LAMBDA S, a : UNION {program.step[<<s, a>>] : s \in S}, {0}, path) :
            program.goal[s] \in answers

\* A search that finds a goal returns a shortest way to it that the program can walk;
\* one that gives up for its depth has missed nothing within it, and one that gives up
\* for its nodes has expanded as many as it was given; and one that raises meets a state
\* whose is_goal raises before it can meet a nearer goal (search.py:24 and 40).
SearchShortest ==
    case.kind = "program" /\ case.plan = <<>> =>
        \A depth \in 0..3, nodes \in 1..4 :
            LET result == BreadthFirstSearch(case.program, 0, Acts, depth, nodes)
                Ends(d) == Reaches(case.program, d, {{TRUE}, {}})
                Led(path) == FoldLeft(
                    LAMBDA S, a : UNION {case.program.step[<<s, a>>] : s \in S}, {0}, path)
            IN  /\ \A found \in result :
                     /\ found.found =>
                          /\ Len(found.path) <= depth
                          /\ \E s \in Led(found.path) : case.program.goal[s] = {TRUE}
                          /\ ~Ends(Len(found.path) - 1)
                     /\ found.reason = "depth_exhausted" => ~Ends(depth)
                     /\ found.reason = "node_limit" => nodes <= Cardinality(States)
                /\ result = {} =>
                     \E d \in 0..depth : Reaches(case.program, d, {{}}) /\ ~Ends(d - 1)

-----------------------------------------------------------------------------
(* The toy world and its program                                           *)

ToyCase ==
    {[kind |-> "toy", world |-> WorldStart, model |-> ModelStart(WorldStart.grid),
      moved |-> TRUE, detours |-> 0]}

\* The program of a real run is started on the first observation; it follows moves.
PlayToy ==
    /\ case.kind = "toy"
    /\ \E action \in ToyAction :
         LET detour == IF action = 4 THEN 0 ELSE 1
         IN  /\ case.detours + detour <= MaxDetours
             /\ Len(case.world.undo) < MaxUndo
             /\ case' = [case EXCEPT !.world = WorldStep(@, action),
                                     !.model = ModelStep(@, action),
                                     !.moved = @ /\ action \notin {0, 7},
                                     !.detours = @ + detour]

\* The program the repository ships reproduces every game of moves, bumps included, and
\* an undo takes back exactly one of them, also the winning one (toy.py:9 and 102).
ToyModelPredicts ==
    case.kind = "toy" =>
        /\ case.moved => ModelShows(case.model) = WorldShows(case.world)
        /\ \A a \in DOMAIN Directions :
             case.world.status = "NOT_FINISHED" =>
                 WorldStep(WorldStep(case.world, a), 7) = case.world

-----------------------------------------------------------------------------
(* Scores                                                                  *)

ScoreCase == {[kind |-> "score", baselines |-> <<>>, actions |-> <<>>, completed |-> <<>>]}

Finish ==
    /\ case.kind = "score" /\ Len(case.baselines) < MaxLevels
    /\ \E b \in 1..MaxActions, a \in 0..MaxActions, c \in BOOLEAN :
         case' = [case EXCEPT !.baselines = Append(@, b), !.actions = Append(@, a),
                              !.completed = Append(@, c)]

\* A score lies between nothing and everything; it is everything only when every level
\* is complete; an action saved or a level completed never lowers it, whatever the other
\* levels did; and the levels that count as complete for the cap, which are those with a
\* score, are those the game completed with any action (scoring.py:47 and 53).
ScoreRewards ==
    case.kind = "score" =>
        LET unit == Unit(MaxActions)
            all  == Perfect(unit, Len(case.baselines))
            Score(a, c) == ScoreGame(unit, case.baselines, a, c)
            now  == Score(case.actions, case.completed)
            levels == LevelScores(unit, case.baselines, case.actions, case.completed)
        IN  /\ now \in 0..all
            /\ now = all => \A i \in DOMAIN case.completed : case.completed[i]
            /\ now <= CompletionCap(unit, case.completed)
            /\ \A i \in DOMAIN levels :
                 levels[i] > 0 <=> case.completed[i] /\ case.actions[i] > 0
            /\ \A i \in DOMAIN case.actions :
                 /\ case.actions[i] > 1 =>
                      now <= Score([case.actions EXCEPT ![i] = @ - 1], case.completed)
                 /\ now <= Score(case.actions, [case.completed EXCEPT ![i] = TRUE])

-----------------------------------------------------------------------------
Init == case \in GridCase \cup TrackCase \cup ProgramCase \cup ToyCase \cup ScoreCase
Next == Paint \/ Track \/ Edit \/ PlayToy \/ Finish
Spec == Init /\ [][Next]_case

\* Room for a hole, and for objects too far apart to be one.
MCGrids ==
    {[width |-> 3, height |-> 3, colors |-> {0, 1}, painted |-> 9],
     [width |-> 9, height |-> 1, colors |-> {0, 1, 2}, painted |-> 2]}
=============================================================================
