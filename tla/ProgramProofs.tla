--------------------------- MODULE ProgramProofs ---------------------------
(***************************************************************************)
(* Proofs about the algorithms, second part: the toy games, the scores,    *)
(* and what is done with a program -- replay, simulation, execution and    *)
(* search -- for every program whose calls return at most one state.       *)
(***************************************************************************)
EXTENDS PerceptionProofs

-----------------------------------------------------------------------------
(* The toy world and its program                                           *)

Cells  == (0..11) \X (0..7)
Within == (1..10) \X (1..6)
Colors == {Floor, Wall, Door, Player, Key, Goal}
Grid   == {g \in [Cells -> Colors] : \A p \in Cells \ Within : g[p] = Wall}
PlaceSet ==
    [grid : Grid, player : Within, hasKey : BOOLEAN, status : {"NOT_FINISHED", "WIN"}]

\* The world is walled in, and so is every place that is remembered.
WorldOK(world) ==
    /\ world = [grid |-> world.grid, player |-> world.player, hasKey |-> world.hasKey,
                status |-> world.status, undo |-> world.undo]
    /\ Place(world) \in PlaceSet
    /\ world.undo \in Seq(PlaceSet)

\* What the program has computed of a world it follows.
InStep(model, world) ==
    model = [grid |-> world.grid, player |-> world.player, goal |-> {<<8, 1>>},
             hasKey |-> world.hasKey, status |-> world.status,
             levels |-> IF world.status = "WIN" THEN 1 ELSE 0]

\* The four directions are those of the move actions.
LEMMA DirectionsFact ==
    /\ DOMAIN Directions = 1..4
    /\ Directions[1] = <<0, -1>> /\ Directions[2] = <<0, 1>>
    /\ Directions[3] = <<-1, 0>> /\ Directions[4] = <<1, 0>>
BY DEF Directions

\* Within the walls, a neighbor of a cell is a cell.
LEMMA BesideIsCell ==
    ASSUME NEW p \in Within, NEW a \in DOMAIN Directions
    PROVE  Beside(p, a) \in Cells
<1>1. PICK x \in 1..10, y \in 1..6 : p = <<x, y>>
  BY DEF Within
<1>2. a \in 1..4
  BY DirectionsFact
<1>3. CASE a = 1
  BY <1>1, <1>3, DirectionsFact DEF Beside, Cells
<1>4. CASE a = 2
  BY <1>1, <1>4, DirectionsFact DEF Beside, Cells
<1>5. CASE a = 3
  BY <1>1, <1>5, DirectionsFact DEF Beside, Cells
<1>6. CASE a = 4
  BY <1>1, <1>6, DirectionsFact DEF Beside, Cells
<1> QED BY <1>2, <1>3, <1>4, <1>5, <1>6

\* The world starts walled in, with one player and one goal on it.
LEMMA InitialGridFact ==
    /\ InitialGrid \in Grid
    /\ Find(InitialGrid, Player) = {<<1, 1>>}
    /\ Find(InitialGrid, Goal) = {<<8, 1>>}
<1>1. DOMAIN InitialGrid = Cells
  BY DEF InitialGrid, Cells
<1>2. ASSUME NEW x \in 0..11, NEW y \in 0..7
      PROVE  /\ InitialGrid[<<x, y>>] \in Colors
             /\ <<x, y>> \notin Within => InitialGrid[<<x, y>>] = Wall
             /\ InitialGrid[<<x, y>>] = Player <=> <<x, y>> = <<1, 1>>
             /\ InitialGrid[<<x, y>>] = Goal <=> <<x, y>> = <<8, 1>>
  <2>1. InitialGrid[<<x, y>>] =
          CASE x = 1 /\ y = 1 -> Player
            [] x = 3 /\ y = 1 -> Key
            [] x = 5 /\ y = 1 -> Door
            [] x = 8 /\ y = 1 -> Goal
            [] x \in {0, 11} \/ y \in {0, 7} -> Wall
            [] y = 3 /\ x \in 2..9 -> Wall
            [] OTHER -> Floor
    BY DEF InitialGrid
  <2>2. <<x, y>> \in Within <=> x \in 1..10 /\ y \in 1..6
    BY DEF Within
  <2> QED BY <2>1, <2>2 DEF Colors, Floor, Wall, Door, Player, Key, Goal
<1>3. ASSUME NEW p \in Cells
      PROVE  /\ InitialGrid[p] \in Colors
             /\ p \notin Within => InitialGrid[p] = Wall
             /\ InitialGrid[p] = Player <=> p = <<1, 1>>
             /\ InitialGrid[p] = Goal <=> p = <<8, 1>>
  <2>1. PICK x \in 0..11, y \in 0..7 : p = <<x, y>>
    BY DEF Cells
  <2> QED BY <1>2, <2>1
<1>4. InitialGrid = [p \in Cells |-> InitialGrid[p]]
  BY DEF InitialGrid, Cells
<1>5. InitialGrid \in Grid
  BY <1>1, <1>3, <1>4 DEF Grid
<1>6. <<1, 1>> \in Cells /\ <<8, 1>> \in Cells
  BY DEF Cells
<1>7. Find(InitialGrid, Player) = {<<1, 1>>}
  BY <1>1, <1>3, <1>6 DEF Find
<1>8. Find(InitialGrid, Goal) = {<<8, 1>>}
  BY <1>1, <1>3, <1>6 DEF Find
<1> QED BY <1>5, <1>7, <1>8

\* A world starts walled in, with nothing to take back.
LEMMA WorldStartOK ==
    WorldOK(WorldStart) /\ InStep(ModelStart(WorldStart.grid), WorldStart)
<1>1. WorldStart.grid = InitialGrid
  BY DEF WorldStart
<1>2. Place(WorldStart) \in PlaceSet
  <2>1. <<1, 1>> \in Within
    BY DEF Within
  <2> QED BY <2>1, InitialGridFact DEF WorldStart, Place, PlaceSet
<1>3. WorldOK(WorldStart)
  BY <1>2 DEF WorldOK, WorldStart
<1>4. (CHOOSE p \in Find(InitialGrid, Player) : TRUE) = <<1, 1>>
  BY InitialGridFact
<1>5. ModelStart(InitialGrid) =
        [grid |-> InitialGrid, player |-> <<1, 1>>, goal |-> {<<8, 1>>}, hasKey |-> FALSE,
         status |-> "NOT_FINISHED", levels |-> 0]
  BY <1>4, InitialGridFact DEF ModelStart
<1> QED BY <1>1, <1>3, <1>5 DEF InStep, WorldStart

\* Changing the fields of a record, one fact for each record that is changed.
LEMMA NotedFields ==
    ASSUME NEW w, NEW u,
           w = [grid |-> w.grid, player |-> w.player, hasKey |-> w.hasKey,
                status |-> w.status, undo |-> w.undo]
    PROVE  [w EXCEPT !.undo = u] =
               [grid |-> w.grid, player |-> w.player, hasKey |-> w.hasKey,
                status |-> w.status, undo |-> u]
OBVIOUS

\* What a move changes.
LEMMA MovedFields ==
    ASSUME NEW w, NEW g0, NEW p0, NEW k0, NEW s0, NEW u, NEW g, NEW p, NEW k, NEW s,
           w = [grid |-> g0, player |-> p0, hasKey |-> k0, status |-> s0, undo |-> u]
    PROVE  [w EXCEPT !.grid = g, !.hasKey = k, !.player = p, !.status = s] =
               [grid |-> g, player |-> p, hasKey |-> k, status |-> s, undo |-> u]
<1> DEFINE x == [w EXCEPT !.grid = g, !.hasKey = k, !.player = p, !.status = s]
<1>1. x \in [grid : {g}, player : {p}, hasKey : {k}, status : {s}, undo : {u}]
  OBVIOUS
<1> HIDE DEF x
<1>2. x = [grid |-> g, player |-> p, hasKey |-> k, status |-> s, undo |-> u]
  BY <1>1
<1> QED BY <1>2 DEF x

\* What a step of the program changes.
LEMMA ModelFields ==
    ASSUME NEW m, NEW g0, NEW p0, NEW o, NEW k0, NEW s0, NEW l0,
           NEW g, NEW p, NEW k, NEW s, NEW l,
           m = [grid |-> g0, player |-> p0, goal |-> o, hasKey |-> k0, status |-> s0,
                levels |-> l0]
    PROVE  [m EXCEPT !.grid = g, !.hasKey = k, !.player = p, !.status = s, !.levels = l] =
               [grid |-> g, player |-> p, goal |-> o, hasKey |-> k, status |-> s,
                levels |-> l]
<1> DEFINE x == [m EXCEPT !.grid = g, !.hasKey = k, !.player = p, !.status = s, !.levels = l]
<1>1. x \in [grid : {g}, player : {p}, goal : {o}, hasKey : {k}, status : {s}, levels : {l}]
  OBVIOUS
<1> HIDE DEF x
<1>2. x = [grid |-> g, player |-> p, goal |-> o, hasKey |-> k, status |-> s, levels |-> l]
  BY <1>1
<1> QED BY <1>2 DEF x

\* A move leads to a cell within the walls, or is a bump.
LEMMA MoveOK ==
    ASSUME NEW world, WorldOK(world), NEW a \in DOMAIN Directions
    PROVE  /\ WorldOK(Move(world, a))
           /\ Move(world, a).undo = Append(world.undo, Place(world))
<1> DEFINE there == Beside(world.player, a)
           target == world.grid[there]
           noted == [world EXCEPT !.undo = Append(@, Place(world))]
           moved == [noted EXCEPT
                !.grid = [@ EXCEPT ![world.player] = Floor, ![there] = Player],
                !.hasKey = @ \/ target = Key,
                !.player = there,
                !.status = IF there = <<8, 1>> THEN "WIN" ELSE @]
<1>1. /\ world.grid \in Grid /\ world.player \in Within /\ world.hasKey \in BOOLEAN
      /\ world.status \in {"NOT_FINISHED", "WIN"} /\ world.undo \in Seq(PlaceSet)
      /\ Place(world) \in PlaceSet
  BY DEF WorldOK, PlaceSet, Place
<1>2. there \in Cells /\ world.player \in Cells
  BY <1>1, BesideIsCell DEF Within, Cells
<1>3. Append(world.undo, Place(world)) \in Seq(PlaceSet)
  BY <1>1
<1>4. noted = [grid |-> world.grid, player |-> world.player, hasKey |-> world.hasKey,
               status |-> world.status, undo |-> Append(world.undo, Place(world))]
  <2>1. world = [grid |-> world.grid, player |-> world.player, hasKey |-> world.hasKey,
                 status |-> world.status, undo |-> world.undo]
    BY DEF WorldOK
  <2> QED BY <2>1, NotedFields
<1>5. CASE target = Wall \/ (target = Door /\ ~world.hasKey)
  <2>1. Move(world, a) = noted
    BY <1>5 DEF Move
  <2>2. Place(noted) = Place(world)
    BY <1>4 DEF Place
  <2> HIDE DEF noted
  <2> QED BY <1>1, <1>3, <1>4, <2>1, <2>2 DEF WorldOK
<1>6. CASE ~(target = Wall \/ (target = Door /\ ~world.hasKey))
  <2>1. Move(world, a) = moved
    BY <1>6 DEF Move
  <2> DEFINE grid2 == [world.grid EXCEPT ![world.player] = Floor, ![there] = Player]
             key2 == world.hasKey \/ target = Key
             status2 == IF there = <<8, 1>> THEN "WIN" ELSE world.status
  <2>2. moved = [grid |-> grid2, player |-> there, hasKey |-> key2,
                 status |-> status2, undo |-> Append(world.undo, Place(world))]
    <3>1. moved = [noted EXCEPT !.grid = grid2, !.hasKey = key2, !.player = there,
                                !.status = status2]
      BY <1>4
    <3> HIDE DEF noted, grid2, key2, status2, moved, there
    <3> QED BY <1>4, <3>1, MovedFields
  <2>3. there \in Within
    <3>1. target # Wall
      BY <1>6
    <3> HIDE DEF there
    <3> QED BY <1>1, <1>2, <3>1 DEF Grid
  <2>4. grid2 \in Grid
    <3>1. Floor \in Colors /\ Player \in Colors
      BY DEF Colors
    <3>2. world.grid \in [Cells -> Colors] /\ \A p \in Cells \ Within : world.grid[p] = Wall
      BY <1>1 DEF Grid
    <3> HIDE DEF there
    <3>3. grid2 \in [Cells -> Colors]
      BY <1>2, <3>1, <3>2
    <3>4. \A p \in Cells \ Within : grid2[p] = Wall
      BY <1>1, <1>2, <2>3, <3>2
    <3> QED BY <3>3, <3>4 DEF Grid
  <2>5. key2 \in BOOLEAN
    BY <1>1
  <2>6. status2 \in {"NOT_FINISHED", "WIN"}
    BY <1>1
  <2> HIDE DEF there, target, grid2, key2, status2, moved, noted
  <2>7. [grid |-> grid2, player |-> there, hasKey |-> key2, status |-> status2] \in PlaceSet
    BY <2>3, <2>4, <2>5, <2>6 DEF PlaceSet
  <2>8. Place(moved) = [grid |-> grid2, player |-> there, hasKey |-> key2, status |-> status2]
    BY <2>2 DEF Place
  <2>9. WorldOK(moved)
    BY <2>2, <2>7, <2>8, <1>3 DEF WorldOK
  <2> QED BY <2>1, <2>2, <2>9
<1> QED BY <1>5, <1>6

\* What is taken back is a world as well.
LEMMA UndoOK ==
    ASSUME NEW world, WorldOK(world), world.undo # <<>>
    PROVE  WorldOK(WorldStep(world, 7))
<1>1. world.undo \in Seq(PlaceSet)
  BY DEF WorldOK
<1>2. Last(world.undo) \in PlaceSet /\ Front(world.undo) \in Seq(PlaceSet)
  BY <1>1 DEF Last, Front
<1> DEFINE l == Last(world.undo)
           f == Front(world.undo)
<1>3. WorldStep(world, 7) = [grid |-> l.grid, player |-> l.player, hasKey |-> l.hasKey,
                            status |-> l.status, undo |-> f]
  BY DirectionsFact DEF WorldStep, TakeBack
<1> HIDE DEF l, f
<1>4. l = [grid |-> l.grid, player |-> l.player, hasKey |-> l.hasKey, status |-> l.status]
  BY <1>2 DEF PlaceSet, l
<1>6. Place(WorldStep(world, 7)) = l
  BY <1>3, <1>4 DEF Place
<1> QED BY <1>2, <1>3, <1>6 DEF WorldOK, l, f

\* Undoing a move leads back, from wherever it led.
LEMMA UndoTakesBack ==
    ASSUME NEW world, WorldOK(world), world.status = "NOT_FINISHED",
           NEW a \in DOMAIN Directions
    PROVE  WorldStep(WorldStep(world, a), 7) = world
<1>1. WorldStep(world, a) = Move(world, a)
  BY DirectionsFact DEF WorldStep
<1>2. Move(world, a).undo = Append(world.undo, Place(world)) /\ world.undo \in Seq(PlaceSet)
      /\ Place(world) \in PlaceSet
  BY MoveOK DEF WorldOK
<1> DEFINE m == Move(world, a)
           p == Place(world)
<1> HIDE DEF m, p
<1>3. m.undo = Append(world.undo, p) /\ world.undo \in Seq(PlaceSet) /\ p \in PlaceSet
  BY <1>2 DEF m, p
<1>4. m.undo # <<>> /\ Last(m.undo) = p /\ Front(m.undo) = world.undo
  BY <1>3, AppendProperties DEF Last, Front
<1>5. WorldStep(m, 7) = [grid |-> p.grid, player |-> p.player, hasKey |-> p.hasKey,
                        status |-> p.status, undo |-> world.undo]
  BY <1>4, DirectionsFact DEF WorldStep, TakeBack
<1>6. p.grid = world.grid /\ p.player = world.player /\ p.hasKey = world.hasKey
      /\ p.status = world.status
  BY DEF p, Place
<1> QED BY <1>1, <1>5, <1>6 DEF WorldOK, m

\* Every action, undo and reset included, keeps the world walled in.
LEMMA WorldStepOK ==
    ASSUME NEW world, WorldOK(world), NEW action \in ToyAction
    PROVE  WorldOK(WorldStep(world, action))
<1>1. CASE action = 0
  BY <1>1, WorldStartOK, DirectionsFact DEF WorldStep
<1>2. CASE action = 7
  <2>1. CASE world.undo = <<>>
    BY <1>2, <2>1, DirectionsFact DEF WorldStep
  <2> QED BY <1>2, <2>1, UndoOK
<1>3. CASE action \in DOMAIN Directions /\ world.status = "NOT_FINISHED"
  BY <1>3, DirectionsFact, MoveOK DEF WorldStep
<1>4. CASE action \notin {0, 7} /\ ~(action \in DOMAIN Directions /\ world.status = "NOT_FINISHED")
  BY <1>4 DEF WorldStep
<1> QED BY <1>1, <1>2, <1>3, <1>4

\* The simulation: a move keeps the program in step with the world.
LEMMA ModelFollows ==
    ASSUME NEW world, WorldOK(world), NEW model, InStep(model, world),
           NEW action \in ToyAction \ {0, 7}
    PROVE  InStep(ModelStep(model, action), WorldStep(world, action))
<1>1. CASE ~(action \in DOMAIN Directions /\ world.status = "NOT_FINISHED")
  <2>1. WorldStep(world, action) = world
    BY <1>1 DEF WorldStep
  <2>2. ModelStep(model, action) = model
    BY <1>1 DEF ModelStep, InStep
  <2> QED BY <2>1, <2>2
<1>2. CASE action \in DOMAIN Directions /\ world.status = "NOT_FINISHED"
  <2> DEFINE there == Beside(world.player, action)
             target == world.grid[there]
             grid2 == [world.grid EXCEPT ![world.player] = Floor, ![there] = Player]
  <2>1. WorldStep(world, action) = Move(world, action)
    BY <1>2 DEF WorldStep
  <2>2. /\ model.player = world.player /\ model.grid = world.grid /\ model.goal = {<<8, 1>>}
        /\ model.hasKey = world.hasKey /\ model.status = world.status /\ model.levels = 0
    BY <1>2 DEF InStep
  <2>3. CASE target = Wall \/ (target = Door /\ ~world.hasKey)
    <3>1. ModelStep(model, action) = model
      BY <1>2, <2>2, <2>3 DEF ModelStep
    <3>2. Move(world, action) = [world EXCEPT !.undo = Append(@, Place(world))]
      BY <2>3 DEF Move
    <3>3. /\ Move(world, action).grid = world.grid /\ Move(world, action).player = world.player
          /\ Move(world, action).hasKey = world.hasKey
          /\ Move(world, action).status = world.status
      BY <3>2 DEF WorldOK
    <3> QED BY <2>1, <3>1, <3>3 DEF InStep
  <2>4. CASE ~(target = Wall \/ (target = Door /\ ~world.hasKey))
    <3>1. ModelStep(model, action) =
            [model EXCEPT
                     !.grid = grid2,
                     !.hasKey = world.hasKey \/ target = Key,
                     !.player = there,
                     !.status = IF {<<8, 1>>} = {there} THEN "WIN" ELSE model.status,
                     !.levels = IF {<<8, 1>>} = {there} THEN 1 ELSE model.levels]
      BY <1>2, <2>2, <2>4 DEF ModelStep
    <3>2. Move(world, action) =
            [[world EXCEPT !.undo = Append(@, Place(world))] EXCEPT
                !.grid = grid2,
                !.hasKey = world.hasKey \/ target = Key,
                !.player = there,
                !.status = IF there = <<8, 1>> THEN "WIN" ELSE @]
      BY <2>4 DEF Move, WorldOK
    <3> HIDE DEF there, target, grid2
    <3> DEFINE w == Move(world, action)
               k == world.hasKey \/ target = Key
    <3>3. /\ w.grid = grid2 /\ w.player = there /\ w.hasKey = k
          /\ w.status = IF there = <<8, 1>> THEN "WIN" ELSE "NOT_FINISHED"
      BY <1>2, <3>2 DEF WorldOK
    <3>4. model = [grid |-> model.grid, player |-> model.player, goal |-> {<<8, 1>>},
                   hasKey |-> model.hasKey, status |-> "NOT_FINISHED", levels |-> 0]
      BY <1>2 DEF InStep
    <3>5. ModelStep(model, action) =
            [grid |-> grid2, player |-> there, goal |-> {<<8, 1>>}, hasKey |-> k,
             status |-> IF there = <<8, 1>> THEN "WIN" ELSE "NOT_FINISHED",
             levels |-> IF there = <<8, 1>> THEN 1 ELSE 0]
      <4> DEFINE s == IF there = <<8, 1>> THEN "WIN" ELSE "NOT_FINISHED"
                 l == IF there = <<8, 1>> THEN 1 ELSE 0
      <4>4. /\ s = IF {<<8, 1>>} = {there} THEN "WIN" ELSE model.status
            /\ l = IF {<<8, 1>>} = {there} THEN 1 ELSE model.levels
        BY <3>4
      <4> HIDE DEF s, l
      <4>1. ModelStep(model, action) =
              [model EXCEPT !.grid = grid2, !.hasKey = k, !.player = there, !.status = s,
                            !.levels = l]
        BY <3>1, <4>4, Zenon
      <4>2. model.goal = {<<8, 1>>}
        BY <3>4
      <4> HIDE DEF s, l, k
      <4>3. ModelStep(model, action) =
              [grid |-> grid2, player |-> there, goal |-> {<<8, 1>>}, hasKey |-> k,
               status |-> s, levels |-> l]
        BY <3>4, <4>1, <4>2, ModelFields
      <4> QED BY <4>3 DEF s, l
    <3> HIDE DEF w, k
    <3>6. InStep(ModelStep(model, action), w)
      BY <3>3, <3>5 DEF InStep
    <3> QED BY <2>1, <3>6 DEF w
  <2> QED BY <2>3, <2>4
<1> QED BY <1>1, <1>2

\* The inductive invariant of the toy games.
ToyInv ==
    case.kind = "toy" =>
        /\ case = [kind |-> "toy", world |-> case.world, model |-> case.model,
                   moved |-> case.moved, detours |-> case.detours]
        /\ WorldOK(case.world)
        /\ case.moved \in BOOLEAN
        /\ case.moved => InStep(case.model, case.world)

\* Every action of a game keeps it.
LEMMA ToyInvInductive ==
    /\ Init => ToyInv
    /\ Shaped /\ ToyInv /\ [Next]_case => ToyInv'
<1>1. ASSUME Init PROVE ToyInv
  <2>1. SUFFICES ASSUME case.kind = "toy" PROVE ToyInv
    BY DEF ToyInv
  <2>2. case = [kind |-> "toy", world |-> WorldStart, model |-> ModelStart(WorldStart.grid),
                moved |-> TRUE, detours |-> 0]
    BY <1>1, <2>1, InitShaped DEF ToyCase
  <2> QED BY <2>2, WorldStartOK DEF ToyInv
<1>2. ASSUME Shaped, ToyInv, Next PROVE ToyInv'
  <2>1. case'.kind = case.kind /\ OfKind
    BY <1>2, NextShaped
  <2>2. SUFFICES ASSUME case.kind = "toy" PROVE ToyInv'
    BY <2>1 DEF ToyInv
  <2>3. PICK action \in ToyAction :
          case' = [case EXCEPT !.world = WorldStep(@, action),
                               !.model = ModelStep(@, action),
                               !.moved = @ /\ action \notin {0, 7},
                               !.detours = @ + IF action = 4 THEN 0 ELSE 1]
    BY <2>1, <2>2 DEF OfKind, PlayToy
  <2> DEFINE w == WorldStep(case.world, action)
             m == ModelStep(case.model, action)
             b == case.moved /\ action \notin {0, 7}
             d == case.detours + IF action = 4 THEN 0 ELSE 1
  <2>4. case = [kind |-> "toy", world |-> case.world, model |-> case.model,
                moved |-> case.moved, detours |-> case.detours]
        /\ WorldOK(case.world) /\ case.moved \in BOOLEAN
        /\ (case.moved => InStep(case.model, case.world))
    BY <1>2, <2>2 DEF ToyInv
  <2>5. case' = [case EXCEPT !.world = w, !.model = m, !.moved = b, !.detours = d]
    BY <2>3
  <2>6. b \in BOOLEAN
    OBVIOUS
  <2>7. WorldOK(w)
    BY <2>4, WorldStepOK
  <2>8. b => InStep(m, w)
    BY <2>4, ModelFollows
  <2> HIDE DEF w, m, b, d
  <2>9. case' = [kind |-> "toy", world |-> w, model |-> m, moved |-> b, detours |-> d]
    <3> DEFINE x == [case EXCEPT !.world = w, !.model = m, !.moved = b, !.detours = d]
    <3>0. PICK w0, m0, b0, d0 :
            case = [kind |-> "toy", world |-> w0, model |-> m0, moved |-> b0, detours |-> d0]
      BY <2>4
    <3>1. x \in [kind : {"toy"}, world : {w}, model : {m}, moved : {b}, detours : {d}]
      BY <3>0
    <3> HIDE DEF x
    <3>2. x = [kind |-> "toy", world |-> w, model |-> m, moved |-> b, detours |-> d]
      BY <3>1
    <3> QED BY <2>5, <3>2 DEF x
  <2> QED BY <2>6, <2>7, <2>8, <2>9 DEF ToyInv
<1>3. ASSUME ToyInv, UNCHANGED case PROVE ToyInv'
  BY <1>3 DEF ToyInv
<1> QED BY <1>1, <1>2, <1>3

\* The program the repository ships shows what the world shows after every game of moves,
\* however long, and an undo takes back exactly one of them (toy.py:9 and 102).
THEOREM ToyPredicts == Spec => []ToyModelPredicts
<1>1. ToyInv => ToyModelPredicts
  <2>1. SUFFICES ASSUME ToyInv, case.kind = "toy" PROVE ToyModelPredicts
    BY DEF ToyModelPredicts
  <2>2. WorldOK(case.world) /\ (case.moved => InStep(case.model, case.world))
    BY <2>1 DEF ToyInv
  <2>3. case.moved => ModelShows(case.model) = WorldShows(case.world)
    BY <2>2 DEF InStep, ModelShows, WorldShows
  <2>4. ASSUME NEW a \in DOMAIN Directions, case.world.status = "NOT_FINISHED"
        PROVE  WorldStep(WorldStep(case.world, a), 7) = case.world
    BY <2>2, <2>4, UndoTakesBack
  <2> QED BY <2>3, <2>4 DEF ToyModelPredicts
<1> QED BY <1>1, AlwaysShaped, ToyInvInductive, PTL DEF Spec

-----------------------------------------------------------------------------
(* Scores                                                                  *)

\* The function behind Total.
Sums(s) ==
    CHOOSE it : it = [S \in SUBSET DOMAIN s |->
                         IF S = {} THEN 0 ELSE it[S \ {Max(S)}] + s[Max(S)]]

\* A total is reached by adding one number after the other.
LEMMA TotalRun ==
    ASSUME NEW n \in Nat, NEW s \in [1..n -> Nat]
    PROVE  \E g \in [0..n -> Nat] :
               g[0] = 0 /\ (\A k \in 1..n : g[k] = g[k - 1] + s[k]) /\ Total(s) = g[n]
<1> DEFINE F == [k \in 1..n |-> [b \in Nat |-> b + s[k]]]
<1>1. F \in [1..n -> [Nat -> Nat]]
  OBVIOUS
<1>2. PICK it \in [SUBSET (1..n) -> Nat] : Folds(it, n, 0, F)
  <2> HIDE DEF F
  <2> QED BY <1>1, FoldExists
<1>3. it = [S \in SUBSET DOMAIN s |-> IF S = {} THEN 0 ELSE it[S \ {Max(S)}] + s[Max(S)]]
  <2>1. DOMAIN s = 1..n
    OBVIOUS
  <2>2. ASSUME NEW S \in SUBSET (1..n)
        PROVE  it[S] = IF S = {} THEN 0 ELSE it[S \ {Max(S)}] + s[Max(S)]
    <3>1. CASE S = {}
      BY <1>2, <3>1 DEF Folds
    <3>2. CASE S # {}
      <4>1. Max(S) \in 1..n /\ S \ {Max(S)} \in SUBSET (1..n)
        BY <3>2, MaxOfNumbers
      <4>2. it[S \ {Max(S)}] \in Nat
        BY <4>1
      <4>3. F[Max(S)][it[S \ {Max(S)}]] = it[S \ {Max(S)}] + s[Max(S)]
        BY <4>1, <4>2
      <4>4. it[S] = F[Max(S)][it[S \ {Max(S)}]]
        BY <1>2, <3>2 DEF Folds
      <4> QED BY <3>2, <4>3, <4>4
    <3> QED BY <3>1, <3>2
  <2> QED BY <2>1, <2>2
<1>4. Sums(s) = [S \in SUBSET DOMAIN s |->
                    IF S = {} THEN 0 ELSE Sums(s)[S \ {Max(S)}] + s[Max(S)]]
  BY <1>3 DEF Sums
<1> DEFINE c == Sums(s)
           g == [k \in 0..n |-> c[1..k]]
<1> HIDE DEF c
<1>5. \A S \in SUBSET (1..n) : c[S] = IF S = {} THEN 0 ELSE c[S \ {Max(S)}] + s[Max(S)]
  BY <1>4 DEF c
<1>6. g[0] = 0
  <2>1. 1..0 = {} /\ {} \in SUBSET (1..n) /\ 0 \in 0..n
    OBVIOUS
  <2>2. c[{}] = 0
    BY <1>5, <2>1
  <2> QED BY <2>1, <2>2
<1>7. ASSUME NEW k \in 1..n PROVE g[k] = g[k - 1] + s[k]
  <2>1. Max(1..k) = k /\ (1..k) \ {k} = 1..(k - 1) /\ 1..k # {} /\ 1..k \in SUBSET (1..n)
    BY MaxOfPrefix
  <2>2. c[1..k] = c[1..(k - 1)] + s[k]
    BY <1>5, <2>1
  <2>3. k \in 0..n /\ k - 1 \in 0..n
    OBVIOUS
  <2> QED BY <2>2, <2>3
<1>8. Total(s) = g[n]
  <2>1. Total(s) = Sums(s)[DOMAIN s]
    BY DEF Total, FoldLeft, MapThenFoldSet, Sums
  <2> QED BY <2>1 DEF c
<1>9. DOMAIN g = 0..n
  OBVIOUS
<1> DEFINE T == {k \in 0..n : g[k] \in Nat}
<1>10. 0..n \subseteq T
  <2> HIDE DEF g
  <2>1. 0 \in T
    BY <1>6
  <2>2. ASSUME NEW k \in 1..n, k - 1 \in T PROVE k \in T
    BY <1>7, <2>2
  <2> HIDE DEF T
  <2> QED BY <2>1, <2>2, Induction
<1>11. g \in [0..n -> Nat]
  <2>1. \A k \in 0..n : g[k] \in Nat
    BY <1>10
  <2> QED BY <2>1
<1> HIDE DEF g
<1> QED BY <1>6, <1>7, <1>8, <1>11

\* A total of numbers is a number.
LEMMA TotalType ==
    ASSUME NEW n \in Nat, NEW s \in [1..n -> Nat]
    PROVE  Total(s) \in Nat
BY TotalRun

\* A total grows with its parts, and strictly with one of them.
LEMMA TotalGrows ==
    ASSUME NEW n \in Nat, NEW s \in [1..n -> Nat], NEW t \in [1..n -> Nat],
           \A i \in 1..n : s[i] <= t[i]
    PROVE  /\ Total(s) <= Total(t)
           /\ (\E i \in 1..n : s[i] < t[i]) => Total(s) < Total(t)
<1>1. PICK g \in [0..n -> Nat] :
          g[0] = 0 /\ (\A k \in 1..n : g[k] = g[k - 1] + s[k]) /\ Total(s) = g[n]
  BY TotalRun
<1>2. PICK h \in [0..n -> Nat] :
          h[0] = 0 /\ (\A k \in 1..n : h[k] = h[k - 1] + t[k]) /\ Total(t) = h[n]
  BY TotalRun
<1> DEFINE T == {k \in 0..n : g[k] <= h[k] /\ ((\E i \in 1..k : s[i] < t[i]) => g[k] < h[k])}
<1>3. 0 \in T
  BY <1>1, <1>2
<1>4. ASSUME NEW k \in 1..n, k - 1 \in T PROVE k \in T
  <2>1. g[k - 1] \in Nat /\ h[k - 1] \in Nat /\ s[k] \in Nat /\ t[k] \in Nat /\ k \in 0..n
        /\ k - 1 \in 0..n
    OBVIOUS
  <2>2. g[k] = g[k - 1] + s[k] /\ h[k] = h[k - 1] + t[k] /\ s[k] <= t[k]
    BY <1>1, <1>2
  <2>3. g[k - 1] <= h[k - 1] /\ ((\E i \in 1..(k - 1) : s[i] < t[i]) => g[k - 1] < h[k - 1])
    BY <1>4
  <2>4. g[k] <= h[k]
    BY <2>1, <2>2, <2>3
  <2>5. ASSUME NEW i \in 1..k, s[i] < t[i] PROVE g[k] < h[k]
    <3>1. CASE i = k
      <4>1. s[k] < t[k] /\ g[k - 1] <= h[k - 1]
        BY <2>3, <2>5, <3>1
      <4> QED BY <2>1, <2>2, <4>1
    <3>2. CASE i # k
      <4>1. i \in 1..(k - 1)
        BY <3>2
      <4>2. g[k - 1] < h[k - 1]
        BY <2>3, <2>5, <4>1
      <4> QED BY <2>1, <2>2, <4>2
    <3> QED BY <3>1, <3>2
  <2> QED BY <2>1, <2>4, <2>5
<1>5. n \in T
  <2> HIDE DEF T
  <2>1. 0..n \subseteq T
    BY <1>3, <1>4, Induction
  <2> QED BY <2>1
<1> QED BY <1>1, <1>2, <1>5

\* Products and quotients of natural numbers.
LEMMA TimesGrows ==
    ASSUME NEW a \in Nat, NEW x \in Nat, NEW y \in Nat, x <= y
    PROVE  a * x \in Nat /\ a * x <= a * y
<1>1. PICK d \in Nat : y = x + d
  <2>1. y - x \in Nat /\ y = x + (y - x)
    OBVIOUS
  <2> QED BY <2>1
<1>2. a * y = a * x + a * d /\ a * d >= 0
  BY <1>1
<1> QED BY <1>2

\* A quotient shrinks with its divisor.
LEMMA QuotientShrinks ==
    ASSUME NEW x \in Nat, NEW y \in Nat, NEW z \in Nat, 0 < y, y <= z
    PROVE  x \div z \in Nat /\ x \div z <= x \div y
<1> DEFINE q == x \div z
           p == x \div y
<1>1. q \in Nat /\ p \in Nat /\ z * q <= x /\ x < y * (p + 1)
  <2>1. x = z * q + (x % z) /\ 0 <= x % z /\ x % z < z /\ q \in Int
    OBVIOUS
  <2>2. x = y * p + (x % y) /\ 0 <= x % y /\ x % y < y /\ p \in Int
    OBVIOUS
  <2>3. q >= 0 /\ p >= 0
    OBVIOUS
  <2>4. y * (p + 1) = y * p + y
    BY <2>2
  <2> QED BY <2>1, <2>2, <2>3, <2>4
<1> HIDE DEF q, p
<1>2. SUFFICES ASSUME p < q PROVE FALSE
  BY <1>1 DEF q, p
<1>3. y * (p + 1) <= y * q
  BY <1>1, <1>2, TimesGrows
<1>4. y * q <= z * q
  <2>1. q * y <= q * z
    BY <1>1, TimesGrows
  <2> QED BY <1>1, <2>1
<1>5. y * (p + 1) \in Int /\ y * q \in Int /\ z * q \in Int
  BY <1>1
<1> QED BY <1>1, <1>3, <1>4, <1>5

\* Min of two numbers is the lesser one.
LEMMA LesserOf ==
    ASSUME NEW x \in Nat, NEW y \in Nat
    PROVE  Min({x, y}) = IF x <= y THEN x ELSE y
<1>1. \E m \in {x, y} : \A z \in {x, y} : m <= z
  OBVIOUS
<1>2. Min({x, y}) \in {x, y} /\ \A z \in {x, y} : Min({x, y}) <= z
  BY <1>1 DEF Min
<1> QED BY <1>2

\* A unit that the quotients of all levels of up to that many actions divide.
Exact(unit, most) ==
    /\ unit \in Nat /\ unit > 0
    /\ \E q \in Nat : unit = 20 * q
    /\ \A k \in 1..most : \E q \in Nat : unit = (k * k) * q

\* Unit is one, for every number of actions.
LEMMA UnitExact == ASSUME NEW most \in Nat PROVE Exact(Unit(most), most)
<1> DEFINE F == [k \in 1..most |-> [q \in Nat |-> (k * k) * q]]
<1>0. ASSUME NEW k \in Nat, NEW q \in Nat PROVE (k * k) * q \in Nat
  <2>1. k * k \in Nat
    BY TimesGrows
  <2> DEFINE w == k * k
  <2> HIDE DEF w
  <2>2. w * q \in Nat
    BY <2>1, TimesGrows DEF w
  <2> QED BY <2>2 DEF w
<1>1. F \in [1..most -> [Nat -> Nat]] /\ 20 \in Nat
  BY <1>0
<1>2. PICK g \in [0..most -> Nat] : Runs(g, most, 20, F)
  <2> HIDE DEF F
  <2> QED BY <1>1, RunExists
<1>3. g[0] = 20 /\ \A k \in 1..most : g[k] = (k * k) * g[k - 1]
  <2>1. ASSUME NEW k \in 1..most PROVE g[k] = (k * k) * g[k - 1]
    <3>1. k - 1 \in 0..most /\ g[k - 1] \in Nat
      OBVIOUS
    <3>2. g[k] = F[k][g[k - 1]]
      <4> HIDE DEF F
      <4> QED BY <1>2 DEF Runs
    <3> QED BY <3>1, <3>2
  <2> QED BY <1>2, <2>1 DEF Runs
<1> DEFINE Square == CHOOSE f : f = [k \in 0..most |-> IF k = 0 THEN 20 ELSE k * k * f[k - 1]]
<1>4. g = [k \in 0..most |-> IF k = 0 THEN 20 ELSE k * k * g[k - 1]]
  BY <1>3
<1>5. Square = [k \in 0..most |-> IF k = 0 THEN 20 ELSE k * k * Square[k - 1]]
  BY <1>4
<1>6. Unit(most) = Square[most]
  BY DEF Unit
<1> HIDE DEF Square
<1>7. Square[0] = 20 /\ \A k \in 1..most : Square[k] = (k * k) * Square[k - 1]
  BY <1>5
<1> DEFINE T == {k \in 0..most : Exact(Square[k], k)}
<1>8. 0 \in T
  <2>1. 20 = 20 * 1
    OBVIOUS
  <2>2. Exact(20, 0)
    BY <2>1 DEF Exact
  <2> QED BY <1>7, <2>2
<1>9. ASSUME NEW k \in 1..most, k - 1 \in T PROVE k \in T
  <2> DEFINE u == Square[k - 1]
             w == k * k
             v == Square[k]
  <2>1. v = w * u /\ w \in Nat /\ w > 0
    <3>1. k * 1 <= k * k /\ k * k \in Nat
      BY TimesGrows
    <3> QED BY <1>7, <3>1
  <2>2. /\ u \in Nat /\ u > 0 /\ \E q \in Nat : u = 20 * q
        /\ \A j \in 1..(k - 1) : \E q \in Nat : u = (j * j) * q
    BY <1>9 DEF Exact
  <2> HIDE DEF u, v, w
  <2>3. v \in Nat /\ v > 0
    <3>1. w * 1 <= w * u /\ w * u \in Nat
      BY <2>1, <2>2, TimesGrows
    <3> QED BY <2>1, <3>1
  <2>4. \E q \in Nat : v = 20 * q
    <3>1. PICK q \in Nat : u = 20 * q
      BY <2>2
    <3>2. v = 20 * (w * q) /\ w * q \in Nat
      BY <2>1, <3>1, TimesGrows
    <3> QED BY <3>2
  <2>5. ASSUME NEW j \in 1..k PROVE \E q \in Nat : v = (j * j) * q
    <3>1. CASE j = k
      BY <2>1, <2>2, <3>1 DEF w
    <3>2. CASE j # k
      <4>0. j \in 1..(k - 1)
        BY <3>2
      <4>1. PICK q \in Nat : u = (j * j) * q
        BY <2>2, <4>0, Zenon
      <4>2. j * j \in Nat
        BY TimesGrows
      <4> DEFINE y == j * j
      <4> HIDE DEF y
      <4>3. u = y * q /\ y \in Nat
        BY <4>1, <4>2 DEF y
      <4>4. v = y * (w * q) /\ w * q \in Nat
        BY <2>1, <4>3, TimesGrows
      <4> QED BY <4>4 DEF y
    <3> QED BY <3>1, <3>2
  <2>6. Exact(v, k)
    BY <2>3, <2>4, <2>5 DEF Exact
  <2> QED BY <2>6 DEF v
<1>10. most \in T
  <2> HIDE DEF T
  <2>1. 0..most \subseteq T
    BY <1>8, <1>9, Induction
  <2> QED BY <2>1
<1> QED BY <1>6, <1>10

\* The cap of a level's score is exactly 1.15.
LEMMA CapType ==
    ASSUME NEW unit, NEW most \in Nat, Exact(unit, most)
    PROVE  /\ LevelScoreCap(unit) \in Nat /\ LevelScoreCap(unit) > 0
           /\ 100 * LevelScoreCap(unit) = 115 * unit
<1>1. PICK q \in Nat : unit = 20 * q
  BY DEF Exact
<1>2. q > 0 /\ (115 * unit) \div 100 = 23 * q
  BY <1>1 DEF Exact
<1> QED BY <1>1, <1>2 DEF LevelScoreCap

\* A quotient without a rest.
LEMMA QuotientExact ==
    ASSUME NEW y \in Nat, 0 < y, NEW q \in Nat
    PROVE  (y * q) \div y = q
<1> DEFINE x == y * q
           d == x \div y
<1>1. x \in Nat
  BY TimesGrows
<1> HIDE DEF x
<1>2. x = y * d + (x % y) /\ 0 <= x % y /\ x % y < y /\ d \in Int
  BY <1>1
<1> DEFINE rest == x % y
<1>3. rest \in Int
  BY <1>1
<1> HIDE DEF d, rest
<1>4. ASSUME d < q PROVE FALSE
  <2>1. PICK e \in Nat : q = d + 1 + e
    <3>1. q - d - 1 \in Nat /\ q = d + 1 + (q - d - 1)
      BY <1>2, <1>4
    <3> QED BY <3>1
  <2>2. y * q = y * d + y + y * e /\ y * e >= 0
    BY <1>2, <2>1
  <2> QED BY <1>2, <1>3, <2>2 DEF x, rest
<1>5. ASSUME q < d PROVE FALSE
  <2>1. PICK e \in Nat : d = q + 1 + e
    <3>1. d - q - 1 \in Nat /\ d = q + 1 + (d - q - 1)
      BY <1>2, <1>5
    <3> QED BY <3>1
  <2>2. y * d = y * q + y + y * e /\ y * e >= 0
    BY <2>1
  <2> QED BY <1>2, <1>3, <2>2 DEF x, rest
<1>6. d = q
  BY <1>2, <1>4, <1>5
<1> QED BY <1>6 DEF d, x

\* The lesser of a score and the cap is the cap's square of baseline over actions, exactly.
LevelIsExact(unit, b, a, score) ==
    score * (a * a) = Min({unit * b * b, LevelScoreCap(unit) * (a * a)})

\* The score of a complete level is the square of its baseline over its actions, or the cap,
\* without any rest; it is positive when the baseline is.
LEMMA LevelScoreExact ==
    ASSUME NEW most \in Nat, NEW unit, Exact(unit, most), NEW b \in Nat, NEW a \in 1..most
    PROVE  /\ LevelIsExact(unit, b, a, LevelScore(unit, b, a, TRUE))
           /\ b > 0 => LevelScore(unit, b, a, TRUE) > 0
<1> DEFINE y == a * a
           z == b * b
           cap == LevelScoreCap(unit)
<1>1. y \in Nat /\ y > 0 /\ z \in Nat /\ (b > 0 => z > 0)
  <2>1. a * 1 <= a * a /\ a * a \in Nat
    BY TimesGrows
  <2>2. b * b \in Nat /\ (b > 0 => b * 1 <= b * b)
    BY TimesGrows
  <2> QED BY <2>1, <2>2
<1>2. PICK q \in Nat : unit = y * q
  BY DEF Exact
<1>3. unit \in Nat /\ unit > 0
  BY DEF Exact
<1>4. cap \in Nat /\ cap > 0
  BY CapType
<1>5. unit * b * b = unit * z
  BY <1>3
<1> HIDE DEF y, z, cap
<1> DEFINE w == q * z
<1>6. w \in Nat
  BY <1>1, TimesGrows
<1>7. unit * z = y * w
  BY <1>1, <1>2
<1>8. b > 0 => w > 0
  <2>1. q > 0
    <3>1. q = 0 => y * q = 0
      BY <1>1
    <3> QED BY <1>2, <1>3, <3>1
  <2>2. z > 0 => q * 1 <= q * z
    BY <1>1, TimesGrows
  <2> QED BY <1>1, <1>6, <2>1, <2>2
<1> HIDE DEF w
<1>9. (unit * z) \div y = w
  BY <1>1, <1>6, <1>7, QuotientExact
<1>10. LevelScore(unit, b, a, TRUE) = Min({(unit * b * b) \div (a * a), LevelScoreCap(unit)})
  BY DEF LevelScore
<1>11. LevelScore(unit, b, a, TRUE) = Min({w, cap})
  BY <1>5, <1>9, <1>10 DEF y, cap
<1>12. Min({w, cap}) = IF w <= cap THEN w ELSE cap
  BY <1>4, <1>6, LesserOf
<1>13. Min({w, cap}) * y = Min({y * w, cap * y})
  <2>1. y * w \in Nat /\ cap * y \in Nat /\ y * cap \in Nat
    BY <1>1, <1>4, <1>6, TimesGrows
  <2>2. Min({y * w, cap * y}) = IF y * w <= cap * y THEN y * w ELSE cap * y
    BY <2>1, LesserOf
  <2>3. cap * y = y * cap /\ w * y = y * w
    BY <1>1, <1>4, <1>6
  <2>4. w <= cap => y * w <= y * cap
    BY <1>1, <1>4, <1>6, TimesGrows
  <2>5. ~(w <= cap) => y * cap <= y * w
    BY <1>1, <1>4, <1>6, TimesGrows
  <2>6. CASE w <= cap
    BY <1>12, <2>2, <2>3, <2>4, <2>6
  <2>7. CASE ~(w <= cap)
    BY <1>12, <2>1, <2>2, <2>3, <2>5, <2>7
  <2> QED BY <2>6, <2>7
<1>14. LevelScore(unit, b, a, TRUE) * (a * a)
         = Min({unit * b * b, LevelScoreCap(unit) * (a * a)})
  BY <1>5, <1>7, <1>11, <1>13 DEF y, cap
<1>15. b > 0 => LevelScore(unit, b, a, TRUE) > 0
  BY <1>4, <1>6, <1>8, <1>11, <1>12
<1> QED BY <1>14, <1>15 DEF LevelIsExact

\* A level scores only when it is complete; with an action less, or completed, it
\* scores no less.
LEMMA LevelScoreFacts ==
    ASSUME NEW most \in Nat, NEW unit, Exact(unit, most),
           NEW b \in Nat, NEW a \in Nat, NEW c \in BOOLEAN
    PROVE  /\ LevelScore(unit, b, a, c) \in Nat
           /\ LevelScore(unit, b, a, c) > 0 => c /\ a > 0
           /\ a > 1 => LevelScore(unit, b, a, c) <= LevelScore(unit, b, a - 1, c)
           /\ LevelScore(unit, b, a, c) <= LevelScore(unit, b, a, TRUE)
<1> DEFINE x == unit * b * b
           cap == LevelScoreCap(unit)
           Capped(k) == Min({x \div (k * k), cap})
<1>0. cap \in Nat /\ cap > 0
  BY CapType
<1> HIDE DEF cap
<1>1. x \in Nat
  <2>1. b * b \in Nat /\ unit \in Nat
    BY TimesGrows DEF Exact
  <2> DEFINE z == b * b
  <2>2. x = unit * z
    BY <2>1
  <2> HIDE DEF z, x
  <2>3. unit * z \in Nat
    BY <2>1, TimesGrows DEF z
  <2> QED BY <2>2, <2>3
<1> DEFINE Done(k) == LevelScore(unit, b, k, TRUE)
           Open(k) == LevelScore(unit, b, k, FALSE)
<1>2. \A k \in Nat : Done(k) = (IF k = 0 THEN 0 ELSE Capped(k)) /\ Open(k) = 0
  BY DEF LevelScore, cap
<1> HIDE DEF Done, Open
<1> HIDE DEF x
<1>3. ASSUME NEW k \in Nat \ {0}
      PROVE  k * k \in Nat /\ 0 < k * k /\ x \div (k * k) \in Nat /\ Capped(k) \in Nat
  <2>1. k * 1 <= k * k /\ k * k \in Nat
    BY TimesGrows
  <2>2. 0 < k * k
    BY <2>1
  <2>3. x \div (k * k) \in Nat
    <3> DEFINE y == k * k
    <3>1. y \in Nat /\ 0 < y
      BY <2>1, <2>2
    <3> HIDE DEF y
    <3>2. x \div y \in Nat
      BY <1>1, <3>1, QuotientShrinks
    <3> QED BY <3>2 DEF y
  <2>4. Capped(k) \in Nat
    BY <2>3, <1>0, LesserOf
  <2> QED BY <2>1, <2>2, <2>3, <2>4
<1>4. ASSUME a > 1 PROVE Capped(a) <= Capped(a - 1)
  <2>1. a - 1 \in Nat \ {0} /\ a \in Nat \ {0}
    BY <1>4
  <2>2. (a - 1) * (a - 1) <= a * a
    <3>1. (a - 1) * (a - 1) <= (a - 1) * a
      BY <2>1, TimesGrows
    <3>2. a * (a - 1) <= a * a
      BY <2>1, TimesGrows
    <3>3. (a - 1) * a = a * (a - 1)
      OBVIOUS
    <3>4. (a - 1) * (a - 1) \in Int /\ a * (a - 1) \in Int /\ a * a \in Int
      OBVIOUS
    <3> QED BY <3>1, <3>2, <3>3, <3>4
  <2> DEFINE y == (a - 1) * (a - 1)
             z == a * a
  <2>3. y \in Nat /\ z \in Nat /\ 0 < y /\ y <= z
    BY <1>3, <2>1, <2>2
  <2> HIDE DEF y, z
  <2>4. x \div z <= x \div y /\ x \div z \in Nat
    BY <1>1, <2>3, QuotientShrinks
  <2>5. x \div y \in Nat
    BY <1>1, <2>3, QuotientShrinks
  <2>6. Min({x \div z, cap}) <= Min({x \div y, cap})
    <3> DEFINE u == x \div z
               v == x \div y
    <3>1. u \in Nat /\ v \in Nat /\ u <= v
      BY <2>4, <2>5
    <3> HIDE DEF u, v
    <3>2. Min({u, cap}) = (IF u <= cap THEN u ELSE cap)
          /\ Min({v, cap}) = (IF v <= cap THEN v ELSE cap)
      BY <3>1, <1>0, LesserOf
    <3>3. Min({u, cap}) <= Min({v, cap})
      BY <3>1, <3>2, <1>0
    <3> QED BY <3>3 DEF u, v
  <2> QED BY <2>6 DEF y, z
<1> HIDE DEF Capped
<1>5. \A k \in Nat : Done(k) \in Nat /\ Open(k) \in Nat
  BY <1>2, <1>3
<1>6. a > 1 => Done(a) <= Done(a - 1) /\ Open(a) <= Open(a - 1)
  BY <1>2, <1>4
<1>7. Open(a) <= Done(a) /\ Done(a) <= Done(a) /\ ~(Open(a) > 0) /\ (Done(a) > 0 => a > 0)
  BY <1>2, <1>5
<1>9. CASE c = TRUE
  BY <1>5, <1>6, <1>7, <1>9, Zenon DEF Done
<1>10. CASE c = FALSE
  BY <1>5, <1>6, <1>7, <1>10, Zenon DEF Done, Open
<1> QED BY <1>9, <1>10

\* A total of multiples is the multiple of the total.
LEMMA TotalScaled ==
    ASSUME NEW n \in Nat, NEW s \in [1..n -> Nat], NEW t \in [1..n -> Nat],
           NEW u \in Nat, \A i \in 1..n : t[i] = u * s[i]
    PROVE  Total(t) = u * Total(s)
<1>1. PICK g \in [0..n -> Nat] :
          g[0] = 0 /\ (\A k \in 1..n : g[k] = g[k - 1] + s[k]) /\ Total(s) = g[n]
  BY TotalRun
<1>2. PICK h \in [0..n -> Nat] :
          h[0] = 0 /\ (\A k \in 1..n : h[k] = h[k - 1] + t[k]) /\ Total(t) = h[n]
  BY TotalRun
<1> DEFINE T == {k \in 0..n : h[k] = u * g[k]}
<1>3. 0 \in T
  BY <1>1, <1>2
<1>4. ASSUME NEW k \in 1..n, k - 1 \in T PROVE k \in T
  <2>1. g[k - 1] \in Nat /\ s[k] \in Nat /\ k \in 0..n
    OBVIOUS
  <2>2. h[k] = u * g[k - 1] + u * s[k] /\ g[k] = g[k - 1] + s[k]
    BY <1>1, <1>2, <1>4
  <2>3. u * g[k - 1] + u * s[k] = u * (g[k - 1] + s[k])
    BY <2>1
  <2> QED BY <2>1, <2>2, <2>3
<1>5. n \in T
  <2> HIDE DEF T
  <2>1. 0..n \subseteq T
    BY <1>3, <1>4, Induction
  <2> QED BY <2>1
<1> QED BY <1>1, <1>2, <1>5

\* The two sums that GameScore takes the lesser of.
Weighted(n, s) == [i \in 1..n |-> i * s[i]]
Scored(unit, n, s) == [i \in 1..n |-> IF s[i] > 0 THEN unit * i ELSE 0]

\* The weight of a level, in units.
LEMMA UnitsOf ==
    ASSUME NEW unit \in Nat, unit > 0, NEW n \in Nat
    PROVE  \A i \in 1..n : unit * i \in Nat /\ unit * i > 0
<1>1. ASSUME NEW i \in 1..n PROVE unit * i \in Nat /\ unit * 1 <= unit * i
  BY TimesGrows
<1> QED BY <1>1

\* GameScore is the lesser of the two sums.
LEMMA GameScoreFact ==
    ASSUME NEW unit \in Nat, unit > 0, NEW n \in Nat, NEW s \in [1..n -> Nat]
    PROVE  /\ GameScore(unit, s) = Min({Total(Weighted(n, s)), Total(Scored(unit, n, s))})
           /\ Weighted(n, s) \in [1..n -> Nat] /\ Scored(unit, n, s) \in [1..n -> Nat]
           /\ Total(Weighted(n, s)) \in Nat /\ Total(Scored(unit, n, s)) \in Nat
<1>1. DOMAIN s = 1..n /\ s \in Seq(Nat) /\ Len(s) = n
  OBVIOUS
<1> DEFINE f == [i \in DOMAIN s |-> s[i] > 0]
<1>2. DOMAIN f = 1..n /\ f \in Seq(BOOLEAN) /\ Len(f) = n
  BY <1>1
<1>3. \A i \in 1..n : Weights(n)[i] = i
  BY DEF Weights
<1>4. [i \in DOMAIN s |-> Weights(Len(s))[i] * s[i]] = Weighted(n, s)
  BY <1>1, <1>3 DEF Weighted
<1>5. [i \in DOMAIN f |-> IF f[i] THEN unit * Weights(Len(f))[i] ELSE 0] = Scored(unit, n, s)
  BY <1>1, <1>2, <1>3 DEF Scored
<1>6. CompletionCap(unit, f) = Total(Scored(unit, n, s))
  BY <1>5 DEF CompletionCap
<1>7. GameScore(unit, s) = Min({Total(Weighted(n, s)), Total(Scored(unit, n, s))})
  BY <1>4, <1>6 DEF GameScore
<1>8. Weighted(n, s) \in [1..n -> Nat]
  <2>1. ASSUME NEW i \in 1..n PROVE i * s[i] \in Nat
    <3>1. i \in Nat /\ s[i] \in Nat
      OBVIOUS
    <3> QED BY <3>1, TimesGrows
  <2> QED BY <2>1 DEF Weighted
<1>9. Scored(unit, n, s) \in [1..n -> Nat]
  BY UnitsOf DEF Scored
<1> QED BY <1>7, <1>8, <1>9, TotalType

\* A level that scores more never costs the game.
LEMMA GameScoreGrows ==
    ASSUME NEW unit \in Nat, unit > 0, NEW n \in Nat,
           NEW s \in [1..n -> Nat], NEW t \in [1..n -> Nat],
           \A i \in 1..n : s[i] <= t[i]
    PROVE  GameScore(unit, s) <= GameScore(unit, t)
<1>1. \A i \in 1..n : Weighted(n, s)[i] <= Weighted(n, t)[i]
  <2>1. ASSUME NEW i \in 1..n PROVE i * s[i] <= i * t[i]
    <3>1. i \in Nat /\ s[i] \in Nat /\ t[i] \in Nat /\ s[i] <= t[i]
      OBVIOUS
    <3> QED BY <3>1, TimesGrows
  <2> QED BY <2>1 DEF Weighted
<1>2. \A i \in 1..n : Scored(unit, n, s)[i] <= Scored(unit, n, t)[i]
  <2>1. ASSUME NEW i \in 1..n PROVE Scored(unit, n, s)[i] <= Scored(unit, n, t)[i]
    <3>1. s[i] \in Nat /\ t[i] \in Nat /\ s[i] <= t[i] /\ unit * i \in Nat
      BY UnitsOf
    <3> QED BY <3>1 DEF Scored
  <2> QED BY <2>1
<1> DEFINE a == Total(Weighted(n, s))
           b == Total(Scored(unit, n, s))
           c == Total(Weighted(n, t))
           d == Total(Scored(unit, n, t))
<1>3. a \in Nat /\ b \in Nat /\ c \in Nat /\ d \in Nat
  BY GameScoreFact
<1>4. a <= c /\ b <= d
  BY <1>1, <1>2, GameScoreFact, TotalGrows
<1>5. GameScore(unit, s) = Min({a, b}) /\ GameScore(unit, t) = Min({c, d})
  BY GameScoreFact
<1> HIDE DEF a, b, c, d
<1>6. Min({a, b}) = (IF a <= b THEN a ELSE b) /\ Min({c, d}) = (IF c <= d THEN c ELSE d)
  BY <1>3, LesserOf
<1> QED BY <1>3, <1>4, <1>5, <1>6

\* The game never scores more than the weight of the levels that are complete.
LEMMA GameScoreCapped ==
    ASSUME NEW unit \in Nat, unit > 0, NEW n \in Nat,
           NEW s \in [1..n -> Nat], NEW f \in [1..n -> BOOLEAN],
           \A i \in 1..n : s[i] > 0 => f[i]
    PROVE  /\ GameScore(unit, s) \in Nat
           /\ GameScore(unit, s) <= CompletionCap(unit, f)
           /\ CompletionCap(unit, f) <= Perfect(unit, n)
           /\ CompletionCap(unit, f) \in Nat /\ Perfect(unit, n) \in Nat
           /\ CompletionCap(unit, f) = Perfect(unit, n) => \A i \in 1..n : f[i]
<1> DEFINE done == [i \in 1..n |-> IF f[i] THEN unit * i ELSE 0]
           full == [i \in 1..n |-> unit * i]
<1>1. done \in [1..n -> Nat] /\ full \in [1..n -> Nat] /\ Weights(n) \in [1..n -> Nat]
  BY UnitsOf DEF Weights
<1>2. CompletionCap(unit, f) = Total(done)
  <2>1. DOMAIN f = 1..n /\ f \in Seq(BOOLEAN) /\ Len(f) = n
    OBVIOUS
  <2>2. [i \in DOMAIN f |-> IF f[i] THEN unit * Weights(Len(f))[i] ELSE 0] = done
    BY <2>1 DEF Weights
  <2> QED BY <2>2 DEF CompletionCap
<1>3. Perfect(unit, n) = Total(full)
  <2>1. \A i \in 1..n : full[i] = unit * Weights(n)[i]
    BY DEF Weights
  <2> HIDE DEF full
  <2> QED BY <1>1, <2>1, TotalScaled DEF Perfect
<1>4. Total(done) \in Nat /\ Total(full) \in Nat /\ Total(Scored(unit, n, s)) \in Nat
  BY <1>1, TotalType, GameScoreFact
<1>5. \A i \in 1..n : Scored(unit, n, s)[i] <= done[i]
  BY UnitsOf DEF Scored
<1>6. \A i \in 1..n : done[i] <= full[i] /\ (~f[i] => done[i] < full[i])
  BY UnitsOf
<1> HIDE DEF done, full
<1>7. Total(Scored(unit, n, s)) <= Total(done)
  BY <1>1, <1>5, GameScoreFact, TotalGrows
<1>8. Total(done) <= Total(full)
      /\ ((\E i \in 1..n : done[i] < full[i]) => Total(done) < Total(full))
  BY <1>1, <1>6, TotalGrows
<1>9. GameScore(unit, s) \in Nat /\ GameScore(unit, s) <= Total(Scored(unit, n, s))
  <2> DEFINE a == Total(Weighted(n, s))
             b == Total(Scored(unit, n, s))
  <2>1. a \in Nat /\ b \in Nat /\ GameScore(unit, s) = Min({a, b})
    BY GameScoreFact
  <2> HIDE DEF a, b
  <2>2. Min({a, b}) = IF a <= b THEN a ELSE b
    BY <2>1, LesserOf
  <2>3. GameScore(unit, s) \in Nat /\ GameScore(unit, s) <= b
    BY <2>1, <2>2
  <2> QED BY <2>3 DEF b
<1>10. CompletionCap(unit, f) = Perfect(unit, n) => \A i \in 1..n : f[i]
  BY <1>2, <1>3, <1>4, <1>6, <1>8
<1> QED BY <1>2, <1>3, <1>4, <1>7, <1>8, <1>9, <1>10

\* What a score is to be: the cap is 1.15; the score of a level is the square of its baseline
\* over its actions, or the cap, as exact fractions, and positive just when the level is
\* complete; the game's score lies between nothing and everything, at most the weight of the
\* complete levels; and neither an action less nor a level more lowers it.
Rewards(unit, n, baselines, actions, completed) ==
    LET levels == LevelScores(unit, baselines, actions, completed)
        Score(a, c) == ScoreGame(unit, baselines, a, c)
        now == Score(actions, completed)
    IN  /\ 100 * LevelScoreCap(unit) = 115 * unit
        /\ \A i \in 1..n : completed[i] /\ actions[i] > 0 =>
                             LevelIsExact(unit, baselines[i], actions[i], levels[i])
        /\ \A i \in 1..n : baselines[i] > 0 =>
                             (levels[i] > 0 <=> completed[i] /\ actions[i] > 0)
        /\ now \in 0..Perfect(unit, n)
        /\ now = Perfect(unit, n) => \A i \in 1..n : completed[i]
        /\ now <= CompletionCap(unit, completed)
        /\ \A i \in 1..n :
             /\ actions[i] > 1 => now <= Score([actions EXCEPT ![i] = @ - 1], completed)
             /\ now <= Score(actions, [completed EXCEPT ![i] = TRUE])

\* That is the score of every game of however many levels, actions and baselines: the unit is
\* one that every quotient divides, so no level's score is rounded (scoring.py:18 to 31).
THEOREM ScoresReward ==
    ASSUME NEW n \in Nat, NEW most \in Nat,
           NEW baselines \in [1..n -> Nat], NEW actions \in [1..n -> 0..most],
           NEW completed \in [1..n -> BOOLEAN], NEW unit, unit = Unit(most)
    PROVE  Rewards(unit, n, baselines, actions, completed)
<1> DEFINE Levels(a, c) == [i \in 1..n |-> LevelScore(unit, baselines[i], a[i], c[i])]
           s == Levels(actions, completed)
<1>0. Exact(unit, most) /\ unit \in Nat /\ unit > 0
  <2>1. Exact(unit, most)
    BY UnitExact
  <2> QED BY <2>1 DEF Exact
<1>1. /\ \A a, c : ScoreGame(unit, baselines, a, c) = GameScore(unit, Levels(a, c))
      /\ LevelScores(unit, baselines, actions, completed) = s
  BY DEF ScoreGame, LevelScores
<1>2. ASSUME NEW i \in 1..n
      PROVE  /\ LevelScore(unit, baselines[i], actions[i], completed[i]) \in Nat
             /\ LevelScore(unit, baselines[i], actions[i], completed[i]) > 0
                  => completed[i] /\ actions[i] > 0
             /\ actions[i] > 1 =>
                  LevelScore(unit, baselines[i], actions[i], completed[i])
                    <= LevelScore(unit, baselines[i], actions[i] - 1, completed[i])
             /\ LevelScore(unit, baselines[i], actions[i], completed[i])
                  <= LevelScore(unit, baselines[i], actions[i], TRUE)
             /\ LevelScore(unit, baselines[i], actions[i], TRUE) \in Nat
             /\ actions[i] > 1 =>
                  LevelScore(unit, baselines[i], actions[i] - 1, completed[i]) \in Nat
  <2>1. baselines[i] \in Nat /\ actions[i] \in Nat /\ completed[i] \in BOOLEAN
        /\ TRUE \in BOOLEAN /\ (actions[i] > 1 => actions[i] - 1 \in Nat)
    OBVIOUS
  <2> QED BY <1>0, <2>1, LevelScoreFacts
<1>3. s \in [1..n -> Nat] /\ \A i \in 1..n : s[i] > 0 => completed[i]
  BY <1>2
<1>4. /\ GameScore(unit, s) \in Nat /\ GameScore(unit, s) <= CompletionCap(unit, completed)
      /\ CompletionCap(unit, completed) <= Perfect(unit, n)
      /\ CompletionCap(unit, completed) \in Nat /\ Perfect(unit, n) \in Nat
      /\ CompletionCap(unit, completed) = Perfect(unit, n) => \A i \in 1..n : completed[i]
  <2> HIDE DEF s
  <2> QED BY <1>0, <1>3, GameScoreCapped
<1>5. ASSUME NEW i \in 1..n, actions[i] > 1
      PROVE  GameScore(unit, s)
               <= GameScore(unit, Levels([actions EXCEPT ![i] = @ - 1], completed))
  <2> DEFINE t == Levels([actions EXCEPT ![i] = @ - 1], completed)
  <2>1. ASSUME NEW j \in 1..n PROVE t[j] \in Nat /\ s[j] <= t[j]
    <3>1. CASE j = i
      <4>1. [actions EXCEPT ![i] = @ - 1][j] = actions[j] - 1
        BY <3>1
      <4>2. t[j] = LevelScore(unit, baselines[j], actions[j] - 1, completed[j])
        BY <4>1
      <4>3. s[j] = LevelScore(unit, baselines[j], actions[j], completed[j])
        OBVIOUS
      <4> HIDE DEF s, t
      <4> QED BY <1>2, <1>5, <3>1, <4>2, <4>3
    <3>2. CASE j # i
      <4>1. [actions EXCEPT ![i] = @ - 1][j] = actions[j]
        BY <3>2
      <4>2. t[j] = s[j]
        BY <4>1
      <4>3. s[j] \in Nat
        BY <1>3
      <4> HIDE DEF s, t
      <4> QED BY <4>2, <4>3
    <3> QED BY <3>1, <3>2
  <2>2. t \in [1..n -> Nat]
    BY <2>1
  <2> HIDE DEF s, t
  <2>3. GameScore(unit, s) <= GameScore(unit, t)
    BY <1>0, <1>3, <2>1, <2>2, GameScoreGrows
  <2> QED BY <2>3 DEF t
<1>6. ASSUME NEW i \in 1..n
      PROVE  GameScore(unit, s)
               <= GameScore(unit, Levels(actions, [completed EXCEPT ![i] = TRUE]))
  <2> DEFINE t == Levels(actions, [completed EXCEPT ![i] = TRUE])
  <2>1. ASSUME NEW j \in 1..n PROVE t[j] \in Nat /\ s[j] <= t[j]
    <3>1. CASE j = i
      <4>1. [completed EXCEPT ![i] = TRUE][j] = TRUE
        BY <3>1
      <4>2. t[j] = LevelScore(unit, baselines[j], actions[j], TRUE)
        BY <4>1
      <4>3. s[j] = LevelScore(unit, baselines[j], actions[j], completed[j])
        OBVIOUS
      <4> HIDE DEF s, t
      <4> QED BY <1>2, <3>1, <4>2, <4>3
    <3>2. CASE j # i
      <4>1. [completed EXCEPT ![i] = TRUE][j] = completed[j]
        BY <3>2
      <4>2. t[j] = s[j]
        BY <4>1
      <4>3. s[j] \in Nat
        BY <1>3
      <4> HIDE DEF s, t
      <4> QED BY <4>2, <4>3
    <3> QED BY <3>1, <3>2
  <2>2. t \in [1..n -> Nat]
    BY <2>1
  <2> HIDE DEF s, t
  <2>3. GameScore(unit, s) <= GameScore(unit, t)
    BY <1>0, <1>3, <2>1, <2>2, GameScoreGrows
  <2> QED BY <2>3 DEF t
<1>7. ASSUME NEW i \in 1..n, completed[i], actions[i] > 0
      PROVE  /\ LevelIsExact(unit, baselines[i], actions[i], s[i])
             /\ baselines[i] > 0 => s[i] > 0
  <2> DEFINE b == baselines[i]
             a == actions[i]
  <2>1. b \in Nat /\ a \in 1..most /\ s[i] = LevelScore(unit, b, a, TRUE)
    BY <1>7
  <2> HIDE DEF a, b, s
  <2>2. /\ LevelIsExact(unit, b, a, s[i])
        /\ b > 0 => s[i] > 0
    BY <1>0, <2>1, LevelScoreExact
  <2> QED BY <2>2 DEF a, b
<1>8. ASSUME NEW i \in 1..n PROVE s[i] > 0 => completed[i] /\ actions[i] > 0
  BY <1>2
<1>9. 100 * LevelScoreCap(unit) = 115 * unit
  BY <1>0, CapType
<1>10. ScoreGame(unit, baselines, actions, completed) = GameScore(unit, s)
  BY <1>1
<1>11. ASSUME NEW i \in 1..n
       PROVE  /\ completed[i] /\ actions[i] > 0 =>
                   LevelIsExact(unit, baselines[i], actions[i],
                                LevelScores(unit, baselines, actions, completed)[i])
              /\ baselines[i] > 0 =>
                   (LevelScores(unit, baselines, actions, completed)[i] > 0
                      <=> completed[i] /\ actions[i] > 0)
  <2> HIDE DEF s
  <2> QED BY <1>1, <1>7, <1>8
<1> HIDE DEF Levels
<1> QED BY <1>1, <1>4, <1>5, <1>6, <1>9, <1>10, <1>11 DEF Rewards

\* The input of the score: as many levels in each list, with a baseline each.
ScoreInv ==
    case.kind = "score" =>
        \E n \in Nat :
            \E b \in [1..n -> Nat \ {0}], a \in [1..n -> 0..MaxActions],
               d \in [1..n -> BOOLEAN] :
                case = [kind |-> "score", baselines |-> b, actions |-> a, completed |-> d]

\* One more level keeps the lists equally long.
LEMMA ScoreInvInductive ==
    /\ Init => ScoreInv
    /\ Shaped /\ ScoreInv /\ [Next]_case => ScoreInv'
<1>1. ASSUME Init PROVE ScoreInv
  <2>1. SUFFICES ASSUME case.kind = "score" PROVE ScoreInv
    BY DEF ScoreInv
  <2>2. case = [kind |-> "score", baselines |-> <<>>, actions |-> <<>>, completed |-> <<>>]
    BY <1>1, <2>1, InitShaped DEF ScoreCase
  <2>3. /\ <<>> \in [1..0 -> Nat \ {0}] /\ <<>> \in [1..0 -> 0..MaxActions]
        /\ <<>> \in [1..0 -> BOOLEAN] /\ 0 \in Nat
    OBVIOUS
  <2> QED BY <2>2, <2>3 DEF ScoreInv
<1>2. ASSUME Shaped, ScoreInv, [Next]_case PROVE ScoreInv'
  <2>1. CASE case' = case
    BY <1>2, <2>1 DEF ScoreInv
  <2>2. CASE Next
    <3>1. SUFFICES ASSUME case'.kind = "score" PROVE ScoreInv'
      BY DEF ScoreInv
    <3>2. case.kind = "score" /\ Finish
      BY <1>2, <2>2, <3>1, NextShaped DEF OfKind
    <3>9. PICK n \in Nat :
             \E b \in [1..n -> Nat \ {0}], a \in [1..n -> 0..MaxActions],
               d \in [1..n -> BOOLEAN] :
                case = [kind |-> "score", baselines |-> b, actions |-> a, completed |-> d]
      BY <1>2, <3>2 DEF ScoreInv
    <3>3. PICK bs \in [1..n -> Nat \ {0}], as \in [1..n -> 0..MaxActions],
              ds \in [1..n -> BOOLEAN] :
              case = [kind |-> "score", baselines |-> bs, actions |-> as, completed |-> ds]
      BY <3>9
    <3>4. PICK b \in 1..MaxActions, a \in 0..MaxActions, d \in BOOLEAN :
              case' = [case EXCEPT !.baselines = Append(@, b), !.actions = Append(@, a),
                                   !.completed = Append(@, d)]
      BY <3>2 DEF Finish
    <3>5. b \in Nat \ {0} /\ a \in 0..MaxActions
      BY BoundsAssumption
    <3>6. /\ Append(bs, b) \in [1..(n + 1) -> Nat \ {0}]
          /\ Append(as, a) \in [1..(n + 1) -> 0..MaxActions]
          /\ Append(ds, d) \in [1..(n + 1) -> BOOLEAN]
      BY <3>5, Appended
    <3>7. case' = [kind |-> "score", baselines |-> Append(bs, b), actions |-> Append(as, a),
                   completed |-> Append(ds, d)]
      BY <3>3, <3>4
    <3>8. n + 1 \in Nat
      OBVIOUS
    <3> QED BY <3>6, <3>7, <3>8 DEF ScoreInv
  <2> QED BY <1>2, <2>1, <2>2
<1> QED BY <1>1, <1>2

\* The inputs of the score are such games: no action saved and no level completed lowers a
\* score, only a complete game has all of it, and the levels with a score are the complete
\* ones with an action (scoring.py:47 and 53).
THEOREM ScoreIsFair == Spec => []ScoreRewards
<1>1. ScoreInv => ScoreRewards
  <2>1. SUFFICES ASSUME ScoreInv, case.kind = "score" PROVE ScoreRewards
    BY DEF ScoreRewards
  <2>2. PICK n \in Nat :
            \E b \in [1..n -> Nat \ {0}], a \in [1..n -> 0..MaxActions],
               d \in [1..n -> BOOLEAN] :
              case = [kind |-> "score", baselines |-> b, actions |-> a, completed |-> d]
    BY <2>1 DEF ScoreInv
  <2>3. PICK b \in [1..n -> Nat \ {0}], a \in [1..n -> 0..MaxActions],
             d \in [1..n -> BOOLEAN] :
              case = [kind |-> "score", baselines |-> b, actions |-> a, completed |-> d]
    BY <2>2
  <2>4. /\ Len(b) = n /\ b \in [1..n -> Nat] /\ MaxActions \in Nat
        /\ \A i \in 1..n : b[i] > 0
    BY SequenceOf, BoundsAssumption
  <2>5. /\ case.baselines = b /\ case.actions = a /\ case.completed = d
        /\ DOMAIN a = 1..n /\ DOMAIN d = 1..n /\ DOMAIN b = 1..n
    BY <2>3
  <2> DEFINE unit == Unit(MaxActions)
             levels == LevelScores(unit, b, a, d)
  <2>6. DOMAIN levels = 1..n
    BY <2>5 DEF LevelScores
  <2>7. unit = Unit(MaxActions)
    OBVIOUS
  <2> HIDE DEF unit, levels
  <2>8. Rewards(unit, n, b, a, d)
    BY <2>4, <2>7, ScoresReward
  <2> QED BY <2>4, <2>5, <2>6, <2>7, <2>8 DEF Rewards, ScoreRewards, levels
<1> QED BY <1>1, ScoreInvInductive, AlwaysShaped, PTL DEF Spec

-----------------------------------------------------------------------------
(* What a program predicts                                                 *)

\* A call of the program returns at most one state.
Single(program, S, A) ==
    \A s \in S, a \in A :
        program.step[<<s, a>>] = {} \/ \E t \in S : program.step[<<s, a>>] = {t}

Foreseen(program, next, previous) ==
    [state |-> next,
     observation |-> [frame     |-> program.render[next],
                      status    |-> Optional(program.status, next, previous.status),
                      level     |-> Optional(program.metrics, next, previous.level),
                      available |-> Optional(program.available, next, previous.available),
                      reset     |-> Optional(program.reset, next, FALSE)]]

OneOrNone(program, S, s, a, previous) ==
    \/ Predict(program, s, a, previous) = {}
    \/ \E t \in S : /\ program.step[<<s, a>>] = {t}
                    /\ Predict(program, s, a, previous) = {Foreseen(program, t, previous)}
                    /\ One(Predict(program, s, a, previous)) = Foreseen(program, t, previous)

\* A prediction is nothing, or one state with what is seen of it.
LEMMA PredictFact ==
    ASSUME NEW program, NEW S, NEW A, Single(program, S, A), NEW s \in S, NEW a \in A,
           NEW previous
    PROVE  OneOrNone(program, S, s, a, previous)
<1>1. CASE program.step[<<s, a>>] = {}
  BY <1>1 DEF Predict, OneOrNone
<1>2. CASE \E t \in S : program.step[<<s, a>>] = {t}
  <2>1. PICK t \in S : program.step[<<s, a>>] = {t}
    BY <1>2
  <2>2. Predict(program, s, a, previous) = {Foreseen(program, t, previous)}
    BY <2>1 DEF Predict, Foreseen
  <2>3. One({Foreseen(program, t, previous)}) = Foreseen(program, t, previous)
    BY DEF One
  <2> QED BY <2>1, <2>2, <2>3 DEF OneOrNone
<1> QED BY <1>1, <1>2 DEF Single, OneOrNone

-----------------------------------------------------------------------------
(* The verdict of a replay                                                 *)

ReplayStep(program, stop, replay, t) ==
    IF stop /\ \E i \in DOMAIN replay.steps : ~replay.steps[i] THEN replay
    ELSE VerifyStep(program, replay, t)

\* The function behind a replay.
Replaying(program, first, history, stop, s) ==
    CHOOSE it : it = [T \in SUBSET DOMAIN history |->
        IF T = {} THEN [state |-> s, previous |-> first, steps |-> <<>>]
        ELSE ReplayStep(program, stop, it[T \ {Max(T)}], history[Max(T)])]

Replays(program, first, history, stop, s) ==
    Replaying(program, first, history, stop, s)[DOMAIN history]

\* Verify in the words of these definitions.
LEMMA VerifyFact ==
    ASSUME NEW program, NEW first, NEW history, NEW stop
    PROVE  Verify(program, first, history, stop) <=>
             \E s \in InitialState(program, first) :
                /\ Len(Replays(program, first, history, stop, s).steps) = Len(history)
                /\ \A i \in DOMAIN Replays(program, first, history, stop, s).steps :
                      Replays(program, first, history, stop, s).steps[i]
BY DEF Verify, Replays, Replaying, ReplayStep, FoldLeft, MapThenFoldSet

Past(A, P, n) == [1..n -> [action : A, after : P]]
Replayed(S, P) == [state : S, previous : P, steps : Seq(BOOLEAN)]

\* A step of the replay leaves a state, an observation and a verdict.
LEMMA ReplayStepType ==
    ASSUME NEW program, NEW S, NEW A, NEW P, Single(program, S, A), NEW stop,
           NEW b \in Replayed(S, P), NEW t \in [action : A, after : P]
    PROVE  ReplayStep(program, stop, b, t) \in Replayed(S, P)
<1>1. b.state \in S /\ b.previous \in P /\ b.steps \in Seq(BOOLEAN) /\ t.action \in A /\ t.after \in P
  BY DEF Replayed
<1> DEFINE predicted == Predict(program, b.state, t.action, b.previous)
<1>2. VerifyStep(program, b, t) \in Replayed(S, P)
  <2>1. CASE predicted = {}
    <3>1. VerifyStep(program, b, t) = [b EXCEPT !.steps = Append(b.steps, FALSE)]
      BY <2>1 DEF VerifyStep
    <3>2. Append(b.steps, FALSE) \in Seq(BOOLEAN)
      BY <1>1, AppendProperties
    <3> QED BY <3>1, <3>2 DEF Replayed
  <2>2. CASE predicted # {}
    <3>1. PICK u \in S : One(predicted) = Foreseen(program, u, b.previous)
      <4>1. OneOrNone(program, S, b.state, t.action, b.previous)
        BY <1>1, PredictFact
      <4> QED BY <2>2, <4>1 DEF OneOrNone
    <3> DEFINE seen == One(predicted).observation = t.after
    <3>2. One(predicted).state = u
      BY <3>1 DEF Foreseen
    <3>3. VerifyStep(program, b, t) =
            [state |-> u, previous |-> t.after, steps |-> Append(b.steps, seen)]
      BY <2>2, <3>2 DEF VerifyStep
    <3>4. seen \in BOOLEAN
      OBVIOUS
    <3> HIDE DEF seen
    <3>5. Append(b.steps, seen) \in Seq(BOOLEAN)
      BY <1>1, <3>4, AppendProperties
    <3> QED BY <1>1, <3>3, <3>5 DEF Replayed
  <2> QED BY <2>1, <2>2
<1> QED BY <1>2 DEF ReplayStep

\* A replay takes one transition after the other.
IsReplay(g, program, first, history, stop, s, n) ==
    /\ g[0] = [state |-> s, previous |-> first, steps |-> <<>>]
    /\ \A k \in 1..n : g[k] = ReplayStep(program, stop, g[k - 1], history[k])
    /\ Replays(program, first, history, stop, s) = g[n]

\* The replay takes one transition after the other.
LEMMA ReplayRun ==
    ASSUME NEW program, NEW S, NEW A, NEW P, Single(program, S, A), NEW stop, NEW n \in Nat,
           NEW history \in Past(A, P, n), NEW first \in P, NEW s \in S
    PROVE  \E g \in [0..n -> Replayed(S, P)] : IsReplay(g, program, first, history, stop, s, n)
<1> DEFINE base == [state |-> s, previous |-> first, steps |-> <<>>]
           Step(b, t) == ReplayStep(program, stop, b, t)
           B == Replayed(S, P)
           F == [k \in 1..n |-> [b \in B |-> Step(b, history[k])]]
<1>1. base \in B /\ \A k \in 1..n, b \in B : Step(b, history[k]) \in B
  <2>1. \A k \in 1..n : history[k] \in [action : A, after : P]
    BY DEF Past
  <2>2. base \in B
    BY EmptySeq DEF Replayed
  <2> QED BY <2>1, <2>2, ReplayStepType
<1> HIDE DEF base, Step, B
<1>2. F \in [1..n -> [B -> B]]
  BY <1>1
<1>3. PICK it \in [SUBSET (1..n) -> B] : Folds(it, n, base, F)
  <2> HIDE DEF F
  <2> QED BY <1>1, <1>2, FoldExists
<1>4. DOMAIN history = 1..n
  BY DEF Past
<1>5. it = [T \in SUBSET DOMAIN history |->
              IF T = {} THEN base ELSE Step(it[T \ {Max(T)}], history[Max(T)])]
  <2>1. ASSUME NEW T \in SUBSET (1..n)
        PROVE  it[T] = IF T = {} THEN base ELSE Step(it[T \ {Max(T)}], history[Max(T)])
    <3>1. CASE T = {}
      BY <1>3, <3>1 DEF Folds
    <3>2. CASE T # {}
      <4>1. Max(T) \in 1..n /\ T \ {Max(T)} \in SUBSET (1..n)
        BY <3>2, MaxOfNumbers
      <4>2. it[T \ {Max(T)}] \in B
        BY <4>1
      <4>3. F[Max(T)][it[T \ {Max(T)}]] = Step(it[T \ {Max(T)}], history[Max(T)])
        BY <4>1, <4>2
      <4>4. it[T] = F[Max(T)][it[T \ {Max(T)}]]
        BY <1>3, <3>2 DEF Folds
      <4> QED BY <3>2, <4>3, <4>4
    <3> QED BY <3>1, <3>2
  <2> QED BY <1>4, <2>1
<1> DEFINE c == Replaying(program, first, history, stop, s)
           g == [k \in 0..n |-> c[1..k]]
<1>6. c = [T \in SUBSET DOMAIN history |->
              IF T = {} THEN base ELSE Step(c[T \ {Max(T)}], history[Max(T)])]
  BY <1>5 DEF Replaying, base, Step
<1> HIDE DEF c
<1>7. \A T \in SUBSET (1..n) :
          c[T] = IF T = {} THEN base ELSE Step(c[T \ {Max(T)}], history[Max(T)])
  BY <1>4, <1>6
<1>8. g[0] = base
  <2>1. 1..0 = {} /\ {} \in SUBSET (1..n) /\ 0 \in 0..n
    OBVIOUS
  <2>2. c[{}] = base
    BY <1>7, <2>1
  <2> QED BY <2>1, <2>2
<1>9. ASSUME NEW k \in 1..n PROVE g[k] = Step(g[k - 1], history[k])
  <2>1. Max(1..k) = k /\ (1..k) \ {k} = 1..(k - 1) /\ 1..k # {} /\ 1..k \in SUBSET (1..n)
    BY MaxOfPrefix
  <2>2. c[1..k] = Step(c[1..(k - 1)], history[k])
    BY <1>7, <2>1
  <2>3. k \in 0..n /\ k - 1 \in 0..n
    OBVIOUS
  <2> QED BY <2>2, <2>3
<1>10. c[DOMAIN history] = g[n]
  BY <1>4
<1> DEFINE T == {k \in 0..n : g[k] \in B}
<1>11. 0..n \subseteq T
  <2> HIDE DEF g
  <2>1. 0 \in T
    BY <1>1, <1>8
  <2>2. ASSUME NEW k \in 1..n, k - 1 \in T PROVE k \in T
    <3>1. g[k - 1] \in B /\ k \in 0..n
      BY <2>2
    <3> QED BY <1>1, <1>9, <3>1
  <2> HIDE DEF T
  <2> QED BY <2>1, <2>2, Induction
<1>12. g \in [0..n -> B]
  <2>1. \A k \in 0..n : g[k] \in B
    BY <1>11
  <2> QED BY <2>1
<1>13. Replays(program, first, history, stop, s) = g[n]
  BY <1>10 DEF c, Replays
<1> HIDE DEF g
<1> USE DEF base, Step, B
<1> QED BY <1>8, <1>9, <1>12, <1>13 DEF IsReplay

-----------------------------------------------------------------------------
(* The state after a replay                                                *)

ReachStep(program, reached, t) ==
    UNION {{[state |-> p.state, previous |-> t.after] :
               p \in Predict(program, r.state, t.action, r.previous)} : r \in reached}

Starts(program, first) ==
    {[state |-> s, previous |-> first] : s \in InitialState(program, first)}

\* The function behind the replayed state.
Reaching(program, first, history) ==
    CHOOSE it : it = [T \in SUBSET DOMAIN history |->
        IF T = {} THEN Starts(program, first)
        ELSE ReachStep(program, it[T \ {Max(T)}], history[Max(T)])]

Reached(program, first, history) == Reaching(program, first, history)[DOMAIN history]

\* ReplayState in the words of these definitions.
LEMMA ReplayStateFact ==
    ASSUME NEW program, NEW first, NEW history
    PROVE  ReplayState(program, first, history) =
             {r.state : r \in Reached(program, first, history)}
BY DEF ReplayState, Reached, Reaching, ReachStep, Starts, FoldLeft, MapThenFoldSet

\* A transition leads from states to states.
LEMMA ReachStepType ==
    ASSUME NEW program, NEW S, NEW A, NEW P, Single(program, S, A),
           NEW b \in SUBSET [state : S, previous : P], NEW t \in [action : A, after : P]
    PROVE  ReachStep(program, b, t) \in SUBSET [state : S, previous : P]
<1>1. ASSUME NEW r \in b, NEW p \in Predict(program, r.state, t.action, r.previous)
      PROVE  [state |-> p.state, previous |-> t.after] \in [state : S, previous : P]
  <2>1. r.state \in S /\ t.action \in A /\ t.after \in P
    OBVIOUS
  <2>2. OneOrNone(program, S, r.state, t.action, r.previous)
    BY <2>1, PredictFact
  <2>3. PICK u \in S : p = Foreseen(program, u, r.previous)
    BY <1>1, <2>2 DEF OneOrNone
  <2>4. p.state \in S
    BY <2>3 DEF Foreseen
  <2> QED BY <2>1, <2>4
<1> QED BY <1>1 DEF ReachStep

IsReach(g, program, first, history, n) ==
    /\ g[0] = Starts(program, first)
    /\ \A k \in 1..n : g[k] = ReachStep(program, g[k - 1], history[k])
    /\ Reached(program, first, history) = g[n]

\* The states follow one transition after the other.
LEMMA ReachRun ==
    ASSUME NEW program, NEW S, NEW A, NEW P, Single(program, S, A), NEW n \in Nat,
           NEW history \in Past(A, P, n), NEW first \in P,
           InitialState(program, first) \subseteq S
    PROVE  \E g \in [0..n -> SUBSET [state : S, previous : P]] :
               IsReach(g, program, first, history, n)
<1> DEFINE base == Starts(program, first)
           Step(b, t) == ReachStep(program, b, t)
           B == SUBSET [state : S, previous : P]
           F == [k \in 1..n |-> [b \in B |-> Step(b, history[k])]]
<1>1. base \in B /\ \A k \in 1..n, b \in B : Step(b, history[k]) \in B
  <2>1. \A k \in 1..n : history[k] \in [action : A, after : P]
    BY DEF Past
  <2>2. base \in B
    BY DEF Starts
  <2> QED BY <2>1, <2>2, ReachStepType
<1> HIDE DEF base, Step, B
<1>2. F \in [1..n -> [B -> B]]
  BY <1>1
<1>3. PICK it \in [SUBSET (1..n) -> B] : Folds(it, n, base, F)
  <2> HIDE DEF F
  <2> QED BY <1>1, <1>2, FoldExists
<1>4. DOMAIN history = 1..n
  BY DEF Past
<1>5. it = [T \in SUBSET DOMAIN history |->
              IF T = {} THEN base ELSE Step(it[T \ {Max(T)}], history[Max(T)])]
  <2>1. ASSUME NEW T \in SUBSET (1..n)
        PROVE  it[T] = IF T = {} THEN base ELSE Step(it[T \ {Max(T)}], history[Max(T)])
    <3>1. CASE T = {}
      BY <1>3, <3>1 DEF Folds
    <3>2. CASE T # {}
      <4>1. Max(T) \in 1..n /\ T \ {Max(T)} \in SUBSET (1..n)
        BY <3>2, MaxOfNumbers
      <4>2. it[T \ {Max(T)}] \in B
        BY <4>1
      <4>3. F[Max(T)][it[T \ {Max(T)}]] = Step(it[T \ {Max(T)}], history[Max(T)])
        BY <4>1, <4>2
      <4>4. it[T] = F[Max(T)][it[T \ {Max(T)}]]
        BY <1>3, <3>2 DEF Folds
      <4> QED BY <3>2, <4>3, <4>4
    <3> QED BY <3>1, <3>2
  <2> QED BY <1>4, <2>1
<1> DEFINE c == Reaching(program, first, history)
           g == [k \in 0..n |-> c[1..k]]
<1>6. c = [T \in SUBSET DOMAIN history |->
              IF T = {} THEN base ELSE Step(c[T \ {Max(T)}], history[Max(T)])]
  BY <1>5 DEF Reaching, base, Step
<1> HIDE DEF c
<1>7. \A T \in SUBSET (1..n) :
          c[T] = IF T = {} THEN base ELSE Step(c[T \ {Max(T)}], history[Max(T)])
  BY <1>4, <1>6
<1>8. g[0] = base
  <2>1. 1..0 = {} /\ {} \in SUBSET (1..n) /\ 0 \in 0..n
    OBVIOUS
  <2>2. c[{}] = base
    BY <1>7, <2>1
  <2> QED BY <2>1, <2>2
<1>9. ASSUME NEW k \in 1..n PROVE g[k] = Step(g[k - 1], history[k])
  <2>1. Max(1..k) = k /\ (1..k) \ {k} = 1..(k - 1) /\ 1..k # {} /\ 1..k \in SUBSET (1..n)
    BY MaxOfPrefix
  <2>2. c[1..k] = Step(c[1..(k - 1)], history[k])
    BY <1>7, <2>1
  <2>3. k \in 0..n /\ k - 1 \in 0..n
    OBVIOUS
  <2> QED BY <2>2, <2>3
<1>10. c[DOMAIN history] = g[n]
  BY <1>4
<1> DEFINE T == {k \in 0..n : g[k] \in B}
<1>11. 0..n \subseteq T
  <2> HIDE DEF g
  <2>1. 0 \in T
    BY <1>1, <1>8
  <2>2. ASSUME NEW k \in 1..n, k - 1 \in T PROVE k \in T
    <3>1. g[k - 1] \in B /\ k \in 0..n
      BY <2>2
    <3> QED BY <1>1, <1>9, <3>1
  <2> HIDE DEF T
  <2> QED BY <2>1, <2>2, Induction
<1>12. g \in [0..n -> B]
  <2>1. \A k \in 0..n : g[k] \in B
    BY <1>11
  <2> QED BY <2>1
<1>13. Reached(program, first, history) = g[n]
  BY <1>10 DEF c, Reached
<1> HIDE DEF g
<1> USE DEF base, Step, B
<1> QED BY <1>8, <1>9, <1>12, <1>13 DEF IsReach

-----------------------------------------------------------------------------
(* What a program tells by itself                                          *)

Tells(program, told, action) ==
    UNION {Predict(program, r.state, action, r.observation) : r \in told}

Opens(program, first) ==
    {[state |-> s, observation |-> first] : s \in InitialState(program, first)}

\* What can be seen of a program in a state of S.
Sights(program, S, first) ==
    [frame : {first.frame} \cup {program.render[s] : s \in S},
     status : {first.status} \cup {program.status[s] : s \in S},
     level : {first.level} \cup {program.metrics[s] : s \in S},
     available : {first.available} \cup {program.available[s] : s \in S},
     reset : {first.reset, FALSE} \cup {program.reset[s] : s \in S}]

\* What is predicted is a state and what can be seen in it.
LEMMA ForeseenType ==
    ASSUME NEW program, NEW S, NEW first, NEW t \in S, NEW previous \in Sights(program, S, first)
    PROVE  Foreseen(program, t, previous) \in [state : S, observation : Sights(program, S, first)]
<1>1. /\ program.render[t] \in {program.render[s] : s \in S}
      /\ previous.status \in {first.status} \cup {program.status[s] : s \in S}
      /\ previous.level \in {first.level} \cup {program.metrics[s] : s \in S}
      /\ previous.available \in {first.available} \cup {program.available[s] : s \in S}
  BY DEF Sights
<1>2. /\ Optional(program.status, t, previous.status)
           \in {first.status} \cup {program.status[s] : s \in S}
      /\ Optional(program.metrics, t, previous.level)
           \in {first.level} \cup {program.metrics[s] : s \in S}
      /\ Optional(program.available, t, previous.available)
           \in {first.available} \cup {program.available[s] : s \in S}
      /\ Optional(program.reset, t, FALSE)
           \in {first.reset, FALSE} \cup {program.reset[s] : s \in S}
  BY <1>1 DEF Optional
<1> QED BY <1>1, <1>2 DEF Foreseen, Sights

\* So it is of what a program tells by itself.
LEMMA TellsType ==
    ASSUME NEW program, NEW S, NEW A, Single(program, S, A), NEW first, NEW a \in A,
           NEW b \in SUBSET [state : S, observation : Sights(program, S, first)]
    PROVE  Tells(program, b, a) \in SUBSET [state : S, observation : Sights(program, S, first)]
<1>1. ASSUME NEW r \in b, NEW p \in Predict(program, r.state, a, r.observation)
      PROVE  p \in [state : S, observation : Sights(program, S, first)]
  <2>1. r.state \in S /\ r.observation \in Sights(program, S, first)
    OBVIOUS
  <2>2. OneOrNone(program, S, r.state, a, r.observation)
    BY <2>1, PredictFact
  <2>3. PICK t \in S : p = Foreseen(program, t, r.observation)
    BY <1>1, <2>2 DEF OneOrNone
  <2> QED BY <2>1, <2>3, ForeseenType
<1> QED BY <1>1 DEF Tells

IsTale(g, program, first, history, n) ==
    /\ g[0] = Opens(program, first)
    /\ \A k \in 1..n : g[k] = Tells(program, g[k - 1], history[k].action)

\* Left alone, a program tells one step after the other, and one thing at most.
LEMMA AloneRun ==
    ASSUME NEW program, NEW S, NEW A, NEW P, Single(program, S, A), NEW n \in Nat,
           NEW history \in Past(A, P, n), NEW first, first \in Sights(program, S, first),
           InitialState(program, first) \subseteq S
    PROVE  IsTale(Alone(program, first, history), program, first, history, n)
<1> DEFINE B == SUBSET [state : S, observation : Sights(program, S, first)]
           base == Opens(program, first)
           F == [k \in 1..n |-> [b \in B |-> Tells(program, b, history[k].action)]]
<1>1. base \in B /\ \A k \in 1..n, b \in B : Tells(program, b, history[k].action) \in B
  <2>1. \A k \in 1..n : history[k].action \in A
    BY DEF Past
  <2>2. base \in B
    BY DEF Opens
  <2> QED BY <2>1, <2>2, TellsType
<1> HIDE DEF B, base
<1>2. F \in [1..n -> [B -> B]]
  BY <1>1
<1>3. PICK g \in [0..n -> B] : g[0] = base /\ \A k \in 1..n : g[k] = F[k][g[k - 1]]
  <2> HIDE DEF F
  <2>1. PICK g \in [0..n -> B] : Runs(g, n, base, F)
    BY <1>1, <1>2, RunExists
  <2> QED BY <2>1 DEF Runs
<1>4. Len(history) = n
  BY SequenceOf DEF Past
<1>5. ASSUME NEW k \in 0..n
      PROVE  g[k] = IF k = 0 THEN base ELSE Tells(program, g[k - 1], history[k].action)
  <2>1. CASE k = 0
    BY <1>3, <2>1
  <2>2. CASE k # 0
    <3>1. k \in 1..n /\ k - 1 \in 0..n
      BY <2>2
    <3>2. g[k - 1] \in B
      BY <3>1
    <3> QED BY <1>3, <2>2, <3>1, <3>2
  <2> QED BY <2>1, <2>2
<1>6. g = [k \in 0..Len(history) |->
             IF k = 0 THEN base ELSE Tells(program, g[k - 1], history[k].action)]
  BY <1>4, <1>5
<1> DEFINE c == CHOOSE it : it = [k \in 0..Len(history) |->
                    IF k = 0 THEN base ELSE Tells(program, it[k - 1], history[k].action)]
<1>7. c = [k \in 0..Len(history) |->
             IF k = 0 THEN base ELSE Tells(program, c[k - 1], history[k].action)]
  BY <1>6
<1>8. Alone(program, first, history) = c
  BY DEF Alone, Tells, Opens, base
<1> HIDE DEF c
<1>9. c[0] = base /\ \A k \in 1..n : c[k] = Tells(program, c[k - 1], history[k].action)
  BY <1>4, <1>7
<1> QED BY <1>8, <1>9 DEF IsTale, base

-----------------------------------------------------------------------------
(* A program is certified when it retells the history                      *)

AllTrue(steps) == \A i \in 1..Len(steps) : steps[i] = TRUE
SomeFalse(steps) == \E i \in 1..Len(steps) : steps[i] = FALSE

\* One more step is right or wrong; what was wrong stays on record.
LEMMA StepsAppended ==
    ASSUME NEW steps \in Seq(BOOLEAN), NEW x \in BOOLEAN
    PROVE  /\ Append(steps, x) \in Seq(BOOLEAN) /\ Len(Append(steps, x)) = Len(steps) + 1
           /\ AllTrue(steps) /\ x = TRUE => AllTrue(Append(steps, x))
           /\ x = FALSE => SomeFalse(Append(steps, x))
           /\ SomeFalse(steps) => SomeFalse(Append(steps, x))
<1> DEFINE new == Append(steps, x)
<1>1. /\ new \in Seq(BOOLEAN) /\ Len(new) = Len(steps) + 1
      /\ \A i \in 1..Len(steps) : new[i] = steps[i]
      /\ new[Len(steps) + 1] = x
  BY AppendProperties
<1>2. Len(steps) \in Nat
  BY LenProperties
<1> HIDE DEF new
<1>3. \A i \in 1..Len(new) : i \in 1..Len(steps) \/ i = Len(steps) + 1
  BY <1>1, <1>2
<1>4. (\A i \in 1..Len(steps) : i \in 1..Len(new)) /\ Len(steps) + 1 \in 1..Len(new)
  BY <1>1, <1>2
<1>5. AllTrue(steps) /\ x = TRUE => AllTrue(new)
  BY <1>1, <1>3 DEF AllTrue
<1>6. x = FALSE => SomeFalse(new)
  BY <1>1, <1>4 DEF SomeFalse
<1>7. SomeFalse(steps) => SomeFalse(new)
  BY <1>1, <1>4 DEF SomeFalse
<1> QED BY <1>1, <1>5, <1>6, <1>7 DEF new

\* What a step of the replay is, as long as none has failed, and that a failure stays.
ReplaysOn(program, S, stop, b, t) ==
    LET new == ReplayStep(program, stop, b, t)
    IN  \/ /\ Predict(program, b.state, t.action, b.previous) = {}
           /\ new.steps = Append(b.steps, FALSE)
        \/ \E u \in S :
             /\ Predict(program, b.state, t.action, b.previous)
                  = {Foreseen(program, u, b.previous)}
             /\ new.state = u /\ new.previous = t.after
             /\ \/ /\ Foreseen(program, u, b.previous).observation = t.after
                   /\ new.steps = Append(b.steps, TRUE)
                \/ /\ Foreseen(program, u, b.previous).observation # t.after
                   /\ new.steps = Append(b.steps, FALSE)

\* Each step of the replay goes that way.
LEMMA ReplayGoesOn ==
    ASSUME NEW program, NEW S, NEW A, NEW P, Single(program, S, A), NEW stop,
           NEW b \in Replayed(S, P), NEW t \in [action : A, after : P]
    PROVE  /\ AllTrue(b.steps) => ReplaysOn(program, S, stop, b, t)
           /\ SomeFalse(b.steps) => SomeFalse(ReplayStep(program, stop, b, t).steps)
<1>1. b.state \in S /\ b.steps \in Seq(BOOLEAN) /\ t.action \in A
  BY DEF Replayed
<1>2. DOMAIN b.steps = 1..Len(b.steps)
  BY <1>1, LenProperties
<1> DEFINE new == VerifyStep(program, b, t)
           Fresh(u) == Foreseen(program, u, b.previous)
<1>3. \/ /\ Predict(program, b.state, t.action, b.previous) = {}
         /\ new.steps = Append(b.steps, FALSE)
      \/ \E u \in S :
           /\ Predict(program, b.state, t.action, b.previous) = {Fresh(u)}
           /\ new.state = u /\ new.previous = t.after
           /\ \/ Fresh(u).observation = t.after /\ new.steps = Append(b.steps, TRUE)
              \/ Fresh(u).observation # t.after /\ new.steps = Append(b.steps, FALSE)
  <2>1. OneOrNone(program, S, b.state, t.action, b.previous)
    BY <1>1, PredictFact
  <2>2. CASE Predict(program, b.state, t.action, b.previous) = {}
    <3>1. new = [b EXCEPT !.steps = Append(b.steps, FALSE)]
      BY <2>2 DEF VerifyStep
    <3>2. new.steps = Append(b.steps, FALSE)
      BY <3>1 DEF Replayed
    <3> QED BY <2>2, <3>2
  <2>3. CASE Predict(program, b.state, t.action, b.previous) # {}
    <3>1. PICK u \in S :
             /\ Predict(program, b.state, t.action, b.previous) = {Fresh(u)}
             /\ One(Predict(program, b.state, t.action, b.previous)) = Fresh(u)
      BY <2>1, <2>3 DEF OneOrNone
    <3>2. Fresh(u).state = u
      BY DEF Foreseen
    <3> HIDE DEF Fresh
    <3> DEFINE seen == Fresh(u).observation = t.after
    <3>3. new = [state |-> u, previous |-> t.after, steps |-> Append(b.steps, seen)]
      BY <2>3, <3>1, <3>2 DEF VerifyStep
    <3>4. new.state = u /\ new.previous = t.after /\ new.steps = Append(b.steps, seen)
      BY <3>3
    <3>5. \/ Fresh(u).observation = t.after /\ seen = TRUE
          \/ Fresh(u).observation # t.after /\ seen = FALSE
      OBVIOUS
    <3> HIDE DEF seen, new
    <3> QED BY <3>1, <3>4, <3>5
  <2> QED BY <2>2, <2>3
<1>4. ASSUME AllTrue(b.steps) PROVE ReplaysOn(program, S, stop, b, t)
  <2>1. ~\E i \in DOMAIN b.steps : ~b.steps[i]
    BY <1>2, <1>4, Zenon DEF AllTrue
  <2>2. ReplayStep(program, stop, b, t) = new
    BY <2>1 DEF ReplayStep
  <2> HIDE DEF new
  <2> QED BY <1>3, <2>2 DEF ReplaysOn
<1>5. ASSUME SomeFalse(b.steps) PROVE SomeFalse(ReplayStep(program, stop, b, t).steps)
  <2>1. new.steps = Append(b.steps, TRUE) \/ new.steps = Append(b.steps, FALSE)
    <3> HIDE DEF new, Fresh
    <3> QED BY <1>3
  <2> HIDE DEF new
  <2>2. SomeFalse(Append(b.steps, TRUE)) /\ SomeFalse(Append(b.steps, FALSE))
    BY <1>1, <1>5, StepsAppended
  <2>3. SomeFalse(new.steps)
    BY <2>1, <2>2
  <2>4. ReplayStep(program, stop, b, t) = b \/ ReplayStep(program, stop, b, t) = new
    BY DEF ReplayStep, new
  <2> QED BY <1>5, <2>3, <2>4
<1> QED BY <1>4, <1>5

\* As far as the k-th transition, every prediction was right.
Confirmed(told, history, k) ==
    \A i \in 1..k : told[i] # {} /\ \A r \in told[i] : r.observation = history[i].after

\* How the three ways to follow a history agree after k transitions.
Agree(program, told, history, g, h, k) ==
    /\ Confirmed(told, history, k) =>
         /\ Len(g[k].steps) = k /\ AllTrue(g[k].steps)
         /\ told[k] = {[state |-> g[k].state, observation |-> g[k].previous]}
         /\ h[k] = {[state |-> g[k].state, previous |-> g[k].previous]}
    /\ ~Confirmed(told, history, k) => SomeFalse(g[k].steps)

\* One transition more, and the three ways still agree.
LEMMA AgreementGoesOn ==
    ASSUME NEW program, NEW S, NEW A, NEW P, Single(program, S, A), NEW stop, NEW n \in Nat,
           NEW history \in Past(A, P, n), NEW first, NEW s,
           NEW told, IsTale(told, program, first, history, n),
           NEW g \in [0..n -> Replayed(S, P)], IsReplay(g, program, first, history, stop, s, n),
           NEW h, IsReach(h, program, first, history, n),
           NEW k \in 1..n, Agree(program, told, history, g, h, k - 1)
    PROVE  Agree(program, told, history, g, h, k)
<1> DEFINE b == g[k - 1]
           t == history[k]
<1>1. b \in Replayed(S, P) /\ t \in [action : A, after : P]
  BY DEF Past
<1>2. /\ g[k] = ReplayStep(program, stop, b, t)
      /\ told[k] = Tells(program, told[k - 1], t.action)
      /\ h[k] = ReachStep(program, h[k - 1], t)
  BY DEF IsReplay, IsTale, IsReach
<1>3. /\ AllTrue(b.steps) => ReplaysOn(program, S, stop, b, t)
      /\ SomeFalse(b.steps) => SomeFalse(g[k].steps)
  BY <1>1, <1>2, ReplayGoesOn
<1>4. b.steps \in Seq(BOOLEAN)
  BY <1>1 DEF Replayed
<1>5. /\ Confirmed(told, history, k) <=>
            /\ Confirmed(told, history, k - 1)
            /\ told[k] # {} /\ \A r \in told[k] : r.observation = t.after
  <2>1. \A i \in 1..k : i \in 1..(k - 1) \/ i = k
    OBVIOUS
  <2>2. (\A i \in 1..(k - 1) : i \in 1..k) /\ k \in 1..k
    OBVIOUS
  <2> QED BY <2>1, <2>2 DEF Confirmed
<1>6. CASE ~Confirmed(told, history, k - 1)
  <2>1. SomeFalse(b.steps)
    BY <1>6 DEF Agree
  <2> HIDE DEF b, t
  <2> QED BY <1>3, <1>5, <1>6, <2>1 DEF Agree
<1>7. CASE Confirmed(told, history, k - 1)
  <2>1. /\ Len(b.steps) = k - 1 /\ AllTrue(b.steps)
        /\ told[k - 1] = {[state |-> b.state, observation |-> b.previous]}
        /\ h[k - 1] = {[state |-> b.state, previous |-> b.previous]}
    BY <1>7 DEF Agree
  <2> HIDE DEF b, t
  <2>2. told[k] = Predict(program, b.state, t.action, b.previous)
    BY <1>2, <2>1 DEF Tells
  <2>3. h[k] = {[state |-> p.state, previous |-> t.after] :
                    p \in Predict(program, b.state, t.action, b.previous)}
    BY <1>2, <2>1 DEF ReachStep
  <2>4. CASE /\ Predict(program, b.state, t.action, b.previous) = {}
             /\ g[k].steps = Append(b.steps, FALSE)
    <3>1. SomeFalse(g[k].steps)
      BY <1>4, <2>4, StepsAppended
    <3>2. ~Confirmed(told, history, k)
      BY <1>5, <2>2, <2>4
    <3> QED BY <3>1, <3>2 DEF Agree
  <2>5. CASE Predict(program, b.state, t.action, b.previous) # {}
    <3>1. PICK u \in S :
             /\ Predict(program, b.state, t.action, b.previous)
                  = {Foreseen(program, u, b.previous)}
             /\ g[k].state = u /\ g[k].previous = t.after
             /\ \/ /\ Foreseen(program, u, b.previous).observation = t.after
                   /\ g[k].steps = Append(b.steps, TRUE)
                \/ /\ Foreseen(program, u, b.previous).observation # t.after
                   /\ g[k].steps = Append(b.steps, FALSE)
      BY <1>2, <1>3, <2>1, <2>5 DEF ReplaysOn
    <3> DEFINE p == Foreseen(program, u, b.previous)
    <3>2. p = [state |-> u, observation |-> p.observation]
      BY DEF Foreseen
    <3> HIDE DEF p
    <3>3. told[k] = {p} /\ h[k] = {[state |-> u, previous |-> t.after]}
      <4>1. Predict(program, b.state, t.action, b.previous) = {p}
        BY <3>1 DEF p
      <4>2. p.state = u
        BY <3>2
      <4> QED BY <2>2, <2>3, <4>1, <4>2
    <3>4. CASE p.observation = t.after /\ g[k].steps = Append(b.steps, TRUE)
      <4>1. AllTrue(g[k].steps) /\ Len(g[k].steps) = k
        <5>1. TRUE \in BOOLEAN
          OBVIOUS
        <5>2. Len(Append(b.steps, TRUE)) = Len(b.steps) + 1 /\ AllTrue(Append(b.steps, TRUE))
          BY <1>4, <2>1, <5>1, StepsAppended, Zenon
        <5>3. AllTrue(g[k].steps) /\ Len(g[k].steps) = (k - 1) + 1
          BY <2>1, <3>4, <5>2, Zenon
        <5> QED BY <5>3
      <4>2. told[k] = {[state |-> g[k].state, observation |-> g[k].previous]}
        BY <3>1, <3>2, <3>3, <3>4
      <4>3. h[k] = {[state |-> g[k].state, previous |-> g[k].previous]}
        BY <3>1, <3>3
      <4>4. Confirmed(told, history, k)
        BY <1>5, <1>7, <3>3, <3>4
      <4> QED BY <4>1, <4>2, <4>3, <4>4 DEF Agree
    <3>5. CASE p.observation # t.after /\ g[k].steps = Append(b.steps, FALSE)
      <4>1. SomeFalse(g[k].steps)
        BY <1>4, <3>5, StepsAppended
      <4>2. ~Confirmed(told, history, k)
        BY <1>5, <3>3, <3>5
      <4> QED BY <4>1, <4>2 DEF Agree
    <3> QED BY <3>1, <3>4, <3>5 DEF p
  <2>6. ReplaysOn(program, S, stop, b, t)
    BY <1>3, <2>1
  <2> QED BY <1>2, <2>4, <2>5, <2>6 DEF ReplaysOn
<1> QED BY <1>6, <1>7

\* What VerdictIsReplay says of a program and a history.
Verdict(program, first, history, n) ==
    LET told == Alone(program, first, history)
        retold == told[n] # {} /\ \A k \in 1..n : \A r \in told[k] :
                                     r.observation = history[k].after
    IN  /\ \A stop : Verify(program, first, history, stop) <=> retold
        /\ retold => ReplayState(program, first, history) # {}

\* For every program whose calls return at most one state, every history and first
\* observation.
THEOREM VerdictRetells ==
    ASSUME NEW program, NEW S, NEW A, NEW P, Single(program, S, A), NEW n \in Nat,
           NEW history \in Past(A, P, n), NEW first \in P, first \in Sights(program, S, first),
           InitialState(program, first) = {} \/ \E s \in S : InitialState(program, first) = {s}
    PROVE  Verdict(program, first, history, n)
<1> DEFINE told == Alone(program, first, history)
           retold == told[n] # {} /\ \A k \in 1..n : \A r \in told[k] :
                                        r.observation = history[k].after
<1>1. InitialState(program, first) \subseteq S
  OBVIOUS
<1>2. IsTale(told, program, first, history, n)
  BY <1>1, AloneRun
<1>3. PICK h \in [0..n -> SUBSET [state : S, previous : P]] :
          IsReach(h, program, first, history, n)
  BY <1>1, ReachRun
<1> HIDE DEF told
<1>4. ASSUME NEW i \in 0..n, told[i] = {} PROVE told[n] = {}
  <2> DEFINE T == {k \in 0..n : i <= k => told[k] = {}}
  <2>1. 0 \in T
    BY <1>4
  <2>2. ASSUME NEW k \in 1..n, k - 1 \in T PROVE k \in T
    <3>1. told[k] = Tells(program, told[k - 1], history[k].action)
      BY <1>2 DEF IsTale
    <3>2. SUFFICES ASSUME i <= k PROVE told[k] = {}
      OBVIOUS
    <3>3. CASE i = k
      BY <1>4, <3>3
    <3>4. CASE i # k
      <4>1. told[k - 1] = {}
        BY <2>2, <3>2, <3>4
      <4> QED BY <3>1, <4>1 DEF Tells
    <3> QED BY <3>3, <3>4
  <2> HIDE DEF T
  <2>3. 0..n \subseteq T
    BY <2>1, <2>2, Induction
  <2> QED BY <2>3 DEF T
<1>5. retold <=> told[n] # {} /\ Confirmed(told, history, n)
  <2>1. ASSUME told[n] # {} PROVE \A k \in 1..n : told[k] # {}
    BY <1>4, <2>1
  <2> QED BY <2>1 DEF Confirmed
<1>6. ASSUME InitialState(program, first) = {}
      PROVE  /\ \A stop : Verify(program, first, history, stop) <=> retold
             /\ retold => ReplayState(program, first, history) # {}
  <2>1. told[0] = {}
    BY <1>2, <1>6 DEF IsTale, Opens
  <2>2. ~retold
    BY <1>4, <2>1
  <2>3. \A stop : ~Verify(program, first, history, stop)
    BY <1>6, VerifyFact
  <2> QED BY <2>2, <2>3
<1>7. ASSUME NEW s \in S, InitialState(program, first) = {s}
      PROVE  /\ \A stop : Verify(program, first, history, stop) <=> retold
             /\ retold => ReplayState(program, first, history) # {}
  <2>1. /\ told[0] = {[state |-> s, observation |-> first]}
        /\ h[0] = {[state |-> s, previous |-> first]}
    BY <1>2, <1>3, <1>7 DEF IsTale, Opens, IsReach, Starts
  <2>2. ASSUME NEW stop
        PROVE  \E g \in [0..n -> Replayed(S, P)] :
                  /\ IsReplay(g, program, first, history, stop, s, n)
                  /\ Agree(program, told, history, g, h, n)
    <3>1. PICK g \in [0..n -> Replayed(S, P)] :
              IsReplay(g, program, first, history, stop, s, n)
      BY ReplayRun
    <3> DEFINE T == {k \in 0..n : Agree(program, told, history, g, h, k)}
    <3>2. 0 \in T
      <4>1. /\ g[0].state = s /\ g[0].previous = first /\ g[0].steps = <<>>
        BY <3>1 DEF IsReplay
      <4>2. Confirmed(told, history, 0)
        BY DEF Confirmed
      <4>3. Len(g[0].steps) = 0 /\ AllTrue(g[0].steps)
        BY <4>1 DEF AllTrue
      <4>4. Agree(program, told, history, g, h, 0)
        BY <2>1, <4>1, <4>2, <4>3 DEF Agree
      <4> QED BY <4>4
    <3>3. ASSUME NEW k \in 1..n, k - 1 \in T PROVE k \in T
      <4>1. Agree(program, told, history, g, h, k - 1)
        BY <3>3
      <4>2. Agree(program, told, history, g, h, k)
        BY <1>2, <1>3, <3>1, <4>1, AgreementGoesOn
      <4> QED BY <4>2
    <3> HIDE DEF T
    <3>4. 0..n \subseteq T
      BY <3>2, <3>3, Induction
    <3> QED BY <3>1, <3>4 DEF T
  <2>3. ASSUME NEW stop PROVE Verify(program, first, history, stop) <=> Confirmed(told, history, n)
    <3>1. PICK g \in [0..n -> Replayed(S, P)] :
              /\ IsReplay(g, program, first, history, stop, s, n)
              /\ Agree(program, told, history, g, h, n)
      BY <2>2
    <3>2. g[n].steps \in Seq(BOOLEAN)
      <4>1. g[n] \in Replayed(S, P)
        OBVIOUS
      <4> QED BY <4>1 DEF Replayed
    <3>3. DOMAIN g[n].steps = 1..Len(g[n].steps)
      BY <3>2, LenProperties
    <3>4. Len(history) = n
      BY SequenceOf DEF Past
    <3>5. Verify(program, first, history, stop) <=>
             /\ Len(g[n].steps) = n
             /\ \A i \in DOMAIN g[n].steps : g[n].steps[i]
      <4>1. Replays(program, first, history, stop, s) = g[n]
        BY <3>1 DEF IsReplay
      <4> QED BY <1>7, <3>4, <4>1, VerifyFact
    <3>6. AllTrue(g[n].steps) => \A i \in DOMAIN g[n].steps : g[n].steps[i]
      BY <3>3, Zenon DEF AllTrue
    <3>7. SomeFalse(g[n].steps) => ~\A i \in DOMAIN g[n].steps : g[n].steps[i]
      BY <3>3, Zenon DEF SomeFalse
    <3> QED BY <3>1, <3>5, <3>6, <3>7 DEF Agree
  <2>4. Confirmed(told, history, n) => told[n] # {} /\ ReplayState(program, first, history) # {}
    <3>1. PICK g \in [0..n -> Replayed(S, P)] : Agree(program, told, history, g, h, n)
      BY <2>2
    <3>2. SUFFICES ASSUME Confirmed(told, history, n)
                   PROVE  told[n] # {} /\ ReplayState(program, first, history) # {}
      OBVIOUS
    <3>3. told[n] # {} /\ h[n] # {}
      BY <3>1, <3>2 DEF Agree
    <3>4. ReplayState(program, first, history) = {r.state : r \in h[n]}
      BY <1>3, ReplayStateFact DEF IsReach
    <3> QED BY <3>3, <3>4
  <2> QED BY <1>5, <2>3, <2>4
<1>8. /\ \A stop : Verify(program, first, history, stop) <=> retold
      /\ retold => ReplayState(program, first, history) # {}
  <2> HIDE DEF retold
  <2> QED BY <1>6, <1>7
<1> QED BY <1>8 DEF told, Verdict

-----------------------------------------------------------------------------
(* The history of a game                                                   *)

\* A call of the game returns a state.
Certain(game, S, A) == \A s \in S, a \in A : \E t \in S : game.step[<<s, a>>] = {t}

Unseen == [frame |-> 0, status |-> "", level |-> 0, available |-> {}, reset |-> FALSE]

\* What a game answers to an action.
LEMMA PlayFact ==
    ASSUME NEW game, NEW S, NEW A, Certain(game, S, A), NEW s \in S, NEW a \in A
    PROVE  /\ Play(game, s, a).at \in S
           /\ Play(game, s, a).observation \in Sights(game, S, Unseen)
<1>1. PICK t \in S : game.step[<<s, a>>] = {t}
  BY DEF Certain
<1>2. Predict(game, s, a, Unseen) = {Foreseen(game, t, Unseen)}
  BY <1>1 DEF Predict, Foreseen
<1>3. One({Foreseen(game, t, Unseen)}) = Foreseen(game, t, Unseen) /\ One({t}) = t
  BY DEF One
<1>4. Play(game, s, a) = [at |-> t, observation |-> Foreseen(game, t, Unseen).observation]
  BY <1>1, <1>2, <1>3 DEF Play, Unseen
<1>5. Unseen \in Sights(game, S, Unseen)
  BY DEF Unseen, Sights
<1>6. Foreseen(game, t, Unseen) \in [state : S, observation : Sights(game, S, Unseen)]
  BY <1>5, ForeseenType
<1> QED BY <1>4, <1>6

PlayStep(game, h, a) ==
    LET now == Play(game, h.at, a)
    IN  [at |-> now.at,
         transitions |-> Append(h.transitions, [action |-> a, after |-> now.observation])]

\* The function behind a history.
Playing(game, plan) ==
    CHOOSE it : it = [T \in SUBSET DOMAIN plan |->
        IF T = {} THEN [at |-> 0, transitions |-> <<>>]
        ELSE PlayStep(game, it[T \ {Max(T)}], plan[Max(T)])]

\* Played in the words of these definitions.
LEMMA PlayedFact ==
    ASSUME NEW game, NEW plan
    PROVE  Played(game, plan) = Playing(game, plan)[DOMAIN plan].transitions
BY DEF Played, Playing, PlayStep, FoldLeft, MapThenFoldSet

Histories(S, A, P) == [at : S, transitions : Seq([action : A, after : P])]

\* A game adds one transition at a time.
LEMMA PlayStepType ==
    ASSUME NEW game, NEW S, NEW A, Certain(game, S, A), NEW a \in A,
           NEW b \in Histories(S, A, Sights(game, S, Unseen))
    PROVE  PlayStep(game, b, a) \in Histories(S, A, Sights(game, S, Unseen))
<1> DEFINE P == Sights(game, S, Unseen)
           new == [action |-> a, after |-> Play(game, b.at, a).observation]
<1>1. b.at \in S /\ b.transitions \in Seq([action : A, after : P])
  BY DEF Histories
<1>2. Play(game, b.at, a).at \in S /\ new \in [action : A, after : P]
  <2>1. Play(game, b.at, a).at \in S /\ Play(game, b.at, a).observation \in P
    BY <1>1, PlayFact
  <2> QED BY <2>1
<1>3. PlayStep(game, b, a) =
         [at |-> Play(game, b.at, a).at, transitions |-> Append(b.transitions, new)]
  BY DEF PlayStep
<1> HIDE DEF P, new
<1>4. Append(b.transitions, new) \in Seq([action : A, after : P])
  BY <1>1, <1>2, AppendProperties
<1>5. PlayStep(game, b, a) \in Histories(S, A, P)
  BY <1>2, <1>3, <1>4 DEF Histories
<1> QED BY <1>5 DEF P

\* A played history is one of the game, as long as the actions.
LEMMA PlayedType ==
    ASSUME NEW game, NEW S, NEW A, Certain(game, S, A), 0 \in S, NEW n \in Nat,
           NEW plan \in [1..n -> A]
    PROVE  Played(game, plan) \in Past(A, Sights(game, S, Unseen), n)
<1> DEFINE base == [at |-> 0, transitions |-> <<>>]
           Step(b, t) == PlayStep(game, b, t)
           P == Sights(game, S, Unseen)
           B == Histories(S, A, P)
           F == [k \in 1..n |-> [b \in B |-> Step(b, plan[k])]]
<1>1. base \in B /\ \A k \in 1..n, b \in B : Step(b, plan[k]) \in B
  <2>1. base \in B
    BY EmptySeq DEF Histories
  <2> QED BY <2>1, PlayStepType
<1> HIDE DEF base, Step, B
<1>2. F \in [1..n -> [B -> B]]
  BY <1>1
<1>3. PICK it \in [SUBSET (1..n) -> B] : Folds(it, n, base, F)
  <2> HIDE DEF F
  <2> QED BY <1>1, <1>2, FoldExists
<1>4. DOMAIN plan = 1..n
  OBVIOUS
<1>5. it = [T \in SUBSET DOMAIN plan |->
              IF T = {} THEN base ELSE Step(it[T \ {Max(T)}], plan[Max(T)])]
  <2>1. ASSUME NEW T \in SUBSET (1..n)
        PROVE  it[T] = IF T = {} THEN base ELSE Step(it[T \ {Max(T)}], plan[Max(T)])
    <3>1. CASE T = {}
      BY <1>3, <3>1 DEF Folds
    <3>2. CASE T # {}
      <4>1. Max(T) \in 1..n /\ T \ {Max(T)} \in SUBSET (1..n)
        BY <3>2, MaxOfNumbers
      <4>2. it[T \ {Max(T)}] \in B
        BY <4>1
      <4>3. F[Max(T)][it[T \ {Max(T)}]] = Step(it[T \ {Max(T)}], plan[Max(T)])
        BY <4>1, <4>2
      <4>4. it[T] = F[Max(T)][it[T \ {Max(T)}]]
        BY <1>3, <3>2 DEF Folds
      <4> QED BY <3>2, <4>3, <4>4
    <3> QED BY <3>1, <3>2
  <2> QED BY <1>4, <2>1
<1> DEFINE c == Playing(game, plan)
           g == [k \in 0..n |-> c[1..k]]
<1>6. c = [T \in SUBSET DOMAIN plan |->
              IF T = {} THEN base ELSE Step(c[T \ {Max(T)}], plan[Max(T)])]
  BY <1>5 DEF Playing, base, Step
<1> HIDE DEF c
<1>7. \A T \in SUBSET (1..n) :
          c[T] = IF T = {} THEN base ELSE Step(c[T \ {Max(T)}], plan[Max(T)])
  BY <1>4, <1>6
<1>8. g[0] = base
  <2>1. 1..0 = {} /\ {} \in SUBSET (1..n) /\ 0 \in 0..n
    OBVIOUS
  <2>2. c[{}] = base
    BY <1>7, <2>1
  <2> QED BY <2>1, <2>2
<1>9. ASSUME NEW k \in 1..n PROVE g[k] = Step(g[k - 1], plan[k])
  <2>1. Max(1..k) = k /\ (1..k) \ {k} = 1..(k - 1) /\ 1..k # {} /\ 1..k \in SUBSET (1..n)
    BY MaxOfPrefix
  <2>2. c[1..k] = Step(c[1..(k - 1)], plan[k])
    BY <1>7, <2>1
  <2>3. k \in 0..n /\ k - 1 \in 0..n
    OBVIOUS
  <2> QED BY <2>2, <2>3
<1>10. c[DOMAIN plan] = g[n]
  BY <1>4
<1> DEFINE T == {k \in 0..n : g[k] \in B}
<1>11. 0..n \subseteq T
  <2> HIDE DEF g
  <2>1. 0 \in T
    BY <1>1, <1>8
  <2>2. ASSUME NEW k \in 1..n, k - 1 \in T PROVE k \in T
    <3>1. g[k - 1] \in B /\ k \in 0..n
      BY <2>2
    <3> QED BY <1>1, <1>9, <3>1
  <2> HIDE DEF T
  <2> QED BY <2>1, <2>2, Induction
<1>12. g \in [0..n -> B]
  <2>1. \A k \in 0..n : g[k] \in B
    BY <1>11
  <2> QED BY <2>1
<1>13. Played(game, plan) = g[n].transitions
  BY <1>10, PlayedFact DEF c
<1> HIDE DEF g, T
<1> DEFINE U == {k \in 0..n : Len(g[k].transitions) = k}
<1>14. 0..n \subseteq U
  <2>1. 0 \in U
    BY <1>8 DEF base
  <2>2. ASSUME NEW k \in 1..n, k - 1 \in U PROVE k \in U
    <3>1. g[k - 1] \in B /\ Len(g[k - 1].transitions) = k - 1 /\ k \in 0..n
      BY <1>12, <2>2
    <3>2. g[k].transitions = Append(g[k - 1].transitions,
              [action |-> plan[k], after |-> Play(game, g[k - 1].at, plan[k]).observation])
      <4>1. g[k] = PlayStep(game, g[k - 1], plan[k])
        BY <1>9 DEF Step
      <4> QED BY <4>1 DEF PlayStep
    <3> DEFINE new == [action |-> plan[k],
                       after |-> Play(game, g[k - 1].at, plan[k]).observation]
    <3>3. g[k - 1].transitions \in Seq([action : A, after : P]) /\ g[k - 1].at \in S
      BY <3>1 DEF B, Histories
    <3>4. new \in [action : A, after : P]
      BY <3>3, PlayFact
    <3> HIDE DEF new, P
    <3>5. Len(Append(g[k - 1].transitions, new)) = Len(g[k - 1].transitions) + 1
      BY <3>3, <3>4, AppendProperties
    <3> QED BY <3>1, <3>2, <3>5 DEF new
  <2> HIDE DEF U
  <2> QED BY <2>1, <2>2, Induction
<1>15. g[n].transitions \in Seq([action : A, after : P]) /\ Len(g[n].transitions) = n
  <2>1. g[n] \in B /\ n \in U
    BY <1>12, <1>14
  <2> QED BY <2>1 DEF B, Histories
<1> HIDE DEF U, P
<1>16. g[n].transitions \in [1..n -> [action : A, after : P]]
  BY <1>15, LenProperties
<1> QED BY <1>13, <1>16 DEF Past, P

-----------------------------------------------------------------------------
(* The programs and the games TLC walks through                            *)

Status == {"WIN", "GAME_OVER", "NOT_FINISHED"}
Moves  == States \X ToSet(Acts)

ProgramSet ==
    [initial : {Corridor.initial},
     step : [Moves -> {{s} : s \in States} \cup {{}}],
     render : [States -> States],
     status : [States -> Status] \cup {<<>>},
     metrics : [States -> States] \cup {<<>>},
     available : [States -> SUBSET {"ACTION1"}] \cup {<<>>},
     reset : {<<>>},
     goal : [States -> Answers]]

GameSet ==
    [initial : {Corridor.initial},
     step : [Moves -> {{s} : s \in States}],
     render : {Corridor.render},
     status : [States -> Status],
     metrics : [States -> States],
     available : [States -> SUBSET {"ACTION1"}],
     reset : {<<>>},
     goal : [States -> Answers]]

Plans == {plan \in Seq(ToSet(Acts)) : Len(plan) <= MaxPlan}

ProgramCases ==
    [kind : {"program"}, program : ProgramSet, game : GameSet, plan : Plans, edits : Int]

ProgramInv == case.kind = "program" => case \in ProgramCases

\* Corridor and trap are such programs, and such games.
LEMMA CorridorFact ==
    /\ Corridor \in ProgramSet /\ Corridor \in GameSet
    /\ Trap \in ProgramSet /\ Trap \in GameSet
    /\ DOMAIN Corridor.step = Moves
<1> DEFINE st == [x \in Moves |->
                     IF x[2] = Reset THEN {0} ELSE {IF x[1] < 2 THEN x[1] + 1 ELSE 2}]
           rd == [s \in States |-> s]
           ss == [s \in States |-> IF s = 2 THEN "WIN" ELSE "NOT_FINISHED"]
           me == [s \in States |-> IF s = 2 THEN 1 ELSE 0]
           av == [s \in States |-> {"ACTION1"}]
           go == [s \in States |-> {s = 2}]
           tr == [ss EXCEPT ![1] = "GAME_OVER"]
<1>1. st \in [Moves -> {{s} : s \in States}] /\ st \in [Moves -> {{s} : s \in States} \cup {{}}]
  <2>1. ASSUME NEW x \in Moves
        PROVE  (IF x[2] = Reset THEN {0} ELSE {IF x[1] < 2 THEN x[1] + 1 ELSE 2})
                  \in {{s} : s \in States}
    <3>1. x[1] \in 0..2 /\ 0 \in States /\ 2 \in States
      BY DEF Moves, States
    <3>2. x[1] < 2 => x[1] + 1 \in States
      BY <3>1 DEF States
    <3> QED BY <3>1, <3>2
  <2> QED BY <2>1
<1>2. /\ rd \in [States -> States] /\ ss \in [States -> Status] /\ me \in [States -> States]
      /\ av \in [States -> SUBSET {"ACTION1"}] /\ tr \in [States -> Status]
  BY DEF States, Status
<1>9. go \in [States -> Answers]
  <2>1. ASSUME NEW s \in States PROVE {s = 2} \in Answers
    <3>1. (s = 2) = TRUE \/ (s = 2) = FALSE
      OBVIOUS
    <3> DEFINE v == (s = 2)
    <3>2. v = TRUE \/ v = FALSE
      BY <3>1
    <3> HIDE DEF v
    <3>3. {v} \in Answers
      BY <3>2, Zenon DEF Answers
    <3> QED BY <3>3 DEF v
  <2> QED BY <2>1
<1>3. Corridor = [initial |-> Corridor.initial, step |-> st, render |-> rd, status |-> ss,
                  metrics |-> me, available |-> av, reset |-> <<>>, goal |-> go]
  BY DEF Corridor, Moves
<1>4. Trap = [initial |-> Corridor.initial, step |-> st, render |-> rd, status |-> tr,
              metrics |-> me, available |-> av, reset |-> <<>>, goal |-> go]
  <2> DEFINE i == Corridor.initial
  <2> HIDE DEF i, st, rd, ss, me, av, go
  <2>1. Corridor = [initial |-> i, step |-> st, render |-> rd, status |-> ss,
                  metrics |-> me, available |-> av, reset |-> <<>>, goal |-> go]
    BY <1>3 DEF i
  <2>2. Trap = [Corridor EXCEPT !.status = [ss EXCEPT ![1] = "GAME_OVER"]]
    BY <2>1 DEF Trap
  <2> QED BY <2>1, <2>2 DEF i
<1>5. Corridor.render = rd
  BY DEF Corridor
<1> DEFINE i == Corridor.initial
           z == Corridor.render
<1>6. z = rd
  BY <1>5
<1>7. DOMAIN st = Moves
  OBVIOUS
<1> HIDE DEF i, z, st, rd, ss, me, av, go, tr
<1>8. Corridor.step = st
  BY <1>3
<1> QED BY <1>1, <1>2, <1>3, <1>4, <1>6, <1>7, <1>8, <1>9 DEF ProgramSet, GameSet, i, z

\* An edit leaves a program, and a game, what they are.
LEMMA ProgramEdited ==
    ASSUME NEW p \in ProgramSet
    PROVE  /\ \A x \in Moves, next \in {{s} : s \in States} \cup {{}} :
                 [p EXCEPT !.step[x] = next] \in ProgramSet
           /\ \A s \in States : [p EXCEPT !.render[s] = 0] \in ProgramSet
           /\ \A f \in {"status", "metrics", "available"} : [p EXCEPT ![f] = <<>>] \in ProgramSet
           /\ \A s \in States, goal \in Answers : [p EXCEPT !.goal[s] = goal] \in ProgramSet
<1> DEFINE R == {{s} : s \in States} \cup {{}}
<1>1. ASSUME NEW x \in Moves, NEW next \in R
      PROVE  [p EXCEPT !.step[x] = next] \in ProgramSet
  <2>1. [p.step EXCEPT ![x] = next] \in [Moves -> R]
    <3>1. p.step \in [Moves -> R]
      BY DEF ProgramSet
    <3> HIDE DEF R
    <3> QED BY <3>1
  <2> QED BY <2>1 DEF ProgramSet
<1>2. ASSUME NEW s \in States PROVE [p EXCEPT !.render[s] = 0] \in ProgramSet
  <2>1. p.render \in [States -> States] /\ 0 \in States
    BY DEF ProgramSet, States
  <2>2. [p.render EXCEPT ![s] = 0] \in [States -> States]
    BY <2>1
  <2> QED BY <2>2 DEF ProgramSet
<1>3. ASSUME NEW f \in {"status", "metrics", "available"}
      PROVE  [p EXCEPT ![f] = <<>>] \in ProgramSet
  <2>1. CASE f = "status"
    BY <2>1 DEF ProgramSet
  <2>2. CASE f = "metrics"
    BY <2>2 DEF ProgramSet
  <2>3. CASE f = "available"
    BY <2>3 DEF ProgramSet
  <2> QED BY <2>1, <2>2, <2>3
<1>4. ASSUME NEW s \in States, NEW goal \in Answers
      PROVE  [p EXCEPT !.goal[s] = goal] \in ProgramSet
  <2>1. [p.goal EXCEPT ![s] = goal] \in [States -> Answers]
    BY DEF ProgramSet
  <2> QED BY <2>1 DEF ProgramSet
<1> QED BY <1>1, <1>2, <1>3, <1>4

\* An edit of the game leaves a game.
LEMMA GameEdited ==
    ASSUME NEW p \in GameSet
    PROVE  /\ \A x \in Moves, s \in States : [p EXCEPT !.step[x] = {s}] \in GameSet
           /\ \A s \in States, new \in Status : [p EXCEPT !.status[s] = new] \in GameSet
           /\ \A s \in States, new \in SUBSET {"ACTION1"} :
                 [p EXCEPT !.available[s] = new] \in GameSet
<1>1. ASSUME NEW x \in Moves, NEW s \in States PROVE [p EXCEPT !.step[x] = {s}] \in GameSet
  <2>1. [p.step EXCEPT ![x] = {s}] \in [Moves -> {{u} : u \in States}]
    BY DEF GameSet
  <2> QED BY <2>1 DEF GameSet
<1>2. ASSUME NEW s \in States, NEW new \in Status PROVE [p EXCEPT !.status[s] = new] \in GameSet
  <2>1. [p.status EXCEPT ![s] = new] \in [States -> Status]
    BY DEF GameSet
  <2> QED BY <2>1 DEF GameSet
<1>3. ASSUME NEW s \in States, NEW new \in SUBSET {"ACTION1"}
      PROVE  [p EXCEPT !.available[s] = new] \in GameSet
  <2>1. [p.available EXCEPT ![s] = new] \in [States -> SUBSET {"ACTION1"}]
    BY DEF GameSet
  <2> QED BY <2>1 DEF GameSet
<1> QED BY <1>1, <1>2, <1>3

\* An edit touches the field it names and counts itself.
LEMMA CaseEdited ==
    ASSUME NEW c \in ProgramCases
    PROVE  /\ \A new \in ProgramSet :
                 [c EXCEPT !.program = new, !.edits = @ + 1] \in ProgramCases
           /\ \A new \in GameSet : [c EXCEPT !.game = new, !.edits = @ + 1] \in ProgramCases
           /\ \A new \in Plans : [c EXCEPT !.plan = new] \in ProgramCases
<1>1. ASSUME NEW new \in ProgramSet
      PROVE  [c EXCEPT !.program = new, !.edits = @ + 1] \in ProgramCases
  <2>1. c.edits + 1 \in Int
    BY DEF ProgramCases
  <2>2. [c EXCEPT !.program = new, !.edits = @ + 1]
          = [[c EXCEPT !.program = new] EXCEPT !.edits = c.edits + 1]
    BY DEF ProgramCases
  <2>3. [c EXCEPT !.program = new] \in ProgramCases
    BY DEF ProgramCases
  <2> QED BY <2>1, <2>2, <2>3 DEF ProgramCases
<1>2. ASSUME NEW new \in GameSet
      PROVE  [c EXCEPT !.game = new, !.edits = @ + 1] \in ProgramCases
  <2>1. c.edits + 1 \in Int
    BY DEF ProgramCases
  <2>2. [c EXCEPT !.game = new, !.edits = @ + 1]
          = [[c EXCEPT !.game = new] EXCEPT !.edits = c.edits + 1]
    BY DEF ProgramCases
  <2>3. [c EXCEPT !.game = new] \in ProgramCases
    BY DEF ProgramCases
  <2> QED BY <2>1, <2>2, <2>3 DEF ProgramCases
<1>3. ASSUME NEW new \in Plans PROVE [c EXCEPT !.plan = new] \in ProgramCases
  BY DEF ProgramCases
<1> QED BY <1>1, <1>2, <1>3

\* Every edit, and every action added to the plan, keeps it.
LEMMA ProgramInvInductive ==
    /\ Init => ProgramInv
    /\ Shaped /\ ProgramInv /\ [Next]_case => ProgramInv'
<1>1. ASSUME Init PROVE ProgramInv
  <2>1. SUFFICES ASSUME case.kind = "program" PROVE case \in ProgramCases
    BY DEF ProgramInv
  <2>2. PICK g \in {Corridor, Trap} :
            case = [kind |-> "program", program |-> g, game |-> g, plan |-> <<>>, edits |-> 0]
    BY <1>1, <2>1, InitShaped DEF ProgramCase
  <2>3. g \in ProgramSet /\ g \in GameSet
    BY CorridorFact
  <2>4. <<>> \in Plans
    BY EmptySeq, BoundsAssumption DEF Plans
  <2> QED BY <2>2, <2>3, <2>4 DEF ProgramCases
<1>2. ASSUME Shaped, ProgramInv, Next PROVE ProgramInv'
  <2>1. SUFFICES ASSUME case'.kind = "program" PROVE case' \in ProgramCases
    BY DEF ProgramInv
  <2>2. case.kind = "program" /\ Edit /\ case \in ProgramCases
    BY <1>2, <2>1, NextShaped DEF OfKind, ProgramInv
  <2>3. /\ case.program \in ProgramSet /\ case.game \in GameSet /\ case.plan \in Plans
        /\ case.edits \in Int
    BY <2>2 DEF ProgramCases
  <2>4. DOMAIN Corridor.step = Moves
    BY CorridorFact
  <2>5. ASSUME NEW new \in ProgramSet,
               case' = [case EXCEPT !.program = new, !.edits = @ + 1]
        PROVE  case' \in ProgramCases
    BY <2>2, <2>5, CaseEdited
  <2>6. ASSUME NEW new \in GameSet,
               case' = [case EXCEPT !.game = new, !.edits = @ + 1]
        PROVE  case' \in ProgramCases
    BY <2>2, <2>6, CaseEdited
  <2>7. CASE EditProgram
    <3> DEFINE p == case.program
    <3>1. CASE \E x \in DOMAIN Corridor.step, next \in {{s} : s \in States} \cup {{}} :
            case' = [case EXCEPT !.program.step[x] = next, !.edits = @ + 1]
      <4>1. PICK x \in Moves, next \in {{s} : s \in States} \cup {{}} :
              case' = [case EXCEPT !.program = [p EXCEPT !.step[x] = next], !.edits = @ + 1]
        BY <2>4, <3>1
      <4>2. [p EXCEPT !.step[x] = next] \in ProgramSet
        BY <2>3, ProgramEdited
      <4> QED BY <2>5, <4>1, <4>2
    <3>2. CASE \E s \in States : case' = [case EXCEPT !.program.render[s] = 0, !.edits = @ + 1]
      <4>1. PICK s \in States :
              case' = [case EXCEPT !.program = [p EXCEPT !.render[s] = 0], !.edits = @ + 1]
        BY <3>2
      <4>2. [p EXCEPT !.render[s] = 0] \in ProgramSet
        BY <2>3, ProgramEdited
      <4> QED BY <2>5, <4>1, <4>2
    <3>3. CASE \E f \in {"status", "metrics", "available"} :
            case' = [case EXCEPT !.program[f] = <<>>, !.edits = @ + 1]
      <4>1. PICK f \in {"status", "metrics", "available"} :
              case' = [case EXCEPT !.program = [p EXCEPT ![f] = <<>>], !.edits = @ + 1]
        BY <3>3
      <4>2. [p EXCEPT ![f] = <<>>] \in ProgramSet
        BY <2>3, ProgramEdited
      <4> QED BY <2>5, <4>1, <4>2
    <3>4. CASE \E s \in States, goal \in Answers :
            case' = [case EXCEPT !.program.goal[s] = goal, !.edits = @ + 1]
      <4>1. PICK s \in States, goal \in Answers :
              case' = [case EXCEPT !.program = [p EXCEPT !.goal[s] = goal], !.edits = @ + 1]
        BY <3>4
      <4>2. [p EXCEPT !.goal[s] = goal] \in ProgramSet
        BY <2>3, ProgramEdited
      <4> QED BY <2>5, <4>1, <4>2
    <3> QED BY <2>7, <3>1, <3>2, <3>3, <3>4 DEF EditProgram
  <2>8. CASE EditGame
    <3> DEFINE p == case.game
    <3>1. CASE \E x \in DOMAIN Corridor.step, s \in States :
            case' = [case EXCEPT !.game.step[x] = {s}, !.edits = @ + 1]
      <4>1. PICK x \in Moves, s \in States :
              case' = [case EXCEPT !.game = [p EXCEPT !.step[x] = {s}], !.edits = @ + 1]
        BY <2>4, <3>1
      <4>2. [p EXCEPT !.step[x] = {s}] \in GameSet
        BY <2>3, GameEdited
      <4> QED BY <2>6, <4>1, <4>2
    <3>2. CASE \E s \in States, status \in {"WIN", "GAME_OVER", "NOT_FINISHED"} :
            case' = [case EXCEPT !.game.status[s] = status, !.edits = @ + 1]
      <4>1. PICK s \in States, status \in Status :
              case' = [case EXCEPT !.game = [p EXCEPT !.status[s] = status], !.edits = @ + 1]
        BY <3>2 DEF Status
      <4>2. [p EXCEPT !.status[s] = status] \in GameSet
        BY <2>3, GameEdited
      <4> QED BY <2>6, <4>1, <4>2
    <3>3. CASE \E s \in States, available \in SUBSET {"ACTION1"} :
            case' = [case EXCEPT !.game.available[s] = available, !.edits = @ + 1]
      <4>1. PICK s \in States, available \in SUBSET {"ACTION1"} :
              case' = [case EXCEPT !.game = [p EXCEPT !.available[s] = available],
                                   !.edits = @ + 1]
        BY <3>3
      <4>2. [p EXCEPT !.available[s] = available] \in GameSet
        BY <2>3, GameEdited
      <4> QED BY <2>6, <4>1, <4>2
    <3> QED BY <2>8, <3>1, <3>2, <3>3 DEF EditGame
  <2>9. CASE /\ Len(case.plan) < MaxPlan
             /\ \E a \in ToSet(Acts) : case' = [case EXCEPT !.plan = Append(@, a)]
    <3>1. PICK a \in ToSet(Acts) : case' = [case EXCEPT !.plan = Append(@, a)]
      BY <2>9
    <3> DEFINE A == ToSet(Acts)
               new == Append(case.plan, a)
    <3>2. case.plan \in Seq(A) /\ a \in A
      BY <2>3 DEF Plans
    <3> HIDE DEF A
    <3>3. new \in Seq(A) /\ Len(new) = Len(case.plan) + 1 /\ Len(case.plan) \in Nat
      BY <3>2, AppendProperties, LenProperties
    <3>4. new \in Plans
      BY <2>9, <3>3, BoundsAssumption DEF Plans, A
    <3>5. case' = [case EXCEPT !.plan = new]
      BY <3>1
    <3> HIDE DEF new
    <3> QED BY <2>2, <3>4, <3>5, CaseEdited
  <2> QED BY <2>2, <2>7, <2>8, <2>9 DEF Edit
<1>3. ASSUME ProgramInv, case' = case PROVE ProgramInv'
  BY <1>3 DEF ProgramInv
<1> QED BY <1>1, <1>2, <1>3

\* What holds of every program and game within the bounds.
LEMMA ProgramFacts ==
    ASSUME NEW p \in ProgramSet, NEW g \in GameSet
    PROVE  /\ Single(p, States, ToSet(Acts))
           /\ Certain(g, States, ToSet(Acts))
           /\ InitialState(p, FirstSeen(g)) = {0} /\ 0 \in States
           /\ FirstSeen(g) \in Sights(p, States, FirstSeen(g))
<1>1. Single(p, States, ToSet(Acts))
  <2>1. p.step \in [Moves -> {{s} : s \in States} \cup {{}}]
    BY DEF ProgramSet
  <2>2. ASSUME NEW s \in States, NEW a \in ToSet(Acts)
        PROVE  p.step[<<s, a>>] = {} \/ \E t \in States : p.step[<<s, a>>] = {t}
    <3>1. <<s, a>> \in Moves
      BY DEF Moves
    <3> QED BY <2>1, <3>1
  <2> QED BY <2>2 DEF Single
<1>2. Certain(g, States, ToSet(Acts))
  <2>1. g.step \in [Moves -> {{s} : s \in States}]
    BY DEF GameSet
  <2>2. ASSUME NEW s \in States, NEW a \in ToSet(Acts)
        PROVE  \E t \in States : g.step[<<s, a>>] = {t}
    <3>1. <<s, a>> \in Moves
      BY DEF Moves
    <3> QED BY <2>1, <3>1
  <2> QED BY <2>2 DEF Certain
<1>3. 0 \in States
  BY DEF States
<1>4. FirstSeen(g).frame = 0
  <2>1. g.render = [s \in States |-> s]
    BY DEF GameSet, Corridor
  <2> QED BY <1>3, <2>1 DEF FirstSeen
<1>5. InitialState(p, FirstSeen(g)) = {0}
  <2>1. p.initial = [f \in States |-> {f}]
    BY DEF ProgramSet, Corridor
  <2> QED BY <1>3, <1>4, <2>1 DEF InitialState
<1>6. FirstSeen(g) \in Sights(p, States, FirstSeen(g))
  BY DEF FirstSeen, Sights
<1> QED BY <1>1, <1>2, <1>3, <1>5, <1>6

\* So it is of every program, game and plan within the bounds, for any number of edits and
\* plans of any length: the verdict is that the program retells the history by itself
\* (verifier.py:66).
THEOREM VerdictIsRight == Spec => []VerdictIsReplay
<1>1. ProgramInv => VerdictIsReplay
  <2>1. SUFFICES ASSUME case \in ProgramCases PROVE VerdictIsReplay
    BY DEF ProgramInv, VerdictIsReplay
  <2> DEFINE A == ToSet(Acts)
             first == FirstSeen(case.game)
             history == Played(case.game, case.plan)
             n == Len(case.plan)
             P == Sights(case.game, States, Unseen) \cup {first}
             told == Alone(case.program, first, history)
             retold == /\ told[n] # {}
                       /\ \A k \in 1..n : \A r \in told[k] : r.observation = history[k].after
  <2>2. case.program \in ProgramSet /\ case.game \in GameSet /\ case.plan \in Plans
    BY <2>1 DEF ProgramCases
  <2>3. n \in Nat /\ case.plan \in [1..n -> A]
    <3>1. case.plan \in Seq(A)
      BY <2>2 DEF Plans
    <3> QED BY <3>1, LenProperties
  <2>4. /\ Single(case.program, States, A)
        /\ Certain(case.game, States, A)
        /\ InitialState(case.program, first) = {0} /\ 0 \in States
        /\ first \in Sights(case.program, States, first)
    BY <2>2, ProgramFacts
  <2> HIDE DEF A, n
  <2>5. history \in Past(A, Sights(case.game, States, Unseen), n)
    BY <2>3, <2>4, PlayedType
  <2>6. history \in Past(A, P, n) /\ first \in P
    BY <2>5 DEF Past
  <2>7. Len(history) = n /\ DOMAIN history = 1..n
    BY <2>3, <2>6, SequenceOf DEF Past
  <2> HIDE DEF first, history, P
  <2>8. /\ \A stop : Verify(case.program, first, history, stop) <=> retold
        /\ retold => ReplayState(case.program, first, history) # {}
    <3>1. Verdict(case.program, first, history, n)
      BY <2>3, <2>4, <2>6, VerdictRetells
    <3> QED BY <3>1 DEF Verdict
  <2> HIDE DEF told, retold
  <2>9. /\ \A stop \in BOOLEAN : Verify(case.program, first, history, stop) <=> retold
        /\ retold => ReplayState(case.program, first, history) # {}
    BY <2>8
  <2>10. retold <=> /\ told[Len(history)] # {}
                    /\ \A k \in DOMAIN history : \A r \in told[k] :
                            r.observation = history[k].after
    BY <2>7 DEF retold
  <2> QED BY <2>9, <2>10 DEF VerdictIsReplay, first, history, told
<1> QED BY <1>1, ProgramInvInductive, AlwaysShaped, PTL DEF Spec

-----------------------------------------------------------------------------
(* The simulation of a plan                                                *)

SimStep(program, plan, reached, i) ==
    UNION {SimulateStep(program, plan, r, i) : r \in reached}

Turns(plan) == [i \in 1..Len(plan) |-> i]

\* The function behind a simulation.
Simulating(program, state, observation, plan) ==
    CHOOSE it : it = [T \in SUBSET DOMAIN Turns(plan) |->
        IF T = {} THEN {[state |-> state, observation |-> observation]}
        ELSE SimStep(program, plan, it[T \ {Max(T)}], Turns(plan)[Max(T)])]

\* Simulate in the words of these definitions.
LEMMA SimulateFact ==
    ASSUME NEW program, NEW state, NEW observation, NEW plan
    PROVE  Simulate(program, state, observation, plan) =
             Simulating(program, state, observation, plan)[DOMAIN Turns(plan)]
BY DEF Simulate, Simulating, SimStep, Turns, FoldLeft, MapThenFoldSet

Sites(program, S, first) == [state : S, observation : Sights(program, S, first)]

\* A simulated action leads from ways to ways.
LEMMA SimStepType ==
    ASSUME NEW program, NEW S, NEW A, Single(program, S, A), NEW first, NEW plan, NEW i,
           plan[i] \in A, NEW b \in SUBSET Sites(program, S, first)
    PROVE  SimStep(program, plan, b, i) \in SUBSET Sites(program, S, first)
<1>1. ASSUME NEW r \in b, NEW p \in Predict(program, r.state, plan[i], r.observation)
      PROVE  p \in Sites(program, S, first)
  <2>1. r.state \in S /\ r.observation \in Sights(program, S, first)
    BY DEF Sites
  <2>2. OneOrNone(program, S, r.state, plan[i], r.observation)
    BY <2>1, PredictFact
  <2>3. PICK t \in S : p = Foreseen(program, t, r.observation)
    BY <1>1, <2>2 DEF OneOrNone
  <2> QED BY <2>1, <2>3, ForeseenType DEF Sites
<1>2. \A r \in b : SimulateStep(program, plan, r, i)
                     \subseteq Predict(program, r.state, plan[i], r.observation)
  BY DEF SimulateStep
<1> QED BY <1>1, <1>2 DEF SimStep

IsSim(g, program, state, observation, plan, n) ==
    /\ g[0] = {[state |-> state, observation |-> observation]}
    /\ \A k \in 1..n : g[k] = SimStep(program, plan, g[k - 1], k)
    /\ Simulate(program, state, observation, plan) = g[n]

\* The simulation takes one action after the other.
LEMMA SimRun ==
    ASSUME NEW program, NEW S, NEW A, Single(program, S, A), NEW n \in Nat,
           NEW plan \in [1..n -> A], NEW first, NEW state \in S,
           NEW observation \in Sights(program, S, first)
    PROVE  \E g \in [0..n -> SUBSET Sites(program, S, first)] :
               IsSim(g, program, state, observation, plan, n)
<1> DEFINE base == {[state |-> state, observation |-> observation]}
           Step(b, t) == SimStep(program, plan, b, t)
           B == SUBSET Sites(program, S, first)
           list == Turns(plan)
           F == [k \in 1..n |-> [b \in B |-> Step(b, list[k])]]
<1>0. DOMAIN list = 1..n /\ \A k \in 1..n : list[k] = k
  BY SequenceOf DEF Turns
<1>1. base \in B /\ \A k \in 1..n, b \in B : Step(b, list[k]) \in B
  <2>1. base \in B
    BY DEF Sites
  <2>2. \A k \in 1..n : plan[k] \in A
    OBVIOUS
  <2> HIDE DEF list
  <2> QED BY <1>0, <2>1, <2>2, SimStepType
<1> HIDE DEF list
<1> HIDE DEF base, Step, B
<1>2. F \in [1..n -> [B -> B]]
  BY <1>1
<1>3. PICK it \in [SUBSET (1..n) -> B] : Folds(it, n, base, F)
  <2> HIDE DEF F
  <2> QED BY <1>1, <1>2, FoldExists
<1>4. DOMAIN list = 1..n
  BY <1>0
<1>5. it = [T \in SUBSET DOMAIN list |->
              IF T = {} THEN base ELSE Step(it[T \ {Max(T)}], list[Max(T)])]
  <2>1. ASSUME NEW T \in SUBSET (1..n)
        PROVE  it[T] = IF T = {} THEN base ELSE Step(it[T \ {Max(T)}], list[Max(T)])
    <3>1. CASE T = {}
      BY <1>3, <3>1 DEF Folds
    <3>2. CASE T # {}
      <4>1. Max(T) \in 1..n /\ T \ {Max(T)} \in SUBSET (1..n)
        BY <3>2, MaxOfNumbers
      <4>2. it[T \ {Max(T)}] \in B
        BY <4>1
      <4>3. F[Max(T)][it[T \ {Max(T)}]] = Step(it[T \ {Max(T)}], list[Max(T)])
        BY <4>1, <4>2
      <4>4. it[T] = F[Max(T)][it[T \ {Max(T)}]]
        BY <1>3, <3>2 DEF Folds
      <4> QED BY <3>2, <4>3, <4>4
    <3> QED BY <3>1, <3>2
  <2> QED BY <1>4, <2>1
<1> DEFINE c == Simulating(program, state, observation, plan)
           g == [k \in 0..n |-> c[1..k]]
<1>6. c = [T \in SUBSET DOMAIN list |->
              IF T = {} THEN base ELSE Step(c[T \ {Max(T)}], list[Max(T)])]
  BY <1>5 DEF Simulating, list, base, Step
<1> HIDE DEF c
<1>7. \A T \in SUBSET (1..n) :
          c[T] = IF T = {} THEN base ELSE Step(c[T \ {Max(T)}], list[Max(T)])
  BY <1>4, <1>6
<1>8. g[0] = base
  <2>1. 1..0 = {} /\ {} \in SUBSET (1..n) /\ 0 \in 0..n
    OBVIOUS
  <2>2. c[{}] = base
    BY <1>7, <2>1
  <2> QED BY <2>1, <2>2
<1>9. ASSUME NEW k \in 1..n PROVE g[k] = Step(g[k - 1], list[k])
  <2>1. Max(1..k) = k /\ (1..k) \ {k} = 1..(k - 1) /\ 1..k # {} /\ 1..k \in SUBSET (1..n)
    BY MaxOfPrefix
  <2>2. c[1..k] = Step(c[1..(k - 1)], list[k])
    BY <1>7, <2>1
  <2>3. k \in 0..n /\ k - 1 \in 0..n
    OBVIOUS
  <2> QED BY <2>2, <2>3
<1>10. c[DOMAIN list] = g[n]
  BY <1>4
<1> DEFINE T == {k \in 0..n : g[k] \in B}
<1>11. 0..n \subseteq T
  <2> HIDE DEF g
  <2>1. 0 \in T
    BY <1>1, <1>8
  <2>2. ASSUME NEW k \in 1..n, k - 1 \in T PROVE k \in T
    <3>1. g[k - 1] \in B /\ k \in 0..n
      BY <2>2
    <3> QED BY <1>1, <1>9, <3>1
  <2> HIDE DEF T
  <2> QED BY <2>1, <2>2, Induction
<1>12. g \in [0..n -> B]
  <2>1. \A k \in 0..n : g[k] \in B
    BY <1>11
  <2> QED BY <2>1
<1>13. Simulate(program, state, observation, plan) = g[n]
  BY <1>10, SimulateFact DEF c, list
<1>14. \A k \in 1..n : g[k] = SimStep(program, plan, g[k - 1], k)
  BY <1>0, <1>9 DEF Step
<1> HIDE DEF g
<1> USE DEF base, B
<1> QED BY <1>8, <1>12, <1>13, <1>14 DEF IsSim

-----------------------------------------------------------------------------
(* The execution of a plan                                                 *)

Part(plan, maxActions) ==
    SubSeq(plan, 1, IF maxActions < Len(plan) THEN maxActions ELSE Len(plan))

From(from, plan) ==
    [at |-> from.at, state |-> from.state, observation |-> from.observation,
     remaining |-> plan, diverged |-> FALSE, stopped |-> FALSE, raised |-> FALSE]

\* The function behind an execution.
Executing(program, game, from, plan, maxActions) ==
    CHOOSE it : it = [T \in SUBSET DOMAIN Part(plan, maxActions) |->
        IF T = {} THEN From(from, plan)
        ELSE ExecuteStep(program, game, it[T \ {Max(T)}], Part(plan, maxActions)[Max(T)])]

\* Execute in the words of these definitions.
LEMMA ExecuteFact ==
    ASSUME NEW program, NEW game, NEW from, NEW plan, NEW maxActions
    PROVE  Execute(program, game, from, plan, maxActions) =
             Executing(program, game, from, plan, maxActions)[DOMAIN Part(plan, maxActions)]
BY DEF Execute, Executing, Part, From, FoldLeft, MapThenFoldSet

Executions(S, A, O) ==
    [at : S, state : S, observation : O, remaining : Seq(A), diverged : BOOLEAN,
     stopped : BOOLEAN, raised : BOOLEAN]

\* An executed action leaves a place of the game, a state and an observation.
LEMMA ExecuteStepType ==
    ASSUME NEW program, NEW game, NEW S, NEW A, Single(program, S, A), Certain(game, S, A),
           NEW O, Sights(game, S, Unseen) \subseteq O, NEW a \in A, NEW b \in Executions(S, A, O)
    PROVE  ExecuteStep(program, game, b, a) \in Executions(S, A, O)
<1>1. b.at \in S /\ b.state \in S /\ b.observation \in O /\ b.remaining \in Seq(A)
  BY DEF Executions
<1> DEFINE predicted == Predict(program, b.state, a, b.observation)
           played == Play(game, b.at, a)
           match == \E p \in predicted : p.observation = played.observation
<1>2. CASE b.stopped
  BY <1>2 DEF ExecuteStep
<1>3. CASE ~b.stopped /\ predicted = {}
  <2>1. ExecuteStep(program, game, b, a) = [b EXCEPT !.stopped = TRUE, !.raised = TRUE]
    BY <1>3 DEF ExecuteStep
  <2> QED BY <2>1 DEF Executions
<1>4. CASE ~b.stopped /\ predicted # {}
  <2>1. played.at \in S /\ played.observation \in O
    BY <1>1, PlayFact
  <2>2. OneOrNone(program, S, b.state, a, b.observation)
    BY <1>1, PredictFact
  <2>3. One(predicted).state \in S
    <3>1. PICK t \in S : One(predicted) = Foreseen(program, t, b.observation)
      BY <1>4, <2>2 DEF OneOrNone
    <3> QED BY <3>1 DEF Foreseen
  <2>4. Tail(b.remaining) \in Seq(A)
    <3>1. CASE b.remaining = <<>>
      BY <3>1
    <3>2. CASE b.remaining # <<>>
      BY <1>1, <3>2, HeadTailProperties
    <3> QED BY <3>1, <3>2
  <2> DEFINE next == IF match THEN One(predicted).state ELSE b.state
             rest == Tail(b.remaining)
             off == ~match
             end == ~match \/ played.observation.status \in {"WIN", "GAME_OVER"}
  <2>5. ExecuteStep(program, game, b, a) =
          [at |-> played.at, observation |-> played.observation, raised |-> FALSE,
           state |-> next, remaining |-> rest, diverged |-> off, stopped |-> end]
    BY <1>4 DEF ExecuteStep
  <2>6. next \in S /\ rest \in Seq(A) /\ off \in BOOLEAN /\ end \in BOOLEAN
    BY <1>1, <2>3, <2>4
  <2> HIDE DEF next, rest, off, end, played
  <2> QED BY <2>1, <2>5, <2>6 DEF Executions
<1>5. b.stopped \in BOOLEAN
  BY DEF Executions
<1> QED BY <1>2, <1>3, <1>4

IsExecution(g, program, game, from, plan, maxActions, n) ==
    /\ g[0] = From(from, plan)
    /\ \A k \in 1..n : g[k] = ExecuteStep(program, game, g[k - 1], plan[k])
    /\ Execute(program, game, from, plan, maxActions) = g[n]

\* The execution takes one action after the other.
LEMMA ExecuteRun ==
    ASSUME NEW program, NEW game, NEW S, NEW A, Single(program, S, A), Certain(game, S, A),
           NEW O, Sights(game, S, Unseen) \subseteq O, NEW m \in Nat, NEW plan \in [1..m -> A],
           NEW from, from.at \in S, from.state \in S, from.observation \in O,
           NEW maxActions \in Nat, NEW n \in Nat, n = IF maxActions < m THEN maxActions ELSE m
    PROVE  \E g \in [0..n -> Executions(S, A, O)] :
               IsExecution(g, program, game, from, plan, maxActions, n)
<1> DEFINE base == From(from, plan)
           Step(b, t) == ExecuteStep(program, game, b, t)
           B == Executions(S, A, O)
           list == Part(plan, maxActions)
           F == [k \in 1..n |-> [b \in B |-> Step(b, list[k])]]
<1>list. plan \in Seq(A) /\ Len(plan) = m
  BY SequenceOf
<1>0. DOMAIN list = 1..n /\ \A k \in 1..n : list[k] = plan[k]
  <2>1. list = SubSeq(plan, 1, n)
    BY <1>list DEF Part
  <2>2. 1 \in 1..(Len(plan) + 1) /\ n \in (1 - 1)..Len(plan)
    BY <1>list
  <2>3. /\ SubSeq(plan, 1, n) \in Seq(A)
        /\ Len(SubSeq(plan, 1, n)) = IF 1 <= n THEN n - 1 + 1 ELSE 0
        /\ \A i \in 1..(n - 1 + 1) : SubSeq(plan, 1, n)[i] = plan[1 + i - 1]
    BY <1>list, <2>2, SubSeqProperties
  <2>4. Len(SubSeq(plan, 1, n)) = n
    BY <2>3
  <2>5. DOMAIN SubSeq(plan, 1, n) = 1..n
    BY <2>3, <2>4, LenProperties
  <2> QED BY <2>1, <2>3, <2>5
<1>1. base \in B /\ \A k \in 1..n, b \in B : Step(b, list[k]) \in B
  <2>1. base \in B
    BY <1>list DEF From, Executions
  <2>2. \A k \in 1..n : plan[k] \in A
    OBVIOUS
  <2> HIDE DEF list
  <2> QED BY <1>0, <2>1, <2>2, ExecuteStepType
<1> HIDE DEF list
<1> HIDE DEF base, Step, B
<1>2. F \in [1..n -> [B -> B]]
  BY <1>1
<1>3. PICK it \in [SUBSET (1..n) -> B] : Folds(it, n, base, F)
  <2> HIDE DEF F
  <2> QED BY <1>1, <1>2, FoldExists
<1>4. DOMAIN list = 1..n
  BY <1>0
<1>5. it = [T \in SUBSET DOMAIN list |->
              IF T = {} THEN base ELSE Step(it[T \ {Max(T)}], list[Max(T)])]
  <2>1. ASSUME NEW T \in SUBSET (1..n)
        PROVE  it[T] = IF T = {} THEN base ELSE Step(it[T \ {Max(T)}], list[Max(T)])
    <3>1. CASE T = {}
      BY <1>3, <3>1 DEF Folds
    <3>2. CASE T # {}
      <4>1. Max(T) \in 1..n /\ T \ {Max(T)} \in SUBSET (1..n)
        BY <3>2, MaxOfNumbers
      <4>2. it[T \ {Max(T)}] \in B
        BY <4>1
      <4>3. F[Max(T)][it[T \ {Max(T)}]] = Step(it[T \ {Max(T)}], list[Max(T)])
        BY <4>1, <4>2
      <4>4. it[T] = F[Max(T)][it[T \ {Max(T)}]]
        BY <1>3, <3>2 DEF Folds
      <4> QED BY <3>2, <4>3, <4>4
    <3> QED BY <3>1, <3>2
  <2> QED BY <1>4, <2>1
<1> DEFINE c == Executing(program, game, from, plan, maxActions)
           g == [k \in 0..n |-> c[1..k]]
<1>6. c = [T \in SUBSET DOMAIN list |->
              IF T = {} THEN base ELSE Step(c[T \ {Max(T)}], list[Max(T)])]
  BY <1>5 DEF Executing, list, base, Step
<1> HIDE DEF c
<1>7. \A T \in SUBSET (1..n) :
          c[T] = IF T = {} THEN base ELSE Step(c[T \ {Max(T)}], list[Max(T)])
  BY <1>4, <1>6
<1>8. g[0] = base
  <2>1. 1..0 = {} /\ {} \in SUBSET (1..n) /\ 0 \in 0..n
    OBVIOUS
  <2>2. c[{}] = base
    BY <1>7, <2>1
  <2> QED BY <2>1, <2>2
<1>9. ASSUME NEW k \in 1..n PROVE g[k] = Step(g[k - 1], list[k])
  <2>1. Max(1..k) = k /\ (1..k) \ {k} = 1..(k - 1) /\ 1..k # {} /\ 1..k \in SUBSET (1..n)
    BY MaxOfPrefix
  <2>2. c[1..k] = Step(c[1..(k - 1)], list[k])
    BY <1>7, <2>1
  <2>3. k \in 0..n /\ k - 1 \in 0..n
    OBVIOUS
  <2> QED BY <2>2, <2>3
<1>10. c[DOMAIN list] = g[n]
  BY <1>4
<1> DEFINE T == {k \in 0..n : g[k] \in B}
<1>11. 0..n \subseteq T
  <2> HIDE DEF g
  <2>1. 0 \in T
    BY <1>1, <1>8
  <2>2. ASSUME NEW k \in 1..n, k - 1 \in T PROVE k \in T
    <3>1. g[k - 1] \in B /\ k \in 0..n
      BY <2>2
    <3> QED BY <1>1, <1>9, <3>1
  <2> HIDE DEF T
  <2> QED BY <2>1, <2>2, Induction
<1>12. g \in [0..n -> B]
  <2>1. \A k \in 0..n : g[k] \in B
    BY <1>11
  <2> QED BY <2>1
<1>13. Execute(program, game, from, plan, maxActions) = g[n]
  BY <1>10, ExecuteFact DEF c, list
<1>14. \A k \in 1..n : g[k] = ExecuteStep(program, game, g[k - 1], plan[k])
  BY <1>0, <1>9 DEF Step
<1> HIDE DEF g
<1> USE DEF base, B
<1> QED BY <1>8, <1>12, <1>13, <1>14 DEF IsExecution

-----------------------------------------------------------------------------
(* A certified plan                                                        *)

\* The rollouts of an accepted plan, one after the other.
Rollout(r, program, state, observation, plan, n) ==
    /\ r[0] = [state |-> state, observation |-> observation]
    /\ \A k \in 1..n : r[k] \in SimulateStep(program, plan, r[k - 1], k)

OnlyOne(program, plan, x, k, O) ==
    /\ SimStep(program, plan, {x}, k) = SimulateStep(program, plan, x, k)
    /\ \A y \in SimulateStep(program, plan, x, k) :
         /\ y \in O
         /\ SimulateStep(program, plan, x, k) = {y}
         /\ Predict(program, x.state, plan[k], x.observation) = {y}

\* A deterministic program has at most one rollout of a plan.
LEMMA SimulatesOne ==
    ASSUME NEW program, NEW S, NEW A, Single(program, S, A), NEW first,
           NEW plan, NEW k, plan[k] \in A, NEW x \in Sites(program, S, first)
    PROVE  OnlyOne(program, plan, x, k, Sites(program, S, first))
<1>1. SimStep(program, plan, {x}, k) = SimulateStep(program, plan, x, k)
  BY DEF SimStep
<1>2. x.state \in S
  BY DEF Sites
<1>3. OneOrNone(program, S, x.state, plan[k], x.observation)
  BY <1>2, PredictFact
<1>4. SimulateStep(program, plan, x, k) \subseteq Predict(program, x.state, plan[k], x.observation)
  BY DEF SimulateStep
<1>5. SimStep(program, plan, {x}, k) \in SUBSET Sites(program, S, first)
  BY SimStepType
<1>6. ASSUME NEW y \in SimulateStep(program, plan, x, k)
      PROVE  /\ SimulateStep(program, plan, x, k) = {y}
             /\ Predict(program, x.state, plan[k], x.observation) = {y}
  <2>1. PICK t \in S : Predict(program, x.state, plan[k], x.observation)
                          = {Foreseen(program, t, x.observation)}
    BY <1>3, <1>4, <1>6 DEF OneOrNone
  <2> QED BY <1>4, <1>6, <2>1
<1> QED BY <1>1, <1>5, <1>6 DEF OnlyOne

\* An accepted plan has a rollout, and a rollout of a plan has it accepted.
LEMMA AcceptedRollout ==
    ASSUME NEW program, NEW S, NEW A, Single(program, S, A), NEW n \in Nat,
           NEW plan \in [1..n -> A], NEW first, NEW state \in S,
           NEW observation \in Sights(program, S, first),
           Simulate(program, state, observation, plan) # {}
    PROVE  \E r \in [0..n -> Sites(program, S, first)] :
               Rollout(r, program, state, observation, plan, n)
<1> DEFINE O == Sites(program, S, first)
<1>1. PICK g \in [0..n -> SUBSET O] : IsSim(g, program, state, observation, plan, n)
  BY SimRun
<1>2. /\ g[0] = {[state |-> state, observation |-> observation]}
      /\ \A k \in 1..n : g[k] = SimStep(program, plan, g[k - 1], k)
      /\ g[n] # {}
  BY <1>1 DEF IsSim
<1> DEFINE T == {k \in 0..n : g[n - k] # {}}
<1>3. 0..n \subseteq T
  <2>1. 0 \in T
    BY <1>2
  <2>2. ASSUME NEW k \in 1..n, k - 1 \in T PROVE k \in T
    <3>1. n - (k - 1) \in 1..n /\ n - (k - 1) - 1 = n - k /\ k \in 0..n
      OBVIOUS
    <3>2. g[n - (k - 1)] = SimStep(program, plan, g[n - k], n - (k - 1))
      BY <1>2, <3>1
    <3>3. g[n - (k - 1)] # {}
      BY <2>2
    <3>4. g[n - k] # {}
      BY <3>2, <3>3 DEF SimStep
    <3> QED BY <3>1, <3>4
  <2> HIDE DEF T
  <2> QED BY <2>1, <2>2, Induction
<1>4. \A k \in 0..n : g[k] # {}
  <2>1. ASSUME NEW k \in 0..n PROVE g[k] # {}
    <3>1. n - k \in 0..n /\ n - (n - k) = k
      OBVIOUS
    <3>2. n - k \in T
      BY <1>3, <3>1
    <3> QED BY <3>1, <3>2
  <2> QED BY <2>1
<1> HIDE DEF T, O
<1> DEFINE U == {k \in 0..n : \E x \in O : g[k] = {x}}
<1>5. 0..n \subseteq U
  <2>1. 0 \in U
    <3>1. [state |-> state, observation |-> observation] \in O
      BY DEF O, Sites
    <3> QED BY <1>2, <3>1
  <2>2. ASSUME NEW k \in 1..n, k - 1 \in U PROVE k \in U
    <3>1. PICK x \in O : g[k - 1] = {x}
      BY <2>2
    <3>2. g[k] = SimStep(program, plan, {x}, k) /\ g[k] # {} /\ k \in 0..n
      <4>1. k \in 0..n
        OBVIOUS
      <4>2. g[k] = SimStep(program, plan, g[k - 1], k)
        BY <1>2
      <4> QED BY <1>4, <3>1, <4>1, <4>2
    <3>3. plan[k] \in A
      OBVIOUS
    <3>4. /\ g[k] = SimulateStep(program, plan, x, k)
          /\ \A y \in SimulateStep(program, plan, x, k) :
                y \in O /\ SimulateStep(program, plan, x, k) = {y}
      <4>1. OnlyOne(program, plan, x, k, O)
        BY <3>3, SimulatesOne DEF O
      <4> QED BY <3>2, <4>1 DEF OnlyOne
    <3>5. PICK y \in g[k] : TRUE
      BY <3>2
    <3> QED BY <3>2, <3>4, <3>5
  <2> HIDE DEF U
  <2> QED BY <2>1, <2>2, Induction
<1> DEFINE r == [k \in 0..n |-> CHOOSE x \in O : g[k] = {x}]
<1>6. \A k \in 0..n : r[k] \in O /\ g[k] = {r[k]}
  <2>1. ASSUME NEW k \in 0..n PROVE r[k] \in O /\ g[k] = {r[k]}
    <3>1. \E x \in O : g[k] = {x}
      BY <1>5
    <3> QED BY <3>1
  <2> QED BY <2>1
<1>7. r \in [0..n -> O]
  BY <1>6
<1> HIDE DEF r, U
<1>8. r[0] = [state |-> state, observation |-> observation]
  <2>1. 0 \in 0..n
    OBVIOUS
  <2> QED BY <1>2, <1>6, <2>1
<1>9. ASSUME NEW k \in 1..n PROVE r[k] \in SimulateStep(program, plan, r[k - 1], k)
  <2>1. k \in 0..n /\ k - 1 \in 0..n /\ plan[k] \in A
    OBVIOUS
  <2>2. g[k] = SimStep(program, plan, {r[k - 1]}, k) /\ r[k] \in g[k] /\ r[k - 1] \in O
    BY <1>2, <1>6, <2>1
  <2>3. SimStep(program, plan, {r[k - 1]}, k) = SimulateStep(program, plan, r[k - 1], k)
    <3>1. OnlyOne(program, plan, r[k - 1], k, O)
      BY <2>1, <2>2, SimulatesOne DEF O
    <3> QED BY <3>1 DEF OnlyOne
  <2> QED BY <2>2, <2>3
<1> QED BY <1>7, <1>8, <1>9 DEF Rollout, O

\* Conversely, a plan with a rollout is accepted and ends where the rollout does.
LEMMA RolloutAccepted ==
    ASSUME NEW program, NEW S, NEW A, Single(program, S, A), NEW n \in Nat,
           NEW plan \in [1..n -> A], NEW first, NEW state \in S,
           NEW observation \in Sights(program, S, first),
           NEW r \in [0..n -> Sites(program, S, first)],
           Rollout(r, program, state, observation, plan, n)
    PROVE  Simulate(program, state, observation, plan) = {r[n]}
<1>1. PICK g \in [0..n -> SUBSET Sites(program, S, first)] :
            IsSim(g, program, state, observation, plan, n)
  BY SimRun
<1>2. /\ g[0] = {[state |-> state, observation |-> observation]}
      /\ \A k \in 1..n : g[k] = SimStep(program, plan, g[k - 1], k)
      /\ Simulate(program, state, observation, plan) = g[n]
  BY <1>1 DEF IsSim
<1> DEFINE U == {k \in 0..n : g[k] = {r[k]}}
<1>3. 0..n \subseteq U
  <2>1. 0 \in U
    BY <1>2 DEF Rollout
  <2>2. ASSUME NEW k \in 1..n, k - 1 \in U PROVE k \in U
    <3>1. k \in 0..n /\ k - 1 \in 0..n /\ plan[k] \in A
      OBVIOUS
    <3>2. g[k] = SimStep(program, plan, {r[k - 1]}, k) /\ r[k - 1] \in Sites(program, S, first)
      BY <1>2, <2>2, <3>1
    <3>3. r[k] \in SimulateStep(program, plan, r[k - 1], k)
      BY DEF Rollout
    <3>4. SimStep(program, plan, {r[k - 1]}, k) = {r[k]}
      <4>1. OnlyOne(program, plan, r[k - 1], k, Sites(program, S, first))
        BY <3>1, <3>2, SimulatesOne
      <4> QED BY <3>3, <4>1 DEF OnlyOne
    <3> QED BY <3>1, <3>2, <3>4
  <2> HIDE DEF U
  <2> QED BY <2>1, <2>2, Induction
<1>4. n \in U
  BY <1>3
<1> QED BY <1>2, <1>4

\* What is left of a plan from its place j on.
Rest(plan, j) == SubSeq(plan, j + 1, Len(plan))

IsRest(A, n, plan, j) ==
    /\ Len(plan) = n /\ Len(Rest(plan, j)) = n - j
    /\ Rest(plan, j) \in [1..(n - j) -> A] /\ Rest(plan, j) \in Seq(A)
    /\ \A i \in 1..(n - j) : Rest(plan, j)[i] = plan[j + i]
    /\ j < n => /\ Head(Rest(plan, j)) = plan[j + 1]
                /\ Tail(Rest(plan, j)) = Rest(plan, j + 1)
    /\ (j = 0 => Rest(plan, j) = plan) /\ (j = n => Rest(plan, j) = <<>>)

\* The rest of a plan is a plan.
LEMMA RestFact ==
    ASSUME NEW A, NEW n \in Nat, NEW plan \in [1..n -> A], NEW j \in 0..n
    PROVE  IsRest(A, n, plan, j)
<1>1. plan \in Seq(A) /\ Len(plan) = n
  BY SequenceOf
<1>2. /\ Rest(plan, j) \in Seq(A) /\ Len(Rest(plan, j)) = n - j
      /\ \A i \in 1..(n - j) : Rest(plan, j)[i] = plan[j + i]
  <2> DEFINE m == j + 1
  <2>1. m \in Int /\ n \in Int /\ \A i \in m..n : plan[i] \in A
    OBVIOUS
  <2> HIDE DEF m
  <2>2. /\ SubSeq(plan, m, n) \in Seq(A)
        /\ Len(SubSeq(plan, m, n)) = IF m <= n THEN n - m + 1 ELSE 0
        /\ \A i \in 1..(n - m + 1) : SubSeq(plan, m, n)[i] = plan[m + i - 1]
    BY <2>1, SubSeqProperties
  <2>3. Rest(plan, j) = SubSeq(plan, m, n)
    BY <1>1 DEF Rest, m
  <2>4. n - m + 1 = n - j /\ \A i \in 1..(n - j) : m + i - 1 = j + i
    BY DEF m
  <2>5. (IF m <= n THEN n - m + 1 ELSE 0) = n - j
    BY DEF m
  <2> QED BY <2>2, <2>3, <2>4, <2>5
<1>3. Rest(plan, j) \in [1..(n - j) -> A]
  BY <1>2, LenProperties
<1>4. ASSUME j < n
      PROVE  Head(Rest(plan, j)) = plan[j + 1] /\ Tail(Rest(plan, j)) = Rest(plan, j + 1)
  <2>1. j + 1 \in 1..Len(plan) /\ n \in (j + 1)..Len(plan)
    BY <1>1, <1>4
  <2> QED BY <1>1, <2>1, HeadTailOfSubSeq DEF Rest
<1>5. ASSUME j = 0 PROVE Rest(plan, j) = plan
  <2>1. Len(Rest(plan, j)) = Len(plan) /\ \A i \in 1..Len(plan) : Rest(plan, j)[i] = plan[i]
    BY <1>1, <1>2, <1>5
  <2> HIDE DEF Rest
  <2> QED BY <1>1, <1>2, <2>1, SeqEqual
<1>6. ASSUME j = n PROVE Rest(plan, j) = <<>>
  BY <1>2, <1>6, EmptySeq
<1> QED BY <1>1, <1>2, <1>3, <1>4, <1>5, <1>6 DEF IsRest

\* Cut anywhere, an accepted plan is accepted again and ends in the same place.
LeadsOn(program, r, plan, j, n) ==
    Simulate(program, r[j].state, r[j].observation, Rest(plan, j)) = {r[n]}

\* That is so of every place of the plan.
LEMMA RestAccepted ==
    ASSUME NEW program, NEW S, NEW A, Single(program, S, A), NEW n \in Nat,
           NEW plan \in [1..n -> A], NEW first, NEW state, NEW observation,
           NEW r \in [0..n -> Sites(program, S, first)],
           Rollout(r, program, state, observation, plan, n), NEW j \in 0..n
    PROVE  LeadsOn(program, r, plan, j, n)
<1> DEFINE q == [i \in 0..(n - j) |-> r[j + i]]
           rest == Rest(plan, j)
<1>1. /\ Len(plan) = n /\ Len(rest) = n - j /\ rest \in [1..(n - j) -> A]
      /\ \A i \in 1..(n - j) : rest[i] = plan[j + i]
  <2>1. IsRest(A, n, plan, j)
    BY RestFact
  <2> QED BY <2>1 DEF IsRest
<1> HIDE DEF rest
<1>2. q \in [0..(n - j) -> Sites(program, S, first)] /\ q[0] = r[j] /\ q[n - j] = r[n]
  OBVIOUS
<1>3. r[j] \in Sites(program, S, first)
  OBVIOUS
<1>4. /\ r[j] = [state |-> r[j].state, observation |-> r[j].observation]
      /\ r[j].state \in S /\ r[j].observation \in Sights(program, S, first)
  BY <1>3 DEF Sites
<1>5. ASSUME NEW i \in 1..(n - j) PROVE q[i] \in SimulateStep(program, rest, q[i - 1], i)
  <2>1. q[i] = r[j + i] /\ q[i - 1] = r[j + i - 1] /\ j + i \in 1..n
    OBVIOUS
  <2>2. r[j + i] \in SimulateStep(program, plan, r[j + i - 1], j + i)
    BY <2>1 DEF Rollout
  <2>3. rest[i] = plan[j + i] /\ (i = Len(rest) <=> j + i = Len(plan))
    BY <1>1
  <2>4. i = Len(rest) \/ rest[i + 1] = plan[j + i + 1]
    BY <1>1
  <2> HIDE DEF q
  <2> QED BY <2>1, <2>2, <2>3, <2>4 DEF SimulateStep
<1>6. Rollout(q, program, r[j].state, r[j].observation, rest, n - j)
  BY <1>2, <1>4, <1>5 DEF Rollout
<1> HIDE DEF q
<1>7. n - j \in Nat
  OBVIOUS
<1>8. Simulate(program, r[j].state, r[j].observation, rest) = {q[n - j]}
  BY <1>1, <1>2, <1>4, <1>6, <1>7, RolloutAccepted
<1> QED BY <1>2, <1>8 DEF rest, LeadsOn

\* An execution without a surprise follows the rollouts.
Follows(e, r, plan, j, k) ==
    /\ ~e.stopped => j = k
    /\ e.remaining = Rest(plan, j)
    /\ e.state = r[j].state /\ e.observation = r[j].observation
    /\ e.stopped => j >= 1 /\ r[j].observation.status \in {"WIN", "GAME_OVER"}

Along(e, r, plan, k) ==
    /\ e.diverged => e.stopped
    /\ ~e.diverged => ~e.raised /\ \E j \in 0..k : Follows(e, r, plan, j, k)

\* An action without a surprise leaves the execution on the rollouts.
LEMMA StaysAlong ==
    ASSUME NEW program, NEW game, NEW S, NEW A, Single(program, S, A),
           NEW n \in Nat, NEW plan \in [1..n -> A], NEW first, NEW state, NEW observation,
           NEW r \in [0..n -> Sites(program, S, first)],
           Rollout(r, program, state, observation, plan, n),
           NEW k \in 1..n, NEW b, Along(b, r, plan, k - 1)
    PROVE  Along(ExecuteStep(program, game, b, plan[k]), r, plan, k)
<1> DEFINE predicted == Predict(program, b.state, plan[k], b.observation)
           played == Play(game, b.at, plan[k])
           match == \E p \in predicted : p.observation = played.observation
           e == ExecuteStep(program, game, b, plan[k])
<1>1. ASSUME b.stopped PROVE Along(e, r, plan, k)
  <2>1. e = b
    BY <1>1 DEF ExecuteStep
  <2>2. ASSUME ~b.diverged PROVE \E j \in 0..k : Follows(b, r, plan, j, k)
    <3>1. PICK j \in 0..(k - 1) : Follows(b, r, plan, j, k - 1)
      BY <2>2 DEF Along
    <3>2. j \in 0..k
      OBVIOUS
    <3>3. Follows(b, r, plan, j, k)
      BY <1>1, <3>1 DEF Follows
    <3> QED BY <3>2, <3>3
  <2> HIDE DEF e
  <2> QED BY <2>1, <2>2 DEF Along
<1>2. ASSUME ~b.stopped PROVE Along(e, r, plan, k)
  <2>1. ~b.diverged
    BY <1>2 DEF Along
  <2>2. PICK j \in 0..(k - 1) : Follows(b, r, plan, j, k - 1)
    BY <2>1 DEF Along
  <2>3. /\ j = k - 1 /\ b.remaining = Rest(plan, k - 1)
        /\ b.state = r[k - 1].state /\ b.observation = r[k - 1].observation
    BY <1>2, <2>2 DEF Follows
  <2>4. predicted = {r[k]}
    <3>1. r[k - 1] \in Sites(program, S, first) /\ plan[k] \in A
      OBVIOUS
    <3>2. OnlyOne(program, plan, r[k - 1], k, Sites(program, S, first))
      BY <3>1, SimulatesOne
    <3>3. r[k] \in SimulateStep(program, plan, r[k - 1], k)
      BY DEF Rollout
    <3>4. Predict(program, r[k - 1].state, plan[k], r[k - 1].observation) = {r[k]}
      BY <3>2, <3>3 DEF OnlyOne
    <3> QED BY <2>3, <3>4
  <2>5. One(predicted) = r[k]
    BY <2>4 DEF One
  <2>6. match <=> r[k].observation = played.observation
    BY <2>4
  <2>7. Tail(b.remaining) = Rest(plan, k)
    <3>1. k - 1 \in 0..n /\ k - 1 < n /\ k - 1 + 1 = k
      OBVIOUS
    <3>2. IsRest(A, n, plan, k - 1)
      BY <3>1, RestFact
    <3> QED BY <2>3, <3>1, <3>2 DEF IsRest
  <2> DEFINE next == IF match THEN One(predicted).state ELSE b.state
             end == ~match \/ played.observation.status \in {"WIN", "GAME_OVER"}
  <2>8. e = [at |-> played.at, observation |-> played.observation, raised |-> FALSE,
             state |-> next, remaining |-> Tail(b.remaining), diverged |-> ~match,
             stopped |-> end]
    BY <1>2, <2>4 DEF ExecuteStep
  <2>9. /\ e.diverged = ~match /\ e.stopped = end /\ e.raised = FALSE
        /\ e.remaining = Rest(plan, k) /\ e.observation = played.observation
        /\ e.state = next
    <3> HIDE DEF e, next, end, match, played
    <3> QED BY <2>7, <2>8
  <2>10. ASSUME match PROVE Follows(e, r, plan, k, k)
    <3>1. e.observation = r[k].observation /\ e.state = r[k].state
      BY <2>5, <2>6, <2>9, <2>10
    <3>2. e.stopped => r[k].observation.status \in {"WIN", "GAME_OVER"}
      BY <2>6, <2>9, <2>10
    <3> HIDE DEF e
    <3> QED BY <2>9, <3>1, <3>2 DEF Follows
  <2>11. k \in 0..k
    OBVIOUS
  <2>12. ~match => end
    OBVIOUS
  <2> HIDE DEF e, end, match, next, played
  <2> QED BY <2>9, <2>10, <2>11, <2>12 DEF Along
<1> QED BY <1>1, <1>2

\* So does any number of them, as long as nothing ends the execution.
LEMMA ExecutionAlong ==
    ASSUME NEW program, NEW game, NEW S, NEW A, Single(program, S, A), NEW O,
           NEW n \in Nat, NEW plan \in [1..n -> A], NEW first, NEW from, NEW maxActions,
           NEW r \in [0..n -> Sites(program, S, first)],
           Rollout(r, program, from.state, from.observation, plan, n),
           NEW g \in [0..n -> Executions(S, A, O)],
           IsExecution(g, program, game, from, plan, maxActions, n)
    PROVE  \A k \in 0..n : Along(g[k], r, plan, k)
<1> DEFINE T == {k \in 0..n : Along(g[k], r, plan, k)}
<1>1. 0 \in T
  <2>1. g[0] = From(from, plan)
    BY DEF IsExecution
  <2>2. /\ ~g[0].diverged /\ ~g[0].stopped /\ ~g[0].raised /\ g[0].remaining = plan
        /\ g[0].state = from.state /\ g[0].observation = from.observation
    BY <2>1 DEF From
  <2>3. r[0].state = from.state /\ r[0].observation = from.observation
    BY DEF Rollout
  <2>4. Rest(plan, 0) = plan
    <3>1. 0 \in 0..n
      OBVIOUS
    <3>2. IsRest(A, n, plan, 0)
      BY <3>1, RestFact
    <3> QED BY <3>2 DEF IsRest
  <2>5. Follows(g[0], r, plan, 0, 0)
    BY <2>2, <2>3, <2>4 DEF Follows
  <2>6. 0 \in 0..0 /\ 0 \in 0..n
    OBVIOUS
  <2> QED BY <2>2, <2>5, <2>6 DEF Along
<1>2. ASSUME NEW k \in 1..n, k - 1 \in T PROVE k \in T
  <2>1. k \in 0..n /\ k - 1 \in 0..n /\ Along(g[k - 1], r, plan, k - 1)
    BY <1>2
  <2>2. g[k] = ExecuteStep(program, game, g[k - 1], plan[k])
    BY DEF IsExecution
  <2>3. Along(ExecuteStep(program, game, g[k - 1], plan[k]), r, plan, k)
    <3> DEFINE b == g[k - 1]
    <3>1. Along(b, r, plan, k - 1)
      BY <2>1
    <3> HIDE DEF b
    <3>2. Along(ExecuteStep(program, game, b, plan[k]), r, plan, k)
      <4> DEFINE state == from.state
                 observation == from.observation
      <4>1. Rollout(r, program, state, observation, plan, n)
        OBVIOUS
      <4> HIDE DEF state, observation
      <4> QED BY <3>1, <4>1, StaysAlong
    <3> QED BY <3>2 DEF b
  <2> QED BY <2>1, <2>2, <2>3
<1> HIDE DEF T
<1>3. 0..n \subseteq T
  BY <1>1, <1>2, Induction
<1> QED BY <1>3 DEF T

\* Executions of one plan agree as far as they go.
LEMMA ExecutionPrefix ==
    ASSUME NEW program, NEW game, NEW from, NEW plan, NEW m, NEW l, NEW n \in Nat,
           NEW k \in 0..n, NEW g, NEW h,
           IsExecution(g, program, game, from, plan, m, n),
           IsExecution(h, program, game, from, plan, l, k)
    PROVE  g[k] = h[k]
<1> DEFINE T == {i \in 0..k : g[i] = h[i]}
<1>1. 0 \in T
  BY DEF IsExecution
<1>2. ASSUME NEW i \in 1..k, i - 1 \in T PROVE i \in T
  <2>1. i \in 1..n /\ i \in 0..k /\ g[i - 1] = h[i - 1]
    BY <1>2
  <2>2. g[i] = ExecuteStep(program, game, g[i - 1], plan[i])
    BY <2>1 DEF IsExecution
  <2>3. h[i] = ExecuteStep(program, game, h[i - 1], plan[i])
    BY DEF IsExecution
  <2> QED BY <2>1, <2>2, <2>3
<1> HIDE DEF T
<1>3. k \in Nat
  OBVIOUS
<1>4. 0..k \subseteq T
  BY <1>1, <1>2, <1>3, Induction
<1> QED BY <1>4 DEF T

\* Nothing has ended the execution after k actions.
Live(e, plan, k) == ~e.diverged /\ ~e.stopped /\ ~e.raised /\ e.remaining = Rest(plan, k)

SameEnd(h, g, k, n) == h[n - k] = g[n]

Continues(h, program, game, g, plan, l, k, n) ==
    IsExecution(h, program, game, g[k], Rest(plan, k), l, n - k)

\* The execution of the rest goes on where the first part ended.
LEMMA ExecutionGoesOn ==
    ASSUME NEW program, NEW game, NEW S, NEW A, NEW O,
           NEW n \in Nat, NEW plan \in [1..n -> A], NEW from, NEW m, NEW l, NEW k \in 0..n,
           NEW g \in [0..n -> Executions(S, A, O)], NEW h,
           IsExecution(g, program, game, from, plan, m, n),
           Live(g[k], plan, k),
           Continues(h, program, game, g, plan, l, k, n)
    PROVE  SameEnd(h, g, k, n)
<1> DEFINE T == {i \in 0..(n - k) : h[i] = g[k + i]}
<1>1. 0 \in T
  <2>1. g[k] \in Executions(S, A, O)
    OBVIOUS
  <2>2. h[0] = From(g[k], Rest(plan, k))
    BY DEF IsExecution, Continues
  <2>3. From(g[k], g[k].remaining) = g[k]
    <3> DEFINE e == g[k]
    <3>1. e \in Executions(S, A, O) /\ e.diverged = FALSE /\ e.stopped = FALSE /\ e.raised = FALSE
      BY <2>1 DEF Executions, Live
    <3> HIDE DEF e
    <3>2. From(e, e.remaining) = e
      BY <3>1 DEF Executions, From
    <3> QED BY <3>2 DEF e
  <2>4. 0 \in 0..(n - k) /\ k + 0 = k
    OBVIOUS
  <2> QED BY <2>2, <2>3, <2>4 DEF Live
<1>2. ASSUME NEW i \in 1..(n - k), i - 1 \in T PROVE i \in T
  <2>1. k + i \in 1..n /\ i \in 0..(n - k) /\ k + (i - 1) = k + i - 1
    OBVIOUS
  <2>2. h[i - 1] = g[k + i - 1]
    BY <1>2, <2>1
  <2>3. h[i] = ExecuteStep(program, game, h[i - 1], Rest(plan, k)[i])
    BY DEF IsExecution, Continues
  <2>4. g[k + i] = ExecuteStep(program, game, g[k + i - 1], plan[k + i])
    BY <2>1 DEF IsExecution
  <2>5. Rest(plan, k)[i] = plan[k + i]
    <3>1. IsRest(A, n, plan, k)
      BY RestFact
    <3> QED BY <3>1 DEF IsRest
  <2> QED BY <2>1, <2>2, <2>3, <2>4, <2>5
<1> HIDE DEF T
<1>3. n - k \in Nat
  OBVIOUS
<1>4. 0..(n - k) \subseteq T
  BY <1>1, <1>2, <1>3, Induction
<1>5. n - k \in T /\ k + (n - k) = n
  BY <1>3, <1>4
<1> QED BY <1>5 DEF T, SameEnd

\* Whatever the program, the game, the plan and the place it starts from.
Stays(program, game, from, plan, k, limit) ==
    LET ahead == Simulate(program, from.state, from.observation, plan)
        e     == Execute(program, game, from, plan, k)
    IN  ~e.diverged =>
            /\ ~e.raised
            /\ Simulate(program, e.state, e.observation, e.remaining) = ahead
            /\ ~e.stopped =>
                 Execute(program, game, e, e.remaining, limit)
                     = Execute(program, game, from, plan, limit)
            /\ e.stopped /\ e.remaining # <<>> => Head(e.remaining) = Reset

\* A plan that was simulated, cut after any number of actions without a surprise, is accepted
\* again, ends in the same place, and is executed in parts as at once (simulate.py:29,
\* interactive.py:482).
THEOREM PlanStays ==
    ASSUME NEW program, NEW game, NEW S, NEW A, Single(program, S, A), Certain(game, S, A),
           NEW n \in Nat, NEW plan \in [1..n -> A], NEW first,
           NEW from, from.at \in S, from.state \in S,
           from.observation \in Sights(program, S, first),
           Simulate(program, from.state, from.observation, plan) # {},
           NEW limit \in Nat, n <= limit, NEW k \in 0..n
    PROVE  Stays(program, game, from, plan, k, limit)
<1> DEFINE O == Sights(game, S, Unseen) \cup {from.observation}
           Q == Sites(program, S, first)
           ahead == Simulate(program, from.state, from.observation, plan)
           e == Execute(program, game, from, plan, k)
           whole == Execute(program, game, from, plan, limit)
<1>1. Sights(game, S, Unseen) \subseteq O /\ from.observation \in O
  OBVIOUS
<1> HIDE DEF O
<1> DEFINE state == from.state
           observation == from.observation
<1>0. /\ state \in S /\ observation \in Sights(program, S, first)
      /\ ahead = Simulate(program, state, observation, plan) /\ ahead # {}
  OBVIOUS
<1>2. PICK r \in [0..n -> Q] : Rollout(r, program, from.state, from.observation, plan, n)
  BY AcceptedRollout
<1>rolls. Rollout(r, program, state, observation, plan, n)
  BY <1>2
<1> HIDE DEF state, observation
<1>3. n = IF limit < n THEN limit ELSE n
  OBVIOUS
<1>4. PICK g \in [0..n -> Executions(S, A, O)] :
            IsExecution(g, program, game, from, plan, limit, n)
  BY <1>1, <1>3, ExecuteRun
<1>5. k \in Nat /\ k = IF k < n THEN k ELSE n
  OBVIOUS
<1>6. PICK h \in [0..k -> Executions(S, A, O)] :
            IsExecution(h, program, game, from, plan, k, k)
  BY <1>1, <1>5, ExecuteRun
<1>7. g[k] = h[k]
  BY <1>4, <1>6, ExecutionPrefix
<1>8. e = g[k] /\ whole = g[n] /\ e \in Executions(S, A, O)
  <2>1. e = h[k] /\ whole = g[n]
    BY <1>4, <1>6 DEF IsExecution
  <2> QED BY <1>7, <2>1
<1>9. ahead = {r[n]}
  <2>1. Simulate(program, state, observation, plan) = {r[n]}
    BY <1>0, <1>rolls, RolloutAccepted
  <2> QED BY <1>0, <2>1
<1>10. Along(e, r, plan, k)
  <2>1. \A i \in 0..n : Along(g[i], r, plan, i)
    BY <1>2, <1>4, ExecutionAlong
  <2> QED BY <1>8, <2>1
<1> HIDE DEF e, whole, ahead
<1>11. SUFFICES ASSUME ~e.diverged
               PROVE  /\ ~e.raised
                      /\ Simulate(program, e.state, e.observation, e.remaining) = ahead
                      /\ ~e.stopped => Execute(program, game, e, e.remaining, limit) = whole
                      /\ e.stopped /\ e.remaining # <<>> => Head(e.remaining) = Reset
  BY DEF Stays, e, whole, ahead
<1>12. ~e.raised
  BY <1>10, <1>11 DEF Along
<1>13. PICK j \in 0..k : Follows(e, r, plan, j, k)
  BY <1>10, <1>11 DEF Along
<1>14. j \in 0..n
  OBVIOUS
<1>15. Simulate(program, e.state, e.observation, e.remaining) = ahead
  <2>1. LeadsOn(program, r, plan, j, n)
    BY <1>rolls, <1>14, RestAccepted
  <2> QED BY <1>9, <1>13, <2>1 DEF Follows, LeadsOn
<1>16. IsRest(A, n, plan, j)
  BY <1>14, RestFact
<1>17. ASSUME ~e.stopped PROVE Execute(program, game, e, e.remaining, limit) = whole
  <2>1. j = k /\ e.remaining = Rest(plan, k)
    BY <1>13, <1>17 DEF Follows
  <2>2. Rest(plan, k) \in [1..(n - k) -> A]
    BY <1>16, <2>1 DEF IsRest
  <2>3. n - k \in Nat /\ n - k = IF limit < n - k THEN limit ELSE n - k
    OBVIOUS
  <2>4. e.at \in S /\ e.state \in S /\ e.observation \in O
    BY <1>8 DEF Executions
  <2> DEFINE m == n - k
             rest == Rest(plan, k)
  <2>5. m \in Nat /\ rest \in [1..m -> A] /\ m = IF limit < m THEN limit ELSE m
    BY <2>2, <2>3
  <2> HIDE DEF m, rest
  <2>6. PICK f \in [0..m -> Executions(S, A, O)] :
              IsExecution(f, program, game, e, rest, limit, m)
    BY <1>1, <2>4, <2>5, ExecuteRun
  <2>7. f[m] = g[n]
    <3>1. Continues(f, program, game, g, plan, limit, k, n)
      BY <1>8, <2>6 DEF m, rest, Continues
    <3>2. Live(g[k], plan, k)
      BY <1>8, <1>11, <1>12, <1>17, <2>1 DEF Live
    <3>3. IsExecution(g, program, game, from, plan, limit, n)
      BY <1>4
    <3>4. SameEnd(f, g, k, n)
      BY <3>1, <3>2, <3>3, ExecutionGoesOn
    <3> QED BY <3>4 DEF m, SameEnd
  <2>8. Execute(program, game, e, rest, limit) = f[m]
    BY <2>6 DEF IsExecution
  <2> QED BY <1>8, <2>1, <2>7, <2>8 DEF rest
<1>18. ASSUME e.stopped, e.remaining # <<>> PROVE Head(e.remaining) = Reset
  <2>1. /\ e.remaining = Rest(plan, j) /\ j >= 1
        /\ r[j].observation.status \in {"WIN", "GAME_OVER"}
    BY <1>13, <1>18 DEF Follows
  <2>2. j < n /\ Head(Rest(plan, j)) = plan[j + 1] /\ Len(plan) = n
    BY <1>14, <1>16, <1>18, <2>1 DEF IsRest
  <2>3. j \in 1..n
    BY <1>14, <2>1
  <2>4. r[j] \in SimulateStep(program, plan, r[j - 1], j)
    BY <1>2, <2>3 DEF Rollout
  <2>5. /\ r[j].observation.status = "WIN" => j = Len(plan)
        /\ r[j].observation.status = "GAME_OVER" => j = Len(plan) \/ plan[j + 1] = Reset
    BY <2>4 DEF SimulateStep
  <2> QED BY <2>1, <2>2, <2>5
<1> QED BY <1>12, <1>15, <1>17, <1>18

\* Plans of any length, for any number of edits of the program and of the game: a plan that
\* was simulated stays certified while it is executed without a surprise (simulate.py:29,
\* interactive.py:482).
THEOREM CertifiedPlanHolds == Spec => []CertifiedPlanStays
<1>1. ProgramInv => CertifiedPlanStays
  <2>1. SUFFICES ASSUME case \in ProgramCases PROVE CertifiedPlanStays
    BY DEF ProgramInv, CertifiedPlanStays
  <2> DEFINE A == ToSet(Acts)
             first == FirstSeen(case.game)
             from == [at |-> 0, state |-> 0, observation |-> first]
             plan == case.plan
             n == Len(plan)
             ahead == Simulate(case.program, 0, first, plan)
  <2>2. case.program \in ProgramSet /\ case.game \in GameSet /\ plan \in Plans
    BY <2>1 DEF ProgramCases
  <2>3. n \in Nat /\ plan \in [1..n -> A] /\ n <= MaxPlan /\ MaxPlan \in Nat
    <3>1. plan \in Seq(A) /\ Len(plan) <= MaxPlan
      BY <2>2 DEF Plans
    <3> QED BY <3>1, LenProperties, BoundsAssumption
  <2>4. /\ Single(case.program, States, A)
        /\ Certain(case.game, States, A)
        /\ 0 \in States
        /\ first \in Sights(case.program, States, first)
    BY <2>2, ProgramFacts
  <2>5. from.at = 0 /\ from.state = 0 /\ from.observation = first
    OBVIOUS
  <2> HIDE DEF A, n, first, from, plan
  <2>6. ASSUME ahead # {}, NEW k \in 1..n
        PROVE  Stays(case.program, case.game, from, plan, k, MaxPlan)
    <3>1. k \in 0..n
      OBVIOUS
    <3>2. Simulate(case.program, from.state, from.observation, plan) # {}
      BY <2>5, <2>6
    <3>3. from.at \in States /\ from.state \in States
          /\ from.observation \in Sights(case.program, States, first)
      BY <2>4, <2>5
    <3> HIDE DEF ahead
    <3> DEFINE program == case.program
               game == case.game
    <3>4. /\ Single(program, States, A) /\ Certain(game, States, A)
          /\ Simulate(program, from.state, from.observation, plan) # {}
          /\ from.observation \in Sights(program, States, first)
      BY <2>4, <3>2, <3>3
    <3> HIDE DEF program, game
    <3>5. Stays(program, game, from, plan, k, MaxPlan)
      BY <2>3, <3>1, <3>3, <3>4, PlanStays
    <3> QED BY <3>5 DEF program, game
  <2> DEFINE e(k) == Execute(case.program, case.game, from, plan, k)
  <2>7. ASSUME ahead # {}, NEW k \in 1..n
        PROVE  ~e(k).diverged =>
                 /\ ~e(k).raised
                 /\ ahead = Simulate(case.program, e(k).state, e(k).observation, e(k).remaining)
                 /\ ~e(k).stopped =>
                      Execute(case.program, case.game, e(k), e(k).remaining, MaxPlan)
                        = Execute(case.program, case.game, from, plan, MaxPlan)
                 /\ e(k).stopped /\ e(k).remaining # <<>> => Head(e(k).remaining) = Reset
    BY <2>5, <2>6, <2>7 DEF Stays
  <2> QED BY <2>7 DEF CertifiedPlanStays, from, plan, first, n
<1> QED BY <1>1, ProgramInvInductive, AlwaysShaped, PTL DEF Spec

-----------------------------------------------------------------------------
(* The states a program walks through                                      *)

Successors(program, W, a) == UNION {program.step[<<s, a>>] : s \in W}

Walk(program, path) ==
    FoldLeft(LAMBDA W, a : UNION {program.step[<<s, a>>] : s \in W}, {0}, path)

\* The function behind a walk.
Walking(program, path) ==
    CHOOSE it : it = [T \in SUBSET DOMAIN path |->
        IF T = {} THEN {0} ELSE Successors(program, it[T \ {Max(T)}], path[Max(T)])]

\* The walk in the words of these definitions.
LEMMA WalkFact ==
    ASSUME NEW program, NEW path
    PROVE  Walk(program, path) = Walking(program, path)[DOMAIN path]
BY DEF Walk, Walking, Successors, FoldLeft, MapThenFoldSet

\* An action leads from states to states.
LEMMA SuccessorsType ==
    ASSUME NEW program, NEW S, NEW A, Single(program, S, A), NEW W \in SUBSET S, NEW a \in A
    PROVE  Successors(program, W, a) \in SUBSET S
<1>1. \A s \in W : program.step[<<s, a>>] \subseteq S
  BY DEF Single
<1> QED BY <1>1 DEF Successors

IsWalk(g, program, path, n) ==
    /\ g[0] = {0}
    /\ \A k \in 1..n : g[k] = Successors(program, g[k - 1], path[k])
    /\ Walk(program, path) = g[n]

\* A walk takes one action after the other.
LEMMA WalkRun ==
    ASSUME NEW program, NEW S, NEW A, Single(program, S, A), 0 \in S, NEW n \in Nat,
           NEW path \in [1..n -> A]
    PROVE  \E g \in [0..n -> SUBSET S] : IsWalk(g, program, path, n)
<1> DEFINE base == {0}
           Step(b, t) == Successors(program, b, t)
           B == SUBSET S
           list == path
           F == [k \in 1..n |-> [b \in B |-> Step(b, list[k])]]
<1>1. base \in B /\ \A k \in 1..n, b \in B : Step(b, list[k]) \in B
  <2>1. \A k \in 1..n : path[k] \in A
    OBVIOUS
  <2> QED BY <2>1, SuccessorsType
<1>4. DOMAIN list = 1..n
  OBVIOUS
<1> HIDE DEF base, Step, B, list
<1>2. F \in [1..n -> [B -> B]]
  BY <1>1
<1>3. PICK it \in [SUBSET (1..n) -> B] : Folds(it, n, base, F)
  <2> HIDE DEF F
  <2> QED BY <1>1, <1>2, FoldExists
<1>5. it = [T \in SUBSET DOMAIN list |->
              IF T = {} THEN base ELSE Step(it[T \ {Max(T)}], list[Max(T)])]
  <2>1. ASSUME NEW T \in SUBSET (1..n)
        PROVE  it[T] = IF T = {} THEN base ELSE Step(it[T \ {Max(T)}], list[Max(T)])
    <3>1. CASE T = {}
      BY <1>3, <3>1 DEF Folds
    <3>2. CASE T # {}
      <4>1. Max(T) \in 1..n /\ T \ {Max(T)} \in SUBSET (1..n)
        BY <3>2, MaxOfNumbers
      <4>2. it[T \ {Max(T)}] \in B
        BY <4>1
      <4>3. F[Max(T)][it[T \ {Max(T)}]] = Step(it[T \ {Max(T)}], list[Max(T)])
        BY <4>1, <4>2
      <4>4. it[T] = F[Max(T)][it[T \ {Max(T)}]]
        BY <1>3, <3>2 DEF Folds
      <4> QED BY <3>2, <4>3, <4>4
    <3> QED BY <3>1, <3>2
  <2> QED BY <1>4, <2>1
<1> DEFINE c == Walking(program, path)
           g == [k \in 0..n |-> c[1..k]]
<1>6. c = [T \in SUBSET DOMAIN list |->
              IF T = {} THEN base ELSE Step(c[T \ {Max(T)}], list[Max(T)])]
  BY <1>5 DEF Walking, list, base, Step
<1> HIDE DEF c
<1>7. \A T \in SUBSET (1..n) :
          c[T] = IF T = {} THEN base ELSE Step(c[T \ {Max(T)}], list[Max(T)])
  BY <1>4, <1>6
<1>8. g[0] = base
  <2>1. 1..0 = {} /\ {} \in SUBSET (1..n) /\ 0 \in 0..n
    OBVIOUS
  <2>2. c[{}] = base
    BY <1>7, <2>1
  <2> QED BY <2>1, <2>2
<1>9. ASSUME NEW k \in 1..n PROVE g[k] = Step(g[k - 1], list[k])
  <2>1. Max(1..k) = k /\ (1..k) \ {k} = 1..(k - 1) /\ 1..k # {} /\ 1..k \in SUBSET (1..n)
    BY MaxOfPrefix
  <2>2. c[1..k] = Step(c[1..(k - 1)], list[k])
    BY <1>7, <2>1
  <2>3. k \in 0..n /\ k - 1 \in 0..n
    OBVIOUS
  <2> QED BY <2>2, <2>3
<1>10. c[DOMAIN list] = g[n]
  BY <1>4
<1> DEFINE T == {k \in 0..n : g[k] \in B}
<1>11. 0..n \subseteq T
  <2> HIDE DEF g
  <2>1. 0 \in T
    BY <1>1, <1>8
  <2>2. ASSUME NEW k \in 1..n, k - 1 \in T PROVE k \in T
    <3>1. g[k - 1] \in B /\ k \in 0..n
      BY <2>2
    <3> QED BY <1>1, <1>9, <3>1
  <2> HIDE DEF T
  <2> QED BY <2>1, <2>2, Induction
<1>12. g \in [0..n -> B]
  <2>1. \A k \in 0..n : g[k] \in B
    BY <1>11
  <2> QED BY <2>1
<1>13. Walk(program, path) = g[n]
  BY <1>10, WalkFact DEF c, list
<1>14. \A k \in 1..n : g[k] = Successors(program, g[k - 1], path[k])
  BY <1>9 DEF Step, list
<1> HIDE DEF g
<1> USE DEF base, B
<1> QED BY <1>8, <1>12, <1>13, <1>14 DEF IsWalk

\* One more action leads one step further.
GoesOn(program, p, q, n) == Walk(program, q) = Successors(program, Walk(program, p), q[n + 1])

\* Appended to a path, an action leads from where the path ends.
LEMMA WalkGoesOn ==
    ASSUME NEW program, NEW S, NEW A, Single(program, S, A), 0 \in S, NEW n \in Nat,
           NEW p \in [1..n -> A], NEW q \in [1..(n + 1) -> A], \A i \in 1..n : q[i] = p[i]
    PROVE  /\ GoesOn(program, p, q, n)
           /\ Walk(program, p) \in SUBSET S
<1>1. PICK g \in [0..n -> SUBSET S] : IsWalk(g, program, p, n)
  BY WalkRun
<1>2. PICK h \in [0..(n + 1) -> SUBSET S] : IsWalk(h, program, q, n + 1)
  <2> DEFINE m == n + 1
  <2>1. m \in Nat /\ q \in [1..m -> A]
    OBVIOUS
  <2> HIDE DEF m
  <2>2. \E h \in [0..m -> SUBSET S] : IsWalk(h, program, q, m)
    BY <2>1, WalkRun
  <2> QED BY <2>2 DEF m
<1> DEFINE T == {k \in 0..n : g[k] = h[k]}
<1>3. 0 \in T
  <2>1. g[0] = {0} /\ h[0] = {0} /\ 0 \in 0..n
    BY <1>1, <1>2 DEF IsWalk
  <2> QED BY <2>1
<1>4. ASSUME NEW k \in 1..n, k - 1 \in T PROVE k \in T
  <2>1. k \in 0..n /\ k \in 1..(n + 1) /\ g[k - 1] = h[k - 1] /\ q[k] = p[k]
    BY <1>4
  <2>2. g[k] = Successors(program, g[k - 1], p[k])
    BY <1>1 DEF IsWalk
  <2>3. h[k] = Successors(program, h[k - 1], q[k])
    BY <1>2, <2>1 DEF IsWalk
  <2> QED BY <2>1, <2>2, <2>3
<1> HIDE DEF T
<1>5. 0..n \subseteq T
  BY <1>3, <1>4, Induction
<1>6. g[n] = h[n]
  BY <1>5 DEF T
<1>7. h[n + 1] = Successors(program, h[n], q[n + 1])
  <2>1. n + 1 \in 1..(n + 1) /\ n + 1 - 1 = n
    OBVIOUS
  <2> QED BY <1>2, <2>1 DEF IsWalk
<1>8. Walk(program, p) = g[n] /\ Walk(program, q) = h[n + 1]
  BY <1>1, <1>2 DEF IsWalk
<1>9. g[n] \in SUBSET S
  OBVIOUS
<1> QED BY <1>6, <1>7, <1>8, <1>9 DEF GoesOn

\* What n actions can lead to.
Layer(program, A, n) == UNION {Walk(program, path) : path \in [1..n -> A]}

Layered(program, A) ==
    /\ \A s \in Layer(program, A, 0) : s = 0
    /\ \A n \in Nat : \A t \in Layer(program, A, n + 1) :
         \E s \in Layer(program, A, n), a \in A : t \in program.step[<<s, a>>]

\* A layer is what one action makes of the layer before.
LEMMA LayerFact ==
    ASSUME NEW program, NEW S, NEW A, Single(program, S, A), 0 \in S
    PROVE  Layered(program, A)
<1>1. ASSUME NEW s \in Layer(program, A, 0) PROVE s = 0
  <2>1. PICK path \in [1..0 -> A] : s \in Walk(program, path)
    BY DEF Layer
  <2> DEFINE n == 0
  <2>2. n \in Nat /\ path \in [1..n -> A]
    OBVIOUS
  <2> HIDE DEF n
  <2>3. \E g \in [0..n -> SUBSET S] : IsWalk(g, program, path, n)
    BY <2>2, WalkRun
  <2>4. Walk(program, path) = {0}
    BY <2>3 DEF IsWalk, n
  <2> QED BY <2>1, <2>4
<1>2. ASSUME NEW n \in Nat, NEW t \in Layer(program, A, n + 1)
      PROVE  \E s \in Layer(program, A, n), a \in A : t \in program.step[<<s, a>>]
  <2>1. PICK q \in [1..(n + 1) -> A] : t \in Walk(program, q)
    BY DEF Layer
  <2> DEFINE p == [i \in 1..n |-> q[i]]
  <2>2. p \in [1..n -> A] /\ \A i \in 1..n : q[i] = p[i]
    OBVIOUS
  <2> HIDE DEF p
  <2>3. GoesOn(program, p, q, n)
    BY <2>2, WalkGoesOn
  <2>4. PICK s \in Walk(program, p) : t \in program.step[<<s, q[n + 1]>>]
    BY <2>1, <2>3 DEF GoesOn, Successors
  <2>5. s \in Layer(program, A, n) /\ q[n + 1] \in A
    BY <2>2, <2>4 DEF Layer
  <2> QED BY <2>4, <2>5
<1> QED BY <1>1, <1>2 DEF Layered

\* A layer is made of states.
LEMMA LayerType ==
    ASSUME NEW program, NEW S, NEW A, Single(program, S, A), 0 \in S, NEW n \in Nat
    PROVE  Layer(program, A, n) \subseteq S
<1>1. ASSUME NEW path \in [1..n -> A] PROVE Walk(program, path) \subseteq S
  <2>1. PICK g \in [0..n -> SUBSET S] : IsWalk(g, program, path, n)
    BY WalkRun
  <2> QED BY <2>1 DEF IsWalk
<1> QED BY <1>1 DEF Layer

\* Reaches in the words of these definitions.
LEMMA ReachesFact ==
    ASSUME NEW program, NEW d, NEW answers
    PROVE  Reaches(program, d, answers) <=>
             \E n \in 0..d : \E s \in Layer(program, ToSet(Acts), n) :
                 program.goal[s] \in answers
BY DEF Reaches, Layer, Walk

-----------------------------------------------------------------------------
(* The new states one action away                                          *)

Discovers(program, state, path, acc, a) ==
    IF program.step[<<state, a>>] \subseteq acc.seen THEN acc
    ELSE [queue |-> Append(acc.queue, [state |-> One(program.step[<<state, a>>]),
                                       path |-> Append(path, a)]),
          seen |-> acc.seen \cup program.step[<<state, a>>]]

\* The function behind a discovery.
Discovering(program, actions, state, path, queue, seen) ==
    CHOOSE it : it = [T \in SUBSET DOMAIN actions |->
        IF T = {} THEN [queue |-> queue, seen |-> seen]
        ELSE Discovers(program, state, path, it[T \ {Max(T)}], actions[Max(T)])]

\* Discover in the words of these definitions.
LEMMA DiscoverFact ==
    ASSUME NEW program, NEW actions, NEW state, NEW path, NEW queue, NEW seen
    PROVE  Discover(program, actions, state, path, queue, seen) =
             Discovering(program, actions, state, path, queue, seen)[DOMAIN actions]
BY DEF Discover, Discovering, Discovers, FoldLeft, MapThenFoldSet

Ways(S, A)  == [state : S, path : Seq(A)]
Finds(S, A) == [queue : Seq(Ways(S, A)), seen : SUBSET S]

\* What one action adds: nothing, or the one state it leads to, which is new.
Adds(program, state, path, a, b, c) ==
    \/ c = b /\ program.step[<<state, a>>] \subseteq b.seen
    \/ \E t : /\ program.step[<<state, a>>] = {t} /\ t \notin b.seen
              /\ c.seen = b.seen \cup {t}
              /\ c.queue = Append(b.queue, [state |-> t, path |-> Append(path, a)])

\* One action adds at most one state, and never one that is seen.
LEMMA DiscoversFact ==
    ASSUME NEW program, NEW S, NEW A, Single(program, S, A), NEW state \in S,
           NEW path \in Seq(A), NEW b \in Finds(S, A), NEW a \in A
    PROVE  /\ Discovers(program, state, path, b, a) \in Finds(S, A)
           /\ Adds(program, state, path, a, b, Discovers(program, state, path, b, a))
<1> DEFINE step == program.step[<<state, a>>]
           c == Discovers(program, state, path, b, a)
<1>1. CASE step \subseteq b.seen
  <2>1. Discovers(program, state, path, b, a) = b
    BY <1>1 DEF Discovers
  <2> QED BY <1>1, <2>1 DEF Adds
<1>2. CASE ~(step \subseteq b.seen)
  <2>1. PICK t \in S : step = {t}
    BY <1>2 DEF Single
  <2>2. t \notin b.seen
    BY <1>2, <2>1
  <2>3. One({t}) = t
    BY DEF One
  <2> DEFINE new == [state |-> t, path |-> Append(path, a)]
             q == Append(b.queue, new)
             z == b.seen \cup {t}
  <2>4. Discovers(program, state, path, b, a) = [queue |-> q, seen |-> z]
    BY <1>2, <2>1, <2>3 DEF Discovers
  <2>5. new \in Ways(S, A)
    <3>1. Append(path, a) \in Seq(A)
      BY AppendProperties
    <3> QED BY <3>1 DEF Ways
  <2>6. b.queue \in Seq(Ways(S, A)) /\ b.seen \in SUBSET S
    BY DEF Finds
  <2>7. q \in Seq(Ways(S, A))
    <3> HIDE DEF new
    <3> QED BY <2>5, <2>6, AppendProperties
  <2>8. z \in SUBSET S
    BY <2>6
  <2>9. Adds(program, state, path, a, b, [queue |-> q, seen |-> z])
    BY <2>1, <2>2 DEF Adds
  <2> HIDE DEF q, z
  <2>10. [queue |-> q, seen |-> z] \in Finds(S, A)
    BY <2>7, <2>8 DEF Finds
  <2> QED BY <2>4, <2>9, <2>10
<1> QED BY <1>1, <1>2

IsDiscovery(g, program, actions, state, path, queue, seen, n) ==
    /\ g[0] = [queue |-> queue, seen |-> seen]
    /\ \A k \in 1..n : g[k] = Discovers(program, state, path, g[k - 1], actions[k])
    /\ Discover(program, actions, state, path, queue, seen) = g[n]

\* Discovery takes one action after the other.
LEMMA DiscoverRun ==
    ASSUME NEW program, NEW S, NEW A, Single(program, S, A), NEW n \in Nat,
           NEW actions \in [1..n -> A], NEW state \in S, NEW path \in Seq(A),
           NEW queue \in Seq(Ways(S, A)), NEW seen \in SUBSET S
    PROVE  \E g \in [0..n -> Finds(S, A)] :
               IsDiscovery(g, program, actions, state, path, queue, seen, n)
<1> DEFINE base == [queue |-> queue, seen |-> seen]
           Step(b, t) == Discovers(program, state, path, b, t)
           B == Finds(S, A)
           list == actions
           F == [k \in 1..n |-> [b \in B |-> Step(b, list[k])]]
<1>1. base \in B /\ \A k \in 1..n, b \in B : Step(b, list[k]) \in B
  <2>1. \A k \in 1..n : list[k] \in A
    OBVIOUS
  <2>2. base \in B
    BY DEF Finds
  <2> HIDE DEF list
  <2> QED BY <2>1, <2>2, DiscoversFact
<1>4. DOMAIN list = 1..n
  OBVIOUS
<1> HIDE DEF base, Step, B, list
<1>2. F \in [1..n -> [B -> B]]
  BY <1>1
<1>3. PICK it \in [SUBSET (1..n) -> B] : Folds(it, n, base, F)
  <2> HIDE DEF F
  <2> QED BY <1>1, <1>2, FoldExists
<1>5. it = [T \in SUBSET DOMAIN list |->
              IF T = {} THEN base ELSE Step(it[T \ {Max(T)}], list[Max(T)])]
  <2>1. ASSUME NEW T \in SUBSET (1..n)
        PROVE  it[T] = IF T = {} THEN base ELSE Step(it[T \ {Max(T)}], list[Max(T)])
    <3>1. CASE T = {}
      BY <1>3, <3>1 DEF Folds
    <3>2. CASE T # {}
      <4>1. Max(T) \in 1..n /\ T \ {Max(T)} \in SUBSET (1..n)
        BY <3>2, MaxOfNumbers
      <4>2. it[T \ {Max(T)}] \in B
        BY <4>1
      <4>3. F[Max(T)][it[T \ {Max(T)}]] = Step(it[T \ {Max(T)}], list[Max(T)])
        BY <4>1, <4>2
      <4>4. it[T] = F[Max(T)][it[T \ {Max(T)}]]
        BY <1>3, <3>2 DEF Folds
      <4> QED BY <3>2, <4>3, <4>4
    <3> QED BY <3>1, <3>2
  <2> QED BY <1>4, <2>1
<1> DEFINE c == Discovering(program, actions, state, path, queue, seen)
           g == [k \in 0..n |-> c[1..k]]
<1>6. c = [T \in SUBSET DOMAIN list |->
              IF T = {} THEN base ELSE Step(c[T \ {Max(T)}], list[Max(T)])]
  BY <1>5 DEF Discovering, list, base, Step
<1> HIDE DEF c
<1>7. \A T \in SUBSET (1..n) :
          c[T] = IF T = {} THEN base ELSE Step(c[T \ {Max(T)}], list[Max(T)])
  BY <1>4, <1>6
<1>8. g[0] = base
  <2>1. 1..0 = {} /\ {} \in SUBSET (1..n) /\ 0 \in 0..n
    OBVIOUS
  <2>2. c[{}] = base
    BY <1>7, <2>1
  <2> QED BY <2>1, <2>2
<1>9. ASSUME NEW k \in 1..n PROVE g[k] = Step(g[k - 1], list[k])
  <2>1. Max(1..k) = k /\ (1..k) \ {k} = 1..(k - 1) /\ 1..k # {} /\ 1..k \in SUBSET (1..n)
    BY MaxOfPrefix
  <2>2. c[1..k] = Step(c[1..(k - 1)], list[k])
    BY <1>7, <2>1
  <2>3. k \in 0..n /\ k - 1 \in 0..n
    OBVIOUS
  <2> QED BY <2>2, <2>3
<1>10. c[DOMAIN list] = g[n]
  BY <1>4
<1> DEFINE T == {k \in 0..n : g[k] \in B}
<1>11. 0..n \subseteq T
  <2> HIDE DEF g
  <2>1. 0 \in T
    BY <1>1, <1>8
  <2>2. ASSUME NEW k \in 1..n, k - 1 \in T PROVE k \in T
    <3>1. g[k - 1] \in B /\ k \in 0..n
      BY <2>2
    <3> QED BY <1>1, <1>9, <3>1
  <2> HIDE DEF T
  <2> QED BY <2>1, <2>2, Induction
<1>12. g \in [0..n -> B]
  <2>1. \A k \in 0..n : g[k] \in B
    BY <1>11
  <2> QED BY <2>1
<1>13. Discover(program, actions, state, path, queue, seen) = g[n]
  BY <1>10, DiscoverFact DEF c, list
<1>14. \A k \in 1..n : g[k] = Discovers(program, state, path, g[k - 1], actions[k])
  BY <1>9 DEF Step, list
<1> HIDE DEF g
<1> USE DEF base, B
<1> QED BY <1>8, <1>12, <1>13, <1>14 DEF IsDiscovery

\* What the first k actions add to the queue and to the seen states.
Grown(program, A, actions, k, state, path, queue, seen, c) ==
    /\ seen \subseteq c.seen
    /\ \A i \in 1..k : program.step[<<state, actions[i]>>] \subseteq c.seen
    /\ Len(queue) <= Len(c.queue)
    /\ \A i \in 1..Len(queue) : c.queue[i] = queue[i]
    /\ \A i \in (Len(queue) + 1)..Len(c.queue) :
         /\ c.queue[i].state \in c.seen \ seen
         /\ \E a \in A : /\ program.step[<<state, a>>] = {c.queue[i].state}
                        /\ c.queue[i].path = Append(path, a)
    /\ \A s \in c.seen \ seen : \E i \in (Len(queue) + 1)..Len(c.queue) : c.queue[i].state = s
    /\ Len(c.queue) + Cardinality(seen) = Len(queue) + Cardinality(c.seen)

\* One more action keeps to it.
LEMMA GrowsByOne ==
    ASSUME NEW program, NEW S, IsFiniteSet(S), NEW A, NEW actions, NEW k \in Nat,
           actions[k + 1] \in A, NEW state \in S, NEW path \in Seq(A),
           NEW queue \in Seq(Ways(S, A)), NEW seen \in SUBSET S,
           NEW b \in Finds(S, A), NEW c \in Finds(S, A),
           Grown(program, A, actions, k, state, path, queue, seen, b),
           Adds(program, state, path, actions[k + 1], b, c)
    PROVE  Grown(program, A, actions, k + 1, state, path, queue, seen, c)
<1> DEFINE a == actions[k + 1]
           l == Len(queue)
<1>1. CASE c = b /\ program.step[<<state, a>>] \subseteq b.seen
  <2>1. \A i \in 1..(k + 1) : program.step[<<state, actions[i]>>] \subseteq c.seen
    <3>1. \A i \in 1..(k + 1) : i \in 1..k \/ i = k + 1
      OBVIOUS
    <3> QED BY <1>1, <3>1 DEF Grown
  <2>2. Grown(program, A, actions, k, state, path, queue, seen, c)
    BY <1>1
  <2> QED BY <2>1, <2>2 DEF Grown
<1>2. ASSUME NEW t, program.step[<<state, a>>] = {t}, t \notin b.seen,
             c.seen = b.seen \cup {t},
             c.queue = Append(b.queue, [state |-> t, path |-> Append(path, a)])
      PROVE  Grown(program, A, actions, k + 1, state, path, queue, seen, c)
  <2> DEFINE new == [state |-> t, path |-> Append(path, a)]
             m == Len(b.queue)
  <2>1. /\ b.queue \in Seq(Ways(S, A)) /\ b.seen \in SUBSET S
        /\ c.queue \in Seq(Ways(S, A)) /\ c.seen \in SUBSET S
    BY DEF Finds
  <2>2. /\ l \in Nat /\ m \in Nat /\ Len(c.queue) = m + 1 /\ c.queue[m + 1] = new
        /\ \A i \in 1..m : c.queue[i] = b.queue[i]
    <3> HIDE DEF new
    <3>1. c.queue = Append(b.queue, new)
      BY <1>2 DEF new
    <3>2. t \in S
      BY <1>2, <2>1
    <3>3. new \in Ways(S, A)
      BY <3>2, AppendProperties DEF new, Ways
    <3> QED BY <2>1, <3>1, <3>3, AppendProperties, LenProperties
  <2>3. /\ seen \subseteq b.seen /\ l <= m /\ \A i \in 1..l : b.queue[i] = queue[i]
        /\ \A i \in 1..k : program.step[<<state, actions[i]>>] \subseteq b.seen
        /\ m + Cardinality(seen) = l + Cardinality(b.seen)
    BY DEF Grown
  <2> HIDE DEF l, m
  <2>4. seen \subseteq c.seen /\ l <= m + 1 /\ \A i \in 1..l : c.queue[i] = queue[i]
    <3>1. \A i \in 1..l : i \in 1..m
      BY <2>2, <2>3
    <3> QED BY <1>2, <2>2, <2>3, <3>1
  <2>5. \A i \in 1..(k + 1) : program.step[<<state, actions[i]>>] \subseteq c.seen
    <3>1. \A i \in 1..(k + 1) : i \in 1..k \/ i = k + 1
      OBVIOUS
    <3>2. program.step[<<state, actions[k + 1]>>] \subseteq c.seen
      BY <1>2
    <3> QED BY <1>2, <2>3, <3>1, <3>2
  <2>6. ASSUME NEW i \in (l + 1)..(m + 1)
        PROVE  /\ c.queue[i].state \in c.seen \ seen
               /\ \E x \in A : /\ program.step[<<state, x>>] = {c.queue[i].state}
                              /\ c.queue[i].path = Append(path, x)
    <3>1. CASE i = m + 1
      <4>1. c.queue[i].state = t /\ c.queue[i].path = Append(path, a)
        BY <2>2, <3>1
      <4>2. t \in c.seen /\ t \notin seen
        BY <1>2, <2>3
      <4> QED BY <1>2, <4>1, <4>2
    <3>2. CASE i # m + 1
      <4>1. i \in (l + 1)..m /\ i \in 1..m
        BY <2>2, <3>2
      <4>2. c.queue[i] = b.queue[i]
        BY <2>2, <4>1
      <4>3. /\ b.queue[i].state \in b.seen \ seen
            /\ \E x \in A : /\ program.step[<<state, x>>] = {b.queue[i].state}
                           /\ b.queue[i].path = Append(path, x)
        BY <4>1 DEF Grown, l, m
      <4> QED BY <1>2, <4>2, <4>3
    <3> QED BY <3>1, <3>2
  <2>7. ASSUME NEW s \in c.seen \ seen
        PROVE  \E i \in (l + 1)..(m + 1) : c.queue[i].state = s
    <3>1. CASE s = t
      <4>1. m + 1 \in (l + 1)..(m + 1)
        BY <2>2, <2>3
      <4> QED BY <2>2, <3>1, <4>1
    <3>2. CASE s # t
      <4>1. s \in b.seen \ seen
        BY <1>2, <3>2
      <4>2. PICK i \in (l + 1)..m : b.queue[i].state = s
        BY <4>1 DEF Grown, l, m
      <4>3. i \in (l + 1)..(m + 1) /\ i \in 1..m
        BY <2>2, <4>2
      <4> QED BY <2>2, <4>2, <4>3
    <3> QED BY <3>1, <3>2
  <2>8. m + 1 + Cardinality(seen) = l + Cardinality(c.seen)
    <3>1. IsFiniteSet(b.seen) /\ IsFiniteSet(seen)
      BY <2>1, FS_Subset
    <3>2. Cardinality(c.seen) = Cardinality(b.seen) + 1
      <4> DEFINE z == b.seen
      <4>1. IsFiniteSet(z) /\ t \notin z
        BY <1>2, <3>1
      <4> HIDE DEF z
      <4>2. Cardinality(z \cup {t}) = Cardinality(z) + 1
        BY <4>1, FS_AddElement
      <4> QED BY <1>2, <4>2 DEF z
    <3>3. Cardinality(seen) \in Nat /\ Cardinality(b.seen) \in Nat
      BY <3>1, FS_CardinalityType
    <3> QED BY <2>2, <2>3, <3>2, <3>3
  <2> QED BY <2>2, <2>4, <2>5, <2>6, <2>7, <2>8 DEF Grown, l
<1> QED BY <1>1, <1>2 DEF Adds

Discovered(program, S, A, n, actions, state, path, queue, seen) ==
    LET next == Discover(program, actions, state, path, queue, seen)
    IN  /\ next \in Finds(S, A)
        /\ Grown(program, A, actions, n, state, path, queue, seen, next)

\* So what a discovery adds is seen once and queued once, and nothing else.
LEMMA DiscoverGrows ==
    ASSUME NEW program, NEW S, IsFiniteSet(S), NEW A, Single(program, S, A), NEW n \in Nat,
           NEW actions \in [1..n -> A], NEW state \in S, NEW path \in Seq(A),
           NEW queue \in Seq(Ways(S, A)), NEW seen \in SUBSET S
    PROVE  Discovered(program, S, A, n, actions, state, path, queue, seen)
<1>1. PICK g \in [0..n -> Finds(S, A)] :
            IsDiscovery(g, program, actions, state, path, queue, seen, n)
  BY DiscoverRun
<1> DEFINE T == {k \in 0..n : Grown(program, A, actions, k, state, path, queue, seen, g[k])}
<1>2. 0 \in T
  <2>1. g[0].queue = queue /\ g[0].seen = seen
    BY <1>1 DEF IsDiscovery
  <2>2. 0 \in 0..n /\ 1..0 = {} /\ Len(queue) \in Nat
    BY LenProperties
  <2>3. (Len(queue) + 1)..Len(queue) = {}
    BY <2>2
  <2>4. Cardinality(seen) \in Nat
    BY FS_Subset, FS_CardinalityType
  <2> QED BY <2>1, <2>2, <2>3, <2>4 DEF Grown
<1>3. ASSUME NEW k \in 1..n, k - 1 \in T PROVE k \in T
  <2> DEFINE j == k - 1
             b == g[j]
             c == g[k]
  <2>1. j \in Nat /\ j + 1 = k /\ k \in 0..n /\ j \in 0..n /\ actions[j + 1] \in A
    OBVIOUS
  <2>2. b \in Finds(S, A) /\ c \in Finds(S, A)
    BY <2>1
  <2>3. Grown(program, A, actions, j, state, path, queue, seen, b)
    BY <1>3
  <2>4. c = Discovers(program, state, path, b, actions[j + 1])
    BY <1>1, <2>1 DEF IsDiscovery
  <2> HIDE DEF j, b, c, T
  <2>5. Adds(program, state, path, actions[j + 1], b, c)
    <3> DEFINE a == actions[j + 1]
    <3>1. a \in A
      BY <2>1
    <3> HIDE DEF a
    <3>2. Adds(program, state, path, a, b, Discovers(program, state, path, b, a))
      BY <2>2, <3>1, DiscoversFact
    <3> QED BY <2>4, <3>2 DEF a
  <2>6. Grown(program, A, actions, j + 1, state, path, queue, seen, c)
    BY <2>1, <2>2, <2>3, <2>5, GrowsByOne
  <2> QED BY <2>1, <2>6 DEF T, c
<1> HIDE DEF T
<1>4. 0..n \subseteq T
  BY <1>2, <1>3, Induction
<1>5. Grown(program, A, actions, n, state, path, queue, seen, g[n]) /\ g[n] \in Finds(S, A)
  BY <1>4 DEF T
<1>6. Discover(program, actions, state, path, queue, seen) = g[n]
  BY <1>1 DEF IsDiscovery
<1> QED BY <1>5, <1>6 DEF Discovered

-----------------------------------------------------------------------------
(* The search for a goal                                                   *)

Searches(S, A) ==
    [queue : Seq(Ways(S, A)), seen : SUBSET S, expanded : Nat, goal : Answers, path : Seq(A)]

\* A path leads to the state, and no shorter one does.
Shortest(program, A, s, path) ==
    /\ Walk(program, path) = {s}
    /\ \A m \in 0..(Len(path) - 1) : s \notin Layer(program, A, m)

\* No state within n actions ends the search.
NoneWithin(program, A, n) ==
    \A m \in 0..n : \A t \in Layer(program, A, m) : program.goal[t] = {FALSE}

\* A state is done: no goal, and what follows it is known or too far away.
Done(program, A, maxDepth, z, s) ==
    /\ program.goal[s] = {FALSE}
    /\ \/ \A a \in A : program.step[<<s, a>>] \subseteq z.seen
       \/ \A m \in 0..(maxDepth - 1) : s \notin Layer(program, A, m)

Queued(z, s) == \E i \in 1..Len(z.queue) : z.queue[i].state = s

Frontier(program, A, maxDepth, z) ==
    \A i \in 1..Len(z.queue) :
        /\ z.queue[i].state \in z.seen
        /\ Shortest(program, A, z.queue[i].state, z.queue[i].path)
        /\ Len(z.queue[i].path) <= maxDepth

Ordered(z) ==
    \A i, j \in 1..Len(z.queue) :
        i <= j => /\ Len(z.queue[i].path) <= Len(z.queue[j].path)
                  /\ Len(z.queue[j].path) <= Len(z.queue[1].path) + 1

Explored(program, A, maxDepth, z) ==
    \A s \in z.seen : Queued(z, s) \/ Done(program, A, maxDepth, z, s)

Counted(maxNodes, n, z) ==
    \/ z.goal # {FALSE}
    \/ z.expanded >= maxNodes
    \/ z.queue = <<>>
    \/ Len(z.queue) + n = Cardinality(z.seen)

GoalAt(program, S, A, maxDepth, z) ==
    z.goal # {FALSE} =>
        /\ \E s \in S : z.goal = program.goal[s] /\ Walk(program, z.path) = {s}
        /\ Len(z.path) <= maxDepth
        /\ NoneWithin(program, A, Len(z.path) - 1)

SearchInv(program, S, A, maxDepth, maxNodes, n, z) ==
    /\ z \in Searches(S, A)
    /\ 0 \in z.seen /\ z.expanded <= n
    /\ Frontier(program, A, maxDepth, z)
    /\ Ordered(z)
    /\ Explored(program, A, maxDepth, z)
    /\ Counted(maxNodes, n, z)
    /\ GoalAt(program, S, A, maxDepth, z)

\* Whatever is nearer than what the queue holds has been seen, and is done.
Covers(program, A, z, h) ==
    /\ \A m \in 0..h : Layer(program, A, m) \subseteq z.seen
    /\ NoneWithin(program, A, h - 1)
    /\ z.queue = <<>> => NoneWithin(program, A, h)

\* With the queue empty, nothing within reach was missed.
LEMMA Covered ==
    ASSUME NEW program, NEW S, NEW A, Single(program, S, A), 0 \in S, NEW maxDepth \in Nat,
           NEW z \in Searches(S, A), 0 \in z.seen, Frontier(program, A, maxDepth, z),
           Explored(program, A, maxDepth, z), NEW h \in 0..maxDepth,
           \A i \in 1..Len(z.queue) : h <= Len(z.queue[i].path)
    PROVE  Covers(program, A, z, h)
<1> DEFINE T == {m \in 0..h : Layer(program, A, m) \subseteq z.seen}
<1>0. z.queue \in Seq(Ways(S, A)) /\ Len(z.queue) \in Nat
  BY LenProperties DEF Searches
<1>1. \A i \in 1..Len(z.queue) : Len(z.queue[i].path) \in Nat
  <2>1. \A i \in 1..Len(z.queue) : z.queue[i] \in Ways(S, A)
    BY <1>0, ElementOfSeq
  <2> QED BY <2>1, LenProperties DEF Ways
<1>2. ASSUME NEW m \in 0..(h - 1), NEW s \in Layer(program, A, m) PROVE ~Queued(z, s)
  <2>1. SUFFICES ASSUME NEW i \in 1..Len(z.queue), z.queue[i].state = s PROVE FALSE
    BY DEF Queued
  <2>2. m \in 0..(Len(z.queue[i].path) - 1)
    BY <1>1
  <2>3. Shortest(program, A, s, z.queue[i].path)
    BY <2>1 DEF Frontier
  <2> QED BY <2>2, <2>3 DEF Shortest
<1>3. 0 \in T
  <2>1. \A s \in Layer(program, A, 0) : s = 0
    BY LayerFact DEF Layered
  <2> QED BY <2>1
<1>4. ASSUME NEW k \in 1..h, k - 1 \in T PROVE k \in T
  <2> DEFINE m == k - 1
  <2>1. m \in Nat /\ m + 1 = k /\ m \in 0..(h - 1) /\ m \in 0..(maxDepth - 1) /\ k \in 0..h
        /\ Layer(program, A, m) \subseteq z.seen
    BY <1>4
  <2> HIDE DEF m
  <2>2. ASSUME NEW t \in Layer(program, A, m + 1) PROVE t \in z.seen
    <3>1. PICK s \in Layer(program, A, m), a \in A : t \in program.step[<<s, a>>]
      <4>1. Layered(program, A)
        BY LayerFact
      <4> QED BY <2>1, <2>2, <4>1 DEF Layered
    <3>2. Done(program, A, maxDepth, z, s)
      BY <1>2, <2>1 DEF Explored
    <3> QED BY <2>1, <3>1, <3>2 DEF Done
  <2> QED BY <2>1, <2>2
<1> HIDE DEF T
<1>5. 0..h \subseteq T
  <2>1. h \in Nat
    OBVIOUS
  <2> QED BY <1>3, <1>4, <2>1, Induction
<1>6. \A m \in 0..h : Layer(program, A, m) \subseteq z.seen
  BY <1>5 DEF T
<1>7. ASSUME NEW m \in 0..(h - 1), NEW t \in Layer(program, A, m)
      PROVE  program.goal[t] = {FALSE}
  <2>1. m \in 0..h
    OBVIOUS
  <2>2. t \in z.seen /\ ~Queued(z, t)
    BY <1>2, <1>6, <2>1
  <2> QED BY <2>2 DEF Explored, Done
<1>8. ASSUME z.queue = <<>>, NEW m \in 0..h, NEW t \in Layer(program, A, m)
      PROVE  program.goal[t] = {FALSE}
  <2>1. t \in z.seen
    BY <1>6
  <2>2. ~Queued(z, t)
    <3>1. Len(z.queue) = 0
      BY <1>8
    <3> QED BY <3>1 DEF Queued
  <2> QED BY <2>1, <2>2 DEF Explored, Done
<1> QED BY <1>6, <1>7, <1>8 DEF Covers, NoneWithin

\* What is left of the queue is a queue.
LEMMA QueueTail ==
    ASSUME NEW S, NEW queue \in Seq(S), queue # <<>>
    PROVE  /\ Tail(queue) \in Seq(S) /\ Len(queue) \in Nat /\ Len(queue) >= 1
           /\ Len(Tail(queue)) = Len(queue) - 1
           /\ \A i \in 1..(Len(queue) - 1) : Tail(queue)[i] = queue[i + 1]
           /\ Head(queue) = queue[1] /\ queue[1] \in S
<1>1. Len(queue) \in Nat /\ Len(queue) # 0
  BY LenProperties, EmptySeq
<1> QED BY <1>1, HeadTailProperties, ElementOfSeq

\* One turn of the search, at each of its ends.
LEMMA TurnStopped ==
    ASSUME NEW program, NEW S, NEW A, NEW maxDepth, NEW maxNodes, NEW n \in Nat, NEW z,
           SearchInv(program, S, A, maxDepth, maxNodes, n, z),
           z.goal # {FALSE} \/ z.queue = <<>> \/ z.expanded >= maxNodes
    PROVE  SearchInv(program, S, A, maxDepth, maxNodes, n + 1, z)
<1>1. z.expanded \in Nat
  BY DEF SearchInv, Searches
<1>2. z.expanded <= n + 1
  BY <1>1 DEF SearchInv
<1>3. Counted(maxNodes, n + 1, z)
  BY DEF Counted
<1> QED BY <1>2, <1>3 DEF SearchInv

\* A goal at the head of the queue is the nearest, and so is a state whose is_goal raises.
LEMMA TurnFound ==
    ASSUME NEW program, NEW S, NEW A, Single(program, S, A), 0 \in S, NEW maxDepth \in Nat,
           NEW maxNodes, NEW n \in Nat, NEW z,
           SearchInv(program, S, A, maxDepth, maxNodes, n, z), z.queue # <<>>,
           program.goal \in [S -> Answers], NEW g, g = program.goal[Head(z.queue).state],
           g # {FALSE}
    PROVE  SearchInv(program, S, A, maxDepth, maxNodes, n + 1,
                     [z EXCEPT !.goal = g, !.path = Head(z.queue).path])
<1> DEFINE p == Head(z.queue).path
           s == Head(z.queue).state
           y == [z EXCEPT !.goal = g, !.path = p]
<1>1. /\ z \in Searches(S, A) /\ z.queue \in Seq(Ways(S, A)) /\ z.expanded \in Nat
      /\ z.expanded <= n /\ 0 \in z.seen
  BY DEF SearchInv, Searches
<1>2. Head(z.queue) = z.queue[1] /\ z.queue[1] \in Ways(S, A) /\ 1 \in 1..Len(z.queue)
  <2> DEFINE q == z.queue
  <2>1. q \in Seq(Ways(S, A)) /\ q # <<>>
    BY <1>1
  <2> HIDE DEF q
  <2>2. Head(q) = q[1] /\ q[1] \in Ways(S, A) /\ 1 \in 1..Len(q)
    BY <2>1, QueueTail
  <2> QED BY <2>2 DEF q
<1>3. p \in Seq(A) /\ s \in S /\ p = z.queue[1].path /\ s = z.queue[1].state
  BY <1>2 DEF Ways
<1>13. g = program.goal[s] /\ g \in Answers
  BY <1>3
<1> HIDE DEF p, s
<1>4. y \in Searches(S, A)
  BY <1>1, <1>3, <1>13 DEF Searches
<1>5. /\ y.queue = z.queue /\ y.seen = z.seen /\ y.expanded = z.expanded
      /\ y.goal = g /\ y.path = p
  BY <1>1 DEF Searches
<1> HIDE DEF y
<1>6. Frontier(program, A, maxDepth, y)
  BY <1>5 DEF SearchInv, Frontier
<1>7. Ordered(y)
  BY <1>5 DEF SearchInv, Ordered
<1>8. Explored(program, A, maxDepth, y)
  BY <1>5 DEF SearchInv, Explored, Queued, Done
<1>9. Counted(maxNodes, n + 1, y)
  BY <1>5 DEF Counted
<1>10. GoalAt(program, S, A, maxDepth, y)
  <2>1. Shortest(program, A, s, p) /\ Len(p) <= maxDepth
    BY <1>2, <1>3 DEF SearchInv, Frontier
  <2>2. s \in S /\ y.goal = program.goal[s]
    BY <1>3, <1>5, <1>13
  <2> DEFINE h == Len(p)
  <2>3. h \in 0..maxDepth
    BY <1>3, <2>1, LenProperties
  <2>4. \A i \in 1..Len(z.queue) : h <= Len(z.queue[i].path)
    <3>1. \A i \in 1..Len(z.queue) : 1 <= i
      OBVIOUS
    <3> QED BY <1>2, <1>3, <3>1 DEF SearchInv, Ordered
  <2>5. Frontier(program, A, maxDepth, z) /\ Explored(program, A, maxDepth, z)
    BY DEF SearchInv
  <2> HIDE DEF h
  <2>6. Covers(program, A, z, h)
    BY <1>1, <2>3, <2>4, <2>5, Covered
  <2>7. NoneWithin(program, A, h - 1)
    BY <2>6 DEF Covers
  <2> QED BY <1>3, <1>5, <2>1, <2>2, <2>7 DEF GoalAt, Shortest, h
<1>11. 0 \in y.seen /\ y.expanded <= n + 1
  BY <1>1, <1>5
<1>12. SearchInv(program, S, A, maxDepth, maxNodes, n + 1, y)
  BY <1>4, <1>6, <1>7, <1>8, <1>9, <1>10, <1>11 DEF SearchInv
<1> QED BY <1>12 DEF y, p

\* At the depth limit a way is dropped, and nothing within it is missed.
LEMMA TurnDropped ==
    ASSUME NEW program, NEW S, NEW A, NEW maxDepth \in Nat, NEW maxNodes, NEW n \in Nat, NEW z,
           SearchInv(program, S, A, maxDepth, maxNodes, n, z), z.queue # <<>>,
           z.goal = {FALSE}, ~(z.expanded >= maxNodes), IsFiniteSet(S),
           program.goal[Head(z.queue).state] = {FALSE}, Len(Head(z.queue).path) >= maxDepth
    PROVE  SearchInv(program, S, A, maxDepth, maxNodes, n + 1, [z EXCEPT !.queue = Tail(@)])
<1> DEFINE q == z.queue
           rest == Tail(q)
           y == [z EXCEPT !.queue = rest]
<1>1. /\ z \in Searches(S, A) /\ q \in Seq(Ways(S, A)) /\ z.expanded \in Nat
      /\ z.expanded <= n /\ 0 \in z.seen /\ q # <<>> /\ z.seen \in SUBSET S
  BY DEF SearchInv, Searches
<1>2. y = [z EXCEPT !.queue = Tail(@)]
  OBVIOUS
<1> HIDE DEF q
<1>3. /\ rest \in Seq(Ways(S, A)) /\ Len(q) \in Nat /\ Len(q) >= 1 /\ Len(rest) = Len(q) - 1
      /\ \A i \in 1..(Len(q) - 1) : rest[i] = q[i + 1]
      /\ Head(q) = q[1] /\ q[1] \in Ways(S, A)
  BY <1>1, QueueTail
<1> HIDE DEF rest
<1>4. y \in Searches(S, A)
  BY <1>1, <1>3 DEF Searches
<1>5. /\ y.queue = rest /\ y.seen = z.seen /\ y.expanded = z.expanded /\ y.goal = z.goal
      /\ y.path = z.path
  BY <1>1 DEF Searches
<1>6. \A i \in 1..Len(rest) : i + 1 \in 1..Len(q) /\ rest[i] = q[i + 1]
  BY <1>3
<1>7. \A i \in 1..Len(q) : /\ q[i].state \in z.seen
                           /\ Shortest(program, A, q[i].state, q[i].path)
                           /\ Len(q[i].path) <= maxDepth
  BY DEF SearchInv, Frontier, q
<1>8. Frontier(program, A, maxDepth, y)
  <2> HIDE DEF y
  <2> QED BY <1>5, <1>6, <1>7 DEF Frontier
<1>9. Ordered(y)
  <2>1. \A i, j \in 1..Len(q) :
           i <= j => Len(q[i].path) <= Len(q[j].path) /\ Len(q[j].path) <= Len(q[1].path) + 1
    BY DEF SearchInv, Ordered, q
  <2>2. \A i \in 1..Len(q) : Len(q[i].path) \in Nat
    <3>1. \A i \in 1..Len(q) : q[i] \in Ways(S, A)
      BY <1>1, ElementOfSeq
    <3> QED BY <3>1, LenProperties DEF Ways
  <2>3. ASSUME NEW i \in 1..Len(rest), NEW j \in 1..Len(rest), i <= j
        PROVE  /\ Len(rest[i].path) <= Len(rest[j].path)
               /\ Len(rest[j].path) <= Len(rest[1].path) + 1
    <3>1. /\ i + 1 \in 1..Len(q) /\ j + 1 \in 1..Len(q) /\ 1 \in 1..Len(rest)
          /\ 2 \in 1..Len(q) /\ 1 \in 1..Len(q) /\ i + 1 <= j + 1
      BY <1>3, <2>3
    <3>2. rest[i] = q[i + 1] /\ rest[j] = q[j + 1] /\ rest[1] = q[2]
      <4>1. rest[1] = q[1 + 1]
        BY <1>6, <3>1
      <4> QED BY <1>6, <4>1
    <3>3. Len(q[1].path) <= Len(q[2].path) /\ Len(q[j + 1].path) <= Len(q[1].path) + 1
      BY <2>1, <3>1
    <3>4. Len(q[i + 1].path) <= Len(q[j + 1].path)
      BY <2>1, <3>1
    <3>5. Len(q[1].path) \in Nat /\ Len(q[2].path) \in Nat /\ Len(q[j + 1].path) \in Nat
      BY <2>2, <3>1
    <3>6. Len(q[j + 1].path) <= Len(q[2].path) + 1
      <4> DEFINE b == Len(q[j + 1].path)
                 c == Len(q[2].path)
                 d == Len(q[1].path)
      <4>1. d <= c /\ b <= d + 1
        BY <3>3
      <4>2. b \in Nat /\ c \in Nat /\ d \in Nat
        BY <3>5
      <4> HIDE DEF b, c, d
      <4>3. b <= c + 1
        BY <4>1, <4>2
      <4> QED BY <4>3 DEF b, c
    <3>7. rest[i].path = q[i + 1].path /\ rest[j].path = q[j + 1].path
          /\ rest[1].path = q[2].path
      BY <3>2
    <3> QED BY <3>4, <3>6, <3>7
  <2> HIDE DEF y
  <2> QED BY <1>5, <2>3 DEF Ordered
<1>10. Explored(program, A, maxDepth, y)
  <2>1. ASSUME NEW s \in z.seen
        PROVE  Queued(y, s) \/ Done(program, A, maxDepth, y, s)
    <3>1. CASE \E i \in 1..Len(q) : i # 1 /\ q[i].state = s
      <4>1. PICK i \in 1..Len(q) : i # 1 /\ q[i].state = s
        BY <3>1
      <4>2. i - 1 \in 1..Len(rest) /\ i - 1 + 1 = i
        BY <1>3, <4>1
      <4>3. rest[i - 1] = q[i]
        BY <1>6, <4>2
      <4> HIDE DEF y
      <4> QED BY <1>5, <4>1, <4>2, <4>3 DEF Queued
    <3>2. CASE q[1].state = s
      <4>1. Shortest(program, A, s, q[1].path) /\ Len(q[1].path) = maxDepth
        <5>1. Len(q[1].path) \in Nat
          BY <1>3, LenProperties DEF Ways
        <5>2. Len(q[1].path) >= maxDepth
          BY <1>3 DEF q
        <5>3. 1 \in 1..Len(q)
          BY <1>3
        <5> QED BY <1>7, <3>2, <5>1, <5>2, <5>3
      <4>2. program.goal[s] = {FALSE}
        BY <1>3, <3>2 DEF q
      <4> QED BY <4>1, <4>2 DEF Shortest, Done
    <3>3. CASE Done(program, A, maxDepth, z, s)
      <4> HIDE DEF y
      <4> QED BY <1>5, <3>3 DEF Done
    <3>4. (\E i \in 1..Len(q) : q[i].state = s) \/ Done(program, A, maxDepth, z, s)
      BY DEF SearchInv, Explored, Queued, q
    <3> QED BY <3>1, <3>2, <3>3, <3>4
  <2> HIDE DEF y
  <2> QED BY <1>5, <2>1 DEF Explored
<1>11. Counted(maxNodes, n + 1, y)
  <2>1. Len(q) + n = Cardinality(z.seen)
    BY <1>1 DEF SearchInv, Counted, q
  <2>2. Len(rest) + (n + 1) = Cardinality(z.seen)
    BY <1>3, <2>1
  <2> HIDE DEF y
  <2> QED BY <1>5, <2>2 DEF Counted
<1>12. GoalAt(program, S, A, maxDepth, y)
  <2> HIDE DEF y
  <2> QED BY <1>5 DEF GoalAt
<1>13. 0 \in y.seen /\ y.expanded <= n + 1
  BY <1>1, <1>5
<1> HIDE DEF y
<1>14. SearchInv(program, S, A, maxDepth, maxNodes, n + 1, y)
  BY <1>4, <1>8, <1>9, <1>10, <1>11, <1>12, <1>13 DEF SearchInv
<1> QED BY <1>2, <1>14

LeadsTo(program, path, s, a) == Walk(program, Append(path, a)) = program.step[<<s, a>>]

\* A way one action longer is the shortest to a state that was not seen.
LEMMA NextWay ==
    ASSUME NEW program, NEW S, NEW A, Single(program, S, A), 0 \in S,
           NEW s, NEW path \in Seq(A), Walk(program, path) = {s}, NEW a \in A
    PROVE  LeadsTo(program, path, s, a)
<1> DEFINE n == Len(path)
           q == Append(path, a)
<1>1. n \in Nat /\ path \in [1..n -> A]
  BY LenProperties
<1>2. q \in Seq(A) /\ Len(q) = n + 1 /\ q[n + 1] = a /\ \A i \in 1..n : q[i] = path[i]
  BY <1>1, AppendProperties
<1>3. q \in [1..(n + 1) -> A]
  BY <1>2, LenProperties
<1> HIDE DEF n, q
<1>4. GoesOn(program, path, q, n)
  BY <1>1, <1>2, <1>3, WalkGoesOn
<1>5. Walk(program, q) = Successors(program, {s}, a)
  BY <1>2, <1>4 DEF GoesOn
<1>6. Successors(program, {s}, a) = program.step[<<s, a>>]
  BY DEF Successors
<1> QED BY <1>5, <1>6 DEF q, LeadsTo

\* Expanded, the way makes room for those one action longer.
LEMMA TurnExpanded ==
    ASSUME NEW program, NEW S, NEW A, Single(program, S, A), 0 \in S, IsFiniteSet(S),
           NEW l \in Nat, NEW actions \in [1..l -> A], \A a \in A : \E i \in 1..l : actions[i] = a,
           NEW maxDepth \in Nat, NEW maxNodes, NEW n \in Nat, NEW z,
           SearchInv(program, S, A, maxDepth, maxNodes, n, z), z.queue # <<>>,
           z.goal = {FALSE}, ~(z.expanded >= maxNodes),
           program.goal[Head(z.queue).state] = {FALSE}, ~(Len(Head(z.queue).path) >= maxDepth),
           NEW next,
           next = Discover(program, actions, Head(z.queue).state, Head(z.queue).path,
                           Tail(z.queue), z.seen)
    PROVE  SearchInv(program, S, A, maxDepth, maxNodes, n + 1,
               [z EXCEPT !.queue = next.queue, !.seen = next.seen, !.expanded = @ + 1])
<1> DEFINE q == z.queue
           seen == z.seen
           rest == Tail(q)
           state == Head(q).state
           path == Head(q).path
           e == z.expanded + 1
           y == [z EXCEPT !.queue = next.queue, !.seen = next.seen, !.expanded = @ + 1]
<1>1. /\ z \in Searches(S, A) /\ q \in Seq(Ways(S, A)) /\ z.expanded \in Nat
      /\ z.expanded <= n /\ 0 \in seen /\ q # <<>> /\ seen \in SUBSET S
  BY DEF SearchInv, Searches
<1>2. y = [z EXCEPT !.queue = next.queue, !.seen = next.seen, !.expanded = e]
  OBVIOUS
<1>3. /\ \A i \in 1..Len(q) : /\ q[i].state \in seen
                              /\ Shortest(program, A, q[i].state, q[i].path)
                              /\ Len(q[i].path) <= maxDepth
      /\ \A i, j \in 1..Len(q) :
           i <= j => Len(q[i].path) <= Len(q[j].path) /\ Len(q[j].path) <= Len(q[1].path) + 1
      /\ \A s \in seen : (\E i \in 1..Len(q) : q[i].state = s) \/ Done(program, A, maxDepth, z, s)
      /\ Len(q) + n = Cardinality(seen)
  BY DEF SearchInv, Frontier, Ordered, Explored, Queued, Counted
<1>4. next = Discover(program, actions, state, path, rest, seen)
  OBVIOUS
<1>5. program.goal[state] = {FALSE} /\ ~(Len(path) >= maxDepth)
  OBVIOUS
<1> DEFINE Q == next.queue
           N == next.seen
<1>6. y = [z EXCEPT !.queue = Q, !.seen = N, !.expanded = e]
  BY <1>2
<1> HIDE DEF y, q
<1>7. /\ rest \in Seq(Ways(S, A)) /\ Len(q) \in Nat /\ Len(q) >= 1 /\ Len(rest) = Len(q) - 1
      /\ \A i \in 1..(Len(q) - 1) : rest[i] = q[i + 1]
      /\ Head(q) = q[1] /\ q[1] \in Ways(S, A)
  BY <1>1, QueueTail
<1>8. state \in S /\ path \in Seq(A) /\ state = q[1].state /\ path = q[1].path /\ Len(path) \in Nat
  <2>1. q[1].state \in S /\ q[1].path \in Seq(A)
    BY <1>7 DEF Ways
  <2> QED BY <1>7, <2>1, LenProperties
<1> HIDE DEF state, path, rest, seen
<1>9. next \in Finds(S, A) /\ Grown(program, A, actions, l, state, path, rest, seen, next)
  <2>1. Discovered(program, S, A, l, actions, state, path, rest, seen)
    BY <1>1, <1>7, <1>8, DiscoverGrows
  <2> QED BY <1>4, <2>1 DEF Discovered
<1>10. Q \in Seq(Ways(S, A)) /\ N \in SUBSET S /\ Len(Q) \in Nat
  BY <1>9, LenProperties DEF Finds
<1>11. /\ seen \subseteq N
       /\ \A i \in 1..l : program.step[<<state, actions[i]>>] \subseteq N
       /\ Len(rest) <= Len(Q)
       /\ \A i \in 1..Len(rest) : Q[i] = rest[i]
       /\ \A i \in (Len(rest) + 1)..Len(Q) :
            /\ Q[i].state \in N \ seen
            /\ \E a \in A : program.step[<<state, a>>] = {Q[i].state} /\ Q[i].path = Append(path, a)
       /\ \A s \in N \ seen : \E i \in (Len(rest) + 1)..Len(Q) : Q[i].state = s
       /\ Len(Q) + Cardinality(seen) = Len(rest) + Cardinality(N)
  BY <1>9 DEF Grown
<1>12. e \in Nat /\ e <= n + 1
  BY <1>1
<1> HIDE DEF Q, N, e
<1>13. y \in Searches(S, A)
  BY <1>1, <1>6, <1>10, <1>12 DEF Searches
<1>14. y.queue = Q /\ y.seen = N /\ y.expanded = e /\ y.goal = z.goal /\ y.path = z.path
  BY <1>1, <1>6 DEF Searches
<1>15. \A i \in 1..Len(rest) : i + 1 \in 1..Len(q) /\ Q[i] = q[i + 1]
  BY <1>7, <1>11
<1>16. \A i \in 1..Len(Q) : i \in 1..Len(rest) \/ i \in (Len(rest) + 1)..Len(Q)
  BY <1>7, <1>10
<1> DEFINE h == Len(path)
<1>17. h \in 0..maxDepth /\ h + 1 <= maxDepth
  BY <1>5, <1>8
<1>18. Shortest(program, A, state, path) /\ 1 \in 1..Len(q)
  BY <1>3, <1>7, <1>8
<1>19. \A i \in 1..Len(q) : h <= Len(q[i].path) /\ Len(q[i].path) <= h + 1
  <2>1. \A i \in 1..Len(q) : 1 <= i
    OBVIOUS
  <2> QED BY <1>3, <1>8, <1>18, <2>1
<1>20. \A m \in 0..h : Layer(program, A, m) \subseteq seen
  <2>1. Frontier(program, A, maxDepth, z) /\ Explored(program, A, maxDepth, z)
    BY DEF SearchInv
  <2>2. /\ 0 \in z.seen /\ \A i \in 1..Len(z.queue) : h <= Len(z.queue[i].path)
    BY <1>1, <1>19 DEF q, seen
  <2> HIDE DEF h
  <2>3. Covers(program, A, z, h)
    BY <1>1, <1>17, <2>1, <2>2, Covered
  <2> QED BY <2>3 DEF Covers, seen
<1>21. ASSUME NEW i \in (Len(rest) + 1)..Len(Q)
       PROVE  /\ Shortest(program, A, Q[i].state, Q[i].path) /\ Len(Q[i].path) = h + 1
  <2>1. PICK a \in A : /\ program.step[<<state, a>>] = {Q[i].state}
                       /\ Q[i].path = Append(path, a)
    BY <1>11
  <2>2. Walk(program, Append(path, a)) = program.step[<<state, a>>]
    <3>1. Walk(program, path) = {state}
      BY <1>18 DEF Shortest
    <3>2. LeadsTo(program, path, state, a)
      BY <1>8, <3>1, NextWay
    <3> QED BY <3>2 DEF LeadsTo
  <2>3. Len(Append(path, a)) = h + 1
    BY <1>8, AppendProperties
  <2>4. ASSUME NEW m \in 0..h PROVE Q[i].state \notin Layer(program, A, m)
    <3>1. Q[i].state \notin seen
      BY <1>11, <1>17
    <3> HIDE DEF h
    <3> QED BY <1>20, <3>1
  <2>5. Len(Q[i].path) = h + 1
    BY <2>1, <2>3
  <2>6. Walk(program, Q[i].path) = {Q[i].state}
    BY <2>1, <2>2
  <2> HIDE DEF h
  <2>7. \A m \in 0..(Len(Q[i].path) - 1) : Q[i].state \notin Layer(program, A, m)
    <3>1. Len(Q[i].path) - 1 = h
      BY <1>17, <2>5
    <3> QED BY <2>4, <3>1
  <2> QED BY <2>5, <2>6, <2>7 DEF Shortest
<1> HIDE DEF h
<1>22. Frontier(program, A, maxDepth, y)
  <2>1. ASSUME NEW i \in 1..Len(Q)
        PROVE  /\ Q[i].state \in N /\ Shortest(program, A, Q[i].state, Q[i].path)
               /\ Len(Q[i].path) <= maxDepth
    <3>1. CASE i \in 1..Len(rest)
      <4>1. i + 1 \in 1..Len(q) /\ Q[i] = q[i + 1]
        BY <1>15, <3>1
      <4> QED BY <1>3, <1>11, <4>1
    <3>2. CASE i \in (Len(rest) + 1)..Len(Q)
      BY <1>11, <1>17, <1>21, <3>2
    <3> QED BY <1>16, <3>1, <3>2
  <2> QED BY <1>14, <2>1 DEF Frontier
<1>23. Ordered(y)
  <2> DEFINE L(i) == Len(Q[i].path)
  <2>1. ASSUME NEW i \in 1..Len(Q)
        PROVE  L(i) \in Nat /\ h <= L(i) /\ L(i) <= h + 1
    <3>1. CASE i \in 1..Len(rest)
      <4>1. i + 1 \in 1..Len(q) /\ Q[i] = q[i + 1]
        BY <1>15, <3>1
      <4>2. L(i) \in Nat
        <5>1. Q[i] \in Ways(S, A)
          BY <1>10, ElementOfSeq
        <5> QED BY <5>1, LenProperties DEF Ways
      <4> QED BY <1>19, <4>1, <4>2
    <3>2. CASE i \in (Len(rest) + 1)..Len(Q)
      BY <1>17, <1>21, <3>2
    <3> QED BY <1>16, <3>1, <3>2
  <2>2. ASSUME NEW i \in 1..Len(Q), NEW j \in 1..Len(Q), i <= j PROVE L(i) <= L(j)
    <3>1. CASE j \in 1..Len(rest)
      <4>1. i \in 1..Len(rest)
        BY <2>2, <3>1
      <4>2. Q[i] = q[i + 1] /\ Q[j] = q[j + 1] /\ i + 1 \in 1..Len(q) /\ j + 1 \in 1..Len(q)
        BY <1>15, <3>1, <4>1
      <4>3. i + 1 <= j + 1
        BY <2>2
      <4>4. Len(q[i + 1].path) <= Len(q[j + 1].path)
        BY <1>3, <4>2, <4>3
      <4> QED BY <4>2, <4>4
    <3>2. CASE j \in (Len(rest) + 1)..Len(Q)
      <4>1. L(j) = h + 1
        BY <1>21, <3>2
      <4>2. L(i) <= h + 1
        BY <2>1
      <4> QED BY <4>1, <4>2
    <3> QED BY <1>16, <3>1, <3>2
  <2>3. ASSUME NEW i \in 1..Len(Q), NEW j \in 1..Len(Q), i <= j
        PROVE  L(i) <= L(j) /\ L(j) <= L(1) + 1
    <3>1. 1 \in 1..Len(Q)
      BY <1>10
    <3>2. L(j) <= h + 1 /\ h <= L(1) /\ L(1) \in Nat /\ L(j) \in Nat /\ h \in Nat
      BY <1>17, <2>1, <3>1
    <3>3. L(i) <= L(j)
      BY <2>2, <2>3
    <3> HIDE DEF L
    <3> QED BY <3>2, <3>3
  <2> QED BY <1>14, <2>3 DEF Ordered
<1>24. Explored(program, A, maxDepth, y)
  <2>1. ASSUME NEW s \in N PROVE Queued(y, s) \/ Done(program, A, maxDepth, y, s)
    <3>1. CASE s \in seen /\ \E i \in 1..Len(q) : i # 1 /\ q[i].state = s
      <4>1. PICK i \in 1..Len(q) : i # 1 /\ q[i].state = s
        BY <3>1
      <4>2. i - 1 \in 1..Len(rest) /\ i - 1 + 1 = i /\ i - 1 \in 1..Len(Q)
        BY <1>7, <1>10, <1>11, <4>1
      <4>3. Q[i - 1] = q[i]
        BY <1>15, <4>2
      <4> QED BY <1>14, <4>1, <4>2, <4>3 DEF Queued
    <3>2. CASE s = state
      <4>1. ASSUME NEW a \in A PROVE program.step[<<state, a>>] \subseteq N
        <5>1. PICK i \in 1..l : actions[i] = a
          OBVIOUS
        <5> QED BY <1>11, <5>1
      <4> QED BY <1>5, <1>14, <3>2, <4>1 DEF Done
    <3>3. CASE s \in seen /\ Done(program, A, maxDepth, z, s)
      <4>1. \A a \in A : program.step[<<s, a>>] \subseteq seen
                            => program.step[<<s, a>>] \subseteq N
        BY <1>11
      <4> QED BY <1>14, <3>3, <4>1 DEF Done, seen
    <3>4. CASE s \in N \ seen
      <4>1. PICK i \in (Len(rest) + 1)..Len(Q) : Q[i].state = s
        BY <1>11, <3>4
      <4>2. i \in 1..Len(Q)
        BY <1>7, <1>10
      <4> QED BY <1>14, <4>1, <4>2 DEF Queued
    <3>5. s \in seen => (\E i \in 1..Len(q) : q[i].state = s) \/ Done(program, A, maxDepth, z, s)
      BY <1>3
    <3> QED BY <1>8, <3>1, <3>2, <3>3, <3>4, <3>5
  <2> QED BY <1>14, <2>1 DEF Explored
<1>25. Counted(maxNodes, n + 1, y)
  <2>1. Cardinality(seen) \in Nat /\ Cardinality(N) \in Nat
    BY <1>1, <1>10, FS_Subset, FS_CardinalityType
  <2>2. Len(Q) + (n + 1) = Cardinality(N)
    <3> DEFINE a == Len(q)
               b == Len(Q)
               c == Len(rest)
               v == Cardinality(seen)
               w == Cardinality(N)
    <3>1. /\ a \in Nat /\ b \in Nat /\ v \in Nat /\ w \in Nat /\ c = a - 1
          /\ a + n = v /\ b + v = c + w
      BY <1>3, <1>7, <1>10, <1>11, <2>1
    <3> HIDE DEF a, b, c, v, w
    <3>2. b + (n + 1) = w
      BY <3>1
    <3> QED BY <3>2 DEF b, w
  <2> QED BY <1>14, <2>2 DEF Counted
<1>26. GoalAt(program, S, A, maxDepth, y)
  BY <1>14 DEF GoalAt
<1>27. 0 \in y.seen /\ y.expanded <= n + 1
  BY <1>1, <1>11, <1>12, <1>14
<1>28. SearchInv(program, S, A, maxDepth, maxNodes, n + 1, y)
  BY <1>13, <1>22, <1>23, <1>24, <1>25, <1>26, <1>27 DEF SearchInv
<1> QED BY <1>28 DEF y

\* A way the search can go: nothing left, a goal, too deep, or one state further.
LEMMA VisitKeeps ==
    ASSUME NEW program, NEW S, NEW A, Single(program, S, A), 0 \in S, IsFiniteSet(S),
           NEW l \in Nat, NEW actions \in [1..l -> A], \A a \in A : \E i \in 1..l : actions[i] = a,
           NEW maxDepth \in Nat, NEW maxNodes, NEW n \in Nat, NEW z,
           SearchInv(program, S, A, maxDepth, maxNodes, n, z), program.goal \in [S -> Answers]
    PROVE  SearchInv(program, S, A, maxDepth, maxNodes, n + 1,
                     Visit(program, actions, z, maxDepth, maxNodes))
<1>1. CASE z.goal # {FALSE} \/ z.queue = <<>> \/ z.expanded >= maxNodes
  <2>1. Visit(program, actions, z, maxDepth, maxNodes) = z
    BY <1>1 DEF Visit
  <2>2. SearchInv(program, S, A, maxDepth, maxNodes, n + 1, z)
    BY <1>1, TurnStopped
  <2> QED BY <2>1, <2>2
<1>2. CASE /\ ~(z.goal # {FALSE} \/ z.queue = <<>> \/ z.expanded >= maxNodes)
           /\ program.goal[Head(z.queue).state] # {FALSE}
  <2> DEFINE g == program.goal[Head(z.queue).state]
  <2>1. Visit(program, actions, z, maxDepth, maxNodes)
           = [z EXCEPT !.goal = g, !.path = Head(z.queue).path]
    BY <1>2 DEF Visit
  <2>3. g = program.goal[Head(z.queue).state] /\ g # {FALSE} /\ z.queue # <<>>
    BY <1>2
  <2> HIDE DEF g
  <2>2. SearchInv(program, S, A, maxDepth, maxNodes, n + 1,
                  [z EXCEPT !.goal = g, !.path = Head(z.queue).path])
    BY <2>3, TurnFound
  <2> QED BY <2>1, <2>2
<1>3. CASE /\ ~(z.goal # {FALSE} \/ z.queue = <<>> \/ z.expanded >= maxNodes)
           /\ program.goal[Head(z.queue).state] = {FALSE} /\ Len(Head(z.queue).path) >= maxDepth
  <2>1. Visit(program, actions, z, maxDepth, maxNodes) = [z EXCEPT !.queue = Tail(@)]
    BY <1>3 DEF Visit
  <2>2. SearchInv(program, S, A, maxDepth, maxNodes, n + 1, [z EXCEPT !.queue = Tail(@)])
    BY <1>3, TurnDropped
  <2> QED BY <2>1, <2>2
<1>4. CASE /\ ~(z.goal # {FALSE} \/ z.queue = <<>> \/ z.expanded >= maxNodes)
           /\ program.goal[Head(z.queue).state] = {FALSE} /\ ~(Len(Head(z.queue).path) >= maxDepth)
  <2> DEFINE next == Discover(program, actions, Head(z.queue).state, Head(z.queue).path,
                              Tail(z.queue), z.seen)
             y == [z EXCEPT !.queue = next.queue, !.seen = next.seen, !.expanded = @ + 1]
  <2>1. Visit(program, actions, z, maxDepth, maxNodes) = y
    BY <1>4 DEF Visit
  <2>2. SearchInv(program, S, A, maxDepth, maxNodes, n + 1, y)
    <3>1. next = Discover(program, actions, Head(z.queue).state, Head(z.queue).path,
                          Tail(z.queue), z.seen)
      OBVIOUS
    <3> HIDE DEF next
    <3> QED BY <1>4, <3>1, TurnExpanded
  <2> HIDE DEF y
  <2> QED BY <2>1, <2>2
<1> QED BY <1>1, <1>2, <1>3, <1>4

\* A turn of the search leaves a queue, the seen states and perhaps a result.
LEMMA VisitType ==
    ASSUME NEW program, NEW S, NEW A, Single(program, S, A), IsFiniteSet(S),
           NEW l \in Nat, NEW actions \in [1..l -> A], NEW maxDepth, NEW maxNodes,
           NEW z \in Searches(S, A), program.goal \in [S -> Answers]
    PROVE  Visit(program, actions, z, maxDepth, maxNodes) \in Searches(S, A)
<1> DEFINE q == z.queue
           rest == Tail(q)
           state == Head(q).state
           path == Head(q).path
           e == z.expanded + 1
           next == Discover(program, actions, state, path, rest, z.seen)
           Q == next.queue
           N == next.seen
           g == program.goal[state]
<1>1. /\ q \in Seq(Ways(S, A)) /\ z.seen \in SUBSET S /\ z.expanded \in Nat
  BY DEF Searches
<1>2. \/ Visit(program, actions, z, maxDepth, maxNodes) = z
      \/ q # <<>> /\ \/ Visit(program, actions, z, maxDepth, maxNodes)
                          = [z EXCEPT !.goal = g, !.path = path]
                     \/ Visit(program, actions, z, maxDepth, maxNodes)
                          = [z EXCEPT !.queue = rest]
                     \/ Visit(program, actions, z, maxDepth, maxNodes)
                          = [z EXCEPT !.queue = Q, !.seen = N, !.expanded = e]
  BY DEF Visit
<1> HIDE DEF q
<1>3. ASSUME q # <<>>
      PROVE  /\ path \in Seq(A) /\ rest \in Seq(Ways(S, A)) /\ e \in Nat
             /\ Q \in Seq(Ways(S, A)) /\ N \in SUBSET S /\ g \in Answers
  <2>1. rest \in Seq(Ways(S, A)) /\ Head(q) = q[1] /\ q[1] \in Ways(S, A)
    BY <1>1, <1>3, QueueTail
  <2>2. state \in S /\ path \in Seq(A)
    BY <2>1 DEF Ways
  <2>7. g \in Answers
    BY <2>2
  <2> DEFINE seen == z.seen
  <2>3. seen \in SUBSET S
    BY <1>1
  <2> HIDE DEF rest, state, path, seen, g
  <2>4. Discovered(program, S, A, l, actions, state, path, rest, seen)
    BY <2>1, <2>2, <2>3, DiscoverGrows
  <2>5. next \in Finds(S, A)
    BY <2>4 DEF Discovered, seen
  <2> HIDE DEF next
  <2>6. Q \in Seq(Ways(S, A)) /\ N \in SUBSET S
    BY <2>5 DEF Finds
  <2> QED BY <1>1, <2>1, <2>2, <2>6, <2>7
<1> HIDE DEF Q, N, e, rest, path, g
<1>4. CASE Visit(program, actions, z, maxDepth, maxNodes) = z
  BY <1>4
<1>5. CASE q # <<>> /\ Visit(program, actions, z, maxDepth, maxNodes)
                          = [z EXCEPT !.goal = g, !.path = path]
  BY <1>3, <1>5 DEF Searches
<1>6. CASE q # <<>> /\ Visit(program, actions, z, maxDepth, maxNodes) = [z EXCEPT !.queue = rest]
  BY <1>3, <1>6 DEF Searches
<1>7. CASE q # <<>> /\ Visit(program, actions, z, maxDepth, maxNodes)
                          = [z EXCEPT !.queue = Q, !.seen = N, !.expanded = e]
  BY <1>3, <1>7 DEF Searches
<1> QED BY <1>2, <1>4, <1>5, <1>6, <1>7

Begin ==
    [queue |-> <<[state |-> 0, path |-> <<>>]>>, seen |-> {0},
     expanded |-> 0, goal |-> {FALSE}, path |-> <<>>]

\* The function behind a search.
Searching(program, actions, maxDepth, maxNodes, turns) ==
    CHOOSE after : after = [n \in 0..turns |->
        IF n = 0 THEN Begin ELSE Visit(program, actions, after[n - 1], maxDepth, maxNodes)]

End(program, actions, maxDepth, maxNodes) ==
    LET turns == Cardinality(DOMAIN program.goal)
    IN  Searching(program, actions, maxDepth, maxNodes, turns)[turns]

\* BreadthFirstSearch in the words of these definitions.
LEMMA SearchFact ==
    ASSUME NEW program, NEW actions, NEW maxDepth, NEW maxNodes
    PROVE  BreadthFirstSearch(program, 0, actions, maxDepth, maxNodes) =
             LET end == End(program, actions, maxDepth, maxNodes)
             IN  {[found |-> found, path |-> end.path,
                   reason |-> IF found THEN "goal"
                              ELSE IF end.expanded >= maxNodes THEN "node_limit"
                              ELSE "depth_exhausted"] : found \in end.goal}
BY DEF BreadthFirstSearch, End, Searching, Begin

\* The search begins with the state it is asked about.
LEMMA BeginsRight ==
    ASSUME NEW program, NEW S, NEW A, Single(program, S, A), 0 \in S,
           NEW maxDepth \in Nat, NEW maxNodes
    PROVE  Begin \in Searches(S, A) /\ SearchInv(program, S, A, maxDepth, maxNodes, 0, Begin)
<1> DEFINE way == [state |-> 0, path |-> <<>>]
<1>1. way \in Ways(S, A) /\ way.state = 0 /\ way.path = <<>> /\ Len(way.path) = 0
  BY EmptySeq DEF Ways
<1> HIDE DEF way
<1>2. <<way>> \in Seq(Ways(S, A)) /\ Len(<<way>>) = 1 /\ <<way>>[1] = way
  BY <1>1
<1>3. Begin = [queue |-> <<way>>, seen |-> {0}, expanded |-> 0, goal |-> {FALSE}, path |-> <<>>]
  BY DEF Begin, way
<1>4. Begin \in Searches(S, A)
  <2> DEFINE g == {FALSE}
  <2>1. g \in Answers
    BY DEF Answers
  <2>2. Begin = [queue |-> <<way>>, seen |-> {0}, expanded |-> 0, goal |-> g, path |-> <<>>]
    BY <1>3
  <2> HIDE DEF g
  <2> QED BY <1>2, <2>1, <2>2, EmptySeq DEF Searches
<1> DEFINE q == <<way>>
<1>5. /\ Begin.queue = q /\ Begin.seen = {0} /\ Begin.expanded = 0 /\ Begin.goal = {FALSE}
      /\ Len(q) = 1 /\ q[1] = way
  BY <1>2, <1>3
<1> HIDE DEF q
<1>6. Walk(program, <<>>) = {0}
  <2> DEFINE n == 0
  <2>1. n \in Nat /\ <<>> \in [1..n -> A]
    OBVIOUS
  <2> HIDE DEF n
  <2>2. \E g \in [0..n -> SUBSET S] : IsWalk(g, program, <<>>, n)
    BY <2>1, WalkRun
  <2> QED BY <2>2 DEF IsWalk, n
<1>7. Frontier(program, A, maxDepth, Begin)
  <2>1. \A i \in 1..Len(q) : q[i] = way
    BY <1>5
  <2>2. Shortest(program, A, 0, <<>>)
    <3>1. 0..(Len(<<>>) - 1) = {}
      OBVIOUS
    <3> QED BY <1>6, <3>1 DEF Shortest
  <2> QED BY <1>1, <1>5, <2>1, <2>2 DEF Frontier
<1>8. Ordered(Begin)
  <2>1. \A i \in 1..Len(q) : i = 1
    BY <1>5
  <2>2. Len(q[1].path) = 0
    BY <1>1, <1>5
  <2> QED BY <1>5, <2>1, <2>2 DEF Ordered
<1>9. Explored(program, A, maxDepth, Begin)
  <2>1. 1 \in 1..Len(q) /\ q[1].state = 0
    BY <1>1, <1>5
  <2> QED BY <1>5, <2>1 DEF Explored, Queued
<1>10. Counted(maxNodes, 0, Begin)
  <2>1. Cardinality({0}) = 1
    BY FS_Singleton
  <2>2. Len(Begin.queue) + 0 = Cardinality(Begin.seen)
    BY <1>5, <2>1
  <2> QED BY <2>2 DEF Counted
<1>11. GoalAt(program, S, A, maxDepth, Begin)
  BY <1>5 DEF GoalAt
<1>12. 0 \in Begin.seen /\ Begin.expanded <= 0
  BY <1>5
<1> QED BY <1>4, <1>7, <1>8, <1>9, <1>10, <1>11, <1>12 DEF SearchInv

\* A search ends with one of the reasons, and says the truth.
LEMMA SearchEnds ==
    ASSUME NEW program, NEW S, NEW A, Single(program, S, A), 0 \in S, IsFiniteSet(S),
           program.goal \in [S -> Answers],
           NEW l \in Nat, NEW actions \in [1..l -> A], \A a \in A : \E i \in 1..l : actions[i] = a,
           NEW maxDepth \in Nat, NEW maxNodes
    PROVE  SearchInv(program, S, A, maxDepth, maxNodes, Cardinality(S),
                     End(program, actions, maxDepth, maxNodes))
<1> DEFINE turns == Cardinality(S)
           B == Searches(S, A)
           Step(b) == Visit(program, actions, b, maxDepth, maxNodes)
           F == [k \in 1..turns |-> [b \in B |-> Step(b)]]
           base == Begin
<1>1. turns \in Nat
  BY FS_CardinalityType
<1>2. base \in B /\ \A b \in B : Step(b) \in B
  BY BeginsRight, VisitType
<1>3. SearchInv(program, S, A, maxDepth, maxNodes, 0, base)
  BY BeginsRight
<1>4. End(program, actions, maxDepth, maxNodes)
         = Searching(program, actions, maxDepth, maxNodes, turns)[turns]
  BY DEF End
<1> HIDE DEF turns, B, base
<1>5. F \in [1..turns -> [B -> B]]
  BY <1>2
<1>6. PICK g \in [0..turns -> B] : Runs(g, turns, base, F)
  <2> HIDE DEF F, Step
  <2> QED BY <1>1, <1>2, <1>5, RunExists
<1>7. g = [n \in 0..turns |-> IF n = 0 THEN base ELSE Step(g[n - 1])]
  <2>1. ASSUME NEW n \in 0..turns PROVE g[n] = IF n = 0 THEN base ELSE Step(g[n - 1])
    <3>1. CASE n = 0
      BY <1>6, <3>1 DEF Runs
    <3>2. CASE n # 0
      <4>1. n \in 1..turns /\ n - 1 \in 0..turns
        BY <1>1, <3>2
      <4>2. g[n] = F[n][g[n - 1]] /\ g[n - 1] \in B
        BY <1>6, <4>1 DEF Runs
      <4>3. F[n][g[n - 1]] = Step(g[n - 1])
        BY <4>1, <4>2
      <4> QED BY <3>2, <4>2, <4>3
    <3> QED BY <3>1, <3>2
  <2> HIDE DEF Step
  <2> QED BY <2>1
<1> DEFINE c == Searching(program, actions, maxDepth, maxNodes, turns)
<1>8. c = [n \in 0..turns |-> IF n = 0 THEN base ELSE Step(c[n - 1])]
  BY <1>7 DEF Searching, base
<1> HIDE DEF c, Step
<1> DEFINE T == {n \in 0..turns : SearchInv(program, S, A, maxDepth, maxNodes, n, c[n])}
<1>9. 0 \in T
  <2>1. 0 \in 0..turns
    BY <1>1
  <2>2. c[0] = base
    BY <1>8, <2>1
  <2> QED BY <1>3, <2>1, <2>2
<1>10. ASSUME NEW k \in 1..turns, k - 1 \in T PROVE k \in T
  <2> DEFINE n == k - 1
             z == c[n]
  <2>1. n \in Nat /\ n + 1 = k /\ k \in 0..turns
    BY <1>1
  <2>2. SearchInv(program, S, A, maxDepth, maxNodes, n, z)
    BY <1>10
  <2>3. c[k] = Step(z)
    <3>1. k # 0 /\ k \in 0..turns
      BY <2>1
    <3>2. c[k] = IF k = 0 THEN base ELSE Step(c[k - 1])
      BY <1>8, <3>1
    <3> QED BY <3>1, <3>2
  <2> HIDE DEF n, z, T
  <2>4. SearchInv(program, S, A, maxDepth, maxNodes, n + 1, Step(z))
    BY <2>1, <2>2, VisitKeeps DEF Step
  <2> QED BY <2>1, <2>3, <2>4 DEF T
<1> HIDE DEF T
<1>11. 0..turns \subseteq T
  BY <1>1, <1>9, <1>10, Induction
<1>12. turns \in T
  BY <1>1, <1>11
<1> QED BY <1>4, <1>12 DEF T, c, turns

\* Whatever the program, the actions and the limits.
FindsShortest(program, S, A, depth, nodes, result) ==
    /\ \A found \in result :
         /\ found.found =>
              /\ Len(found.path) <= depth
              /\ \E s \in Walk(program, found.path) : program.goal[s] = {TRUE}
              /\ NoneWithin(program, A, Len(found.path) - 1)
         /\ found.reason = "depth_exhausted" => NoneWithin(program, A, depth)
         /\ found.reason = "node_limit" => nodes <= Cardinality(S)
         /\ found.path \in Seq(A)
    /\ result = {} =>
         \E d \in 0..depth :
             /\ \E s \in Layer(program, A, d) : program.goal[s] = {}
             /\ NoneWithin(program, A, d - 1)

\* A search finds a shortest way to a goal, misses none within its depth, gives up for its
\* nodes only when there are that many, and raises only for a state whose is_goal raises,
\* when no goal is nearer (search.py:24 and 40).
THEOREM SearchFindsShortest ==
    ASSUME NEW program, NEW S, NEW A, Single(program, S, A), 0 \in S, IsFiniteSet(S),
           program.goal \in [S -> Answers],
           NEW l \in Nat, NEW actions \in [1..l -> A], \A a \in A : \E i \in 1..l : actions[i] = a,
           NEW depth \in Nat, NEW nodes \in Nat
    PROVE  FindsShortest(program, S, A, depth, nodes,
                         BreadthFirstSearch(program, 0, actions, depth, nodes))
<1> DEFINE turns == Cardinality(S)
           end == End(program, actions, depth, nodes)
           Reason(found) == IF found THEN "goal"
                            ELSE IF end.expanded >= nodes THEN "node_limit"
                            ELSE "depth_exhausted"
           result == BreadthFirstSearch(program, 0, actions, depth, nodes)
<1>1. SearchInv(program, S, A, depth, nodes, turns, end)
  BY SearchEnds
<1>2. result = {[found |-> found, path |-> end.path, reason |-> Reason(found)] :
                    found \in end.goal}
  BY SearchFact
<1> HIDE DEF end, result
<1>4. /\ end \in Searches(S, A) /\ end.expanded \in Nat /\ end.expanded <= turns
      /\ end.queue \in Seq(Ways(S, A)) /\ end.path \in Seq(A) /\ end.seen \in SUBSET S
      /\ 0 \in end.seen /\ end.goal \in Answers
  BY <1>1 DEF SearchInv, Searches
<1>5. turns \in Nat
  BY FS_CardinalityType
<1>6. ASSUME end.goal # {FALSE}
      PROVE  /\ Len(end.path) <= depth /\ NoneWithin(program, A, Len(end.path) - 1)
             /\ \E s \in Walk(program, end.path) : program.goal[s] = end.goal
  BY <1>1, <1>6 DEF SearchInv, GoalAt
<1>7. ASSUME end.goal = {FALSE}, ~(end.expanded >= nodes)
      PROVE  NoneWithin(program, A, depth)
  <2>1. end.queue = <<>>
    <3>1. SUFFICES ASSUME end.queue # <<>> PROVE FALSE
      OBVIOUS
    <3>2. Len(end.queue) + turns = Cardinality(end.seen)
      BY <1>1, <1>7, <3>1 DEF SearchInv, Counted
    <3>3. Cardinality(end.seen) <= turns /\ Cardinality(end.seen) \in Nat
      BY <1>4, FS_Subset, FS_CardinalityType
    <3>4. Len(end.queue) \in Nat /\ Len(end.queue) # 0
      BY <1>4, <3>1, LenProperties, EmptySeq
    <3> HIDE DEF turns
    <3> QED BY <1>5, <3>2, <3>3, <3>4
  <2>2. Frontier(program, A, depth, end) /\ Explored(program, A, depth, end)
    BY <1>1 DEF SearchInv
  <2>3. depth \in 0..depth /\ \A i \in 1..Len(end.queue) : depth <= Len(end.queue[i].path)
    <3>1. Len(end.queue) = 0
      BY <2>1
    <3> QED BY <3>1
  <2>4. Covers(program, A, end, depth)
    BY <1>4, <2>2, <2>3, Covered
  <2> QED BY <2>1, <2>4 DEF Covers
<1>8. end.expanded >= nodes => nodes <= turns
  <2> HIDE DEF turns
  <2> QED BY <1>4, <1>5
<1>9. ASSUME NEW found \in result
      PROVE  /\ found.found =>
                  /\ Len(found.path) <= depth
                  /\ \E s \in Walk(program, found.path) : program.goal[s] = {TRUE}
                  /\ NoneWithin(program, A, Len(found.path) - 1)
             /\ found.reason = "depth_exhausted" => NoneWithin(program, A, depth)
             /\ found.reason = "node_limit" => nodes <= turns
             /\ found.path \in Seq(A)
  <2>1. PICK f \in end.goal : found = [found |-> f, path |-> end.path, reason |-> Reason(f)]
    BY <1>2
  <2>2. end.goal = {f} /\ f \in BOOLEAN
    BY <1>4, <2>1 DEF Answers
  <2>3. found.found = f /\ found.path = end.path /\ found.reason = Reason(f)
    <3> HIDE DEF Reason
    <3> QED BY <2>1
  <2> HIDE DEF turns
  <2>4. CASE f = TRUE
    BY <1>4, <1>6, <2>2, <2>3, <2>4
  <2>5. CASE f = FALSE
    BY <1>4, <1>7, <1>8, <2>2, <2>3, <2>5
  <2> QED BY <2>2, <2>4, <2>5
<1>10. ASSUME result = {}
       PROVE  \E d \in 0..depth :
                  /\ \E s \in Layer(program, A, d) : program.goal[s] = {}
                  /\ NoneWithin(program, A, d - 1)
  <2>1. end.goal = {}
    <3>1. ASSUME NEW f \in end.goal PROVE FALSE
      <4> DEFINE it == [found |-> f, path |-> end.path, reason |-> Reason(f)]
      <4>1. it \in result
        BY <1>2
      <4> HIDE DEF it
      <4> QED BY <1>10, <4>1
    <3> QED BY <3>1
  <2> DEFINE d == Len(end.path)
  <2>2. PICK s \in Walk(program, end.path) : program.goal[s] = {}
    BY <1>6, <2>1
  <2>3. d \in 0..depth /\ end.path \in [1..d -> A] /\ NoneWithin(program, A, d - 1)
    BY <1>4, <1>6, <2>1, LenProperties
  <2> HIDE DEF d
  <2>4. s \in Layer(program, A, d)
    BY <2>3 DEF Layer
  <2> QED BY <2>2, <2>3, <2>4
<1>11. FindsShortest(program, S, A, depth, nodes, result)
  BY <1>9, <1>10 DEF FindsShortest
<1> QED BY <1>11 DEF result

\* Every program TLC edits is such a program, for any number of edits (search.py:24).
THEOREM SearchIsShortest == Spec => []SearchShortest
<1>1. ProgramInv => SearchShortest
  <2>1. SUFFICES ASSUME case \in ProgramCases PROVE SearchShortest
    BY DEF ProgramInv, SearchShortest
  <2> DEFINE A == ToSet(Acts)
             program == case.program
  <2>2. program \in ProgramSet /\ case.game \in GameSet
    BY <2>1 DEF ProgramCases
  <2>3. Single(program, States, A) /\ 0 \in States
    BY <2>2, ProgramFacts
  <2>4. program.goal \in [States -> Answers]
    BY <2>2 DEF ProgramSet
  <2>5. IsFiniteSet(States)
    <3>1. 0 \in Int /\ 2 \in Int
      OBVIOUS
    <3>2. IsFiniteSet(0..2)
      BY <3>1, FS_Interval
    <3> QED BY <3>2 DEF States
  <2>6. Acts \in [1..2 -> A] /\ \A a \in A : \E i \in 1..2 : Acts[i] = a
    BY DEF Acts, ToSet
  <2> HIDE DEF A, program
  <2>7. ASSUME NEW depth \in 0..3, NEW nodes \in 1..4
        PROVE  FindsShortest(program, States, A, depth, nodes,
                             BreadthFirstSearch(program, 0, Acts, depth, nodes))
    <3> DEFINE l == 2
    <3>1. depth \in Nat /\ nodes \in Nat /\ l \in Nat
      OBVIOUS
    <3>2. Acts \in [1..l -> A] /\ \A a \in A : \E i \in 1..l : Acts[i] = a
      BY <2>6
    <3> HIDE DEF l
    <3> QED BY <2>3, <2>4, <2>5, <3>1, <3>2, SearchFindsShortest
  <2> DEFINE Ends(d) == Reaches(program, d, {{TRUE}, {}})
  <2>8. \A d : ~Ends(d) <=> NoneWithin(program, A, d)
    <3>1. ASSUME NEW n, NEW s \in Layer(program, A, n), n \in Nat
          PROVE  program.goal[s] \in Answers
      <4>1. s \in States
        BY <2>3, <3>1, LayerType
      <4> QED BY <2>4, <4>1
    <3>2. {TRUE} # {FALSE} /\ {} # {FALSE}
      OBVIOUS
    <3>3. \A n \in Nat : \A s \in Layer(program, A, n) :
             program.goal[s] \in {{TRUE}, {}} <=> program.goal[s] # {FALSE}
      BY <3>1, <3>2, Zenon DEF Answers
    <3>4. ASSUME NEW d PROVE ~Ends(d) <=> NoneWithin(program, A, d)
      <4>1. Ends(d) <=> \E n \in 0..d : \E s \in Layer(program, A, n) :
                           program.goal[s] \in {{TRUE}, {}}
        BY ReachesFact DEF A
      <4>2. \A n \in 0..d : n \in Nat
        OBVIOUS
      <4> HIDE DEF Ends
      <4> QED BY <3>3, <4>1, <4>2, Zenon DEF NoneWithin
    <3> HIDE DEF Ends
    <3> QED BY <3>4
  <2>9. \A d : Reaches(program, d, {{}}) <=>
                  \E n \in 0..d : \E s \in Layer(program, A, n) : program.goal[s] = {}
    BY ReachesFact DEF A
  <2> HIDE DEF Ends
  <2>10. ASSUME NEW depth \in 0..3, NEW nodes \in 1..4, NEW result,
                result = BreadthFirstSearch(program, 0, Acts, depth, nodes)
         PROVE  /\ \A found \in result :
                     /\ found.found =>
                          /\ Len(found.path) <= depth
                          /\ \E s \in Walk(program, found.path) : program.goal[s] = {TRUE}
                          /\ ~Ends(Len(found.path) - 1)
                     /\ found.reason = "depth_exhausted" => ~Ends(depth)
                     /\ found.reason = "node_limit" => nodes <= Cardinality(States)
                /\ result = {} =>
                     \E d \in 0..depth : Reaches(program, d, {{}}) /\ ~Ends(d - 1)
    <3>1. FindsShortest(program, States, A, depth, nodes, result)
      BY <2>7, <2>10
    <3>2. ASSUME result = {}
          PROVE  \E d \in 0..depth : Reaches(program, d, {{}}) /\ ~Ends(d - 1)
      <4>1. PICK d \in 0..depth : /\ \E s \in Layer(program, A, d) : program.goal[s] = {}
                                  /\ NoneWithin(program, A, d - 1)
        BY <3>1, <3>2 DEF FindsShortest
      <4>2. d \in 0..d
        OBVIOUS
      <4> QED BY <2>8, <2>9, <4>1, <4>2
    <3> QED BY <2>8, <3>1, <3>2 DEF FindsShortest
  <2> QED BY <2>10 DEF SearchShortest, Walk, Ends, program
<1> QED BY <1>1, ProgramInvInductive, AlwaysShaped, PTL DEF Spec
=============================================================================
