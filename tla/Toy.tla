-------------------------------- MODULE Toy --------------------------------
(***************************************************************************)
(* The synthetic key and door world, and the rule program the repository   *)
(* ships for it.  Both are functions: what a step makes of a state.  The   *)
(* world keeps a stack for the undo action; the program knows neither that *)
(* action nor a reset.                                                     *)
(***************************************************************************)
EXTENDS Integers, Sequences, SequencesExt

Floor == 0
Wall == 5
Door == 8
Player == 9
Key == 11
Goal == 14

\* Actions are their numbers: 0 resets, 1 to 4 move, 5 does nothing, 7 undoes.
ToyAction == {0, 1, 2, 3, 4, 5, 7}

Directions == << <<0, -1>>, <<0, 1>>, <<-1, 0>>, <<1, 0>> >>

InitialGrid ==
    [p \in (0..11) \X (0..7) |->
        CASE p = <<1, 1>> -> Player
          [] p = <<3, 1>> -> Key
          [] p = <<5, 1>> -> Door
          [] p = <<8, 1>> -> Goal
          [] p[1] \in {0, 11} \/ p[2] \in {0, 7} -> Wall
          [] p[2] = 3 /\ p[1] \in 2..9 -> Wall
          [] OTHER -> Floor]

Beside(player, action) ==
    <<player[1] + Directions[action][1], player[2] + Directions[action][2]>>

-----------------------------------------------------------------------------
(* The world                                                               *)

WorldStart ==
    [grid |-> InitialGrid, player |-> <<1, 1>>, hasKey |-> FALSE,
     status |-> "NOT_FINISHED", undo |-> <<>>]

Place(world) ==
    [grid |-> world.grid, player |-> world.player, hasKey |-> world.hasKey,
     status |-> world.status]

\* A bump is remembered as a move is.
Move(world, action) ==
    LET there  == Beside(world.player, action)
        target == world.grid[there]
        noted  == [world EXCEPT !.undo = Append(@, Place(world))]
    IN  IF target = Wall \/ (target = Door /\ ~world.hasKey) THEN noted
        ELSE [noted EXCEPT
                !.grid = [@ EXCEPT ![world.player] = Floor, ![there] = Player],
                !.hasKey = @ \/ target = Key,
                !.player = there,
                !.status = IF there = <<8, 1>> THEN "WIN" ELSE @]

TakeBack(world) ==
    LET last == Last(world.undo)
    IN  [grid |-> last.grid, player |-> last.player, hasKey |-> last.hasKey,
         status |-> last.status, undo |-> Front(world.undo)]

\* Also a game that is won can be undone; nothing else moves it.
WorldStep(world, action) ==
    CASE action = 0 -> WorldStart
      [] action = 7 -> IF world.undo = <<>> THEN world ELSE TakeBack(world)
      [] action \in DOMAIN Directions /\ world.status = "NOT_FINISHED" -> Move(world, action)
      [] OTHER -> world

WorldShows(world) ==
    [grid |-> world.grid, status |-> world.status,
     levels |-> IF world.status = "WIN" THEN 1 ELSE 0]

-----------------------------------------------------------------------------
(* The program                                                             *)

\* The state the program reads off a grid.
Find(grid, color) == {p \in DOMAIN grid : grid[p] = color}

ModelStart(grid) ==
    [grid |-> grid, player |-> CHOOSE p \in Find(grid, Player) : TRUE,
     goal |-> Find(grid, Goal), hasKey |-> FALSE, status |-> "NOT_FINISHED", levels |-> 0]

\* Faulty variant of ModelStep: the door never needs the key.
ModelStepOpen(state, action) ==
    IF action \notin DOMAIN Directions \/ state.status # "NOT_FINISHED" THEN state
    ELSE LET there  == Beside(state.player, action)
             target == state.grid[there]
         IN  IF target = Wall THEN state
             ELSE [state EXCEPT
                     !.grid = [@ EXCEPT ![state.player] = Floor, ![there] = Player],
                     !.player = there,
                     !.status = IF state.goal = {there} THEN "WIN" ELSE @,
                     !.levels = IF state.goal = {there} THEN 1 ELSE @]

ModelStep(state, action) ==
    IF action \notin DOMAIN Directions \/ state.status # "NOT_FINISHED" THEN state
    ELSE LET there  == Beside(state.player, action)
             target == state.grid[there]
         IN  IF target = Wall \/ (target = Door /\ ~state.hasKey) THEN state
             ELSE [state EXCEPT
                     !.grid = [@ EXCEPT ![state.player] = Floor, ![there] = Player],
                     !.hasKey = @ \/ target = Key,
                     !.player = there,
                     !.status = IF state.goal = {there} THEN "WIN" ELSE @,
                     !.levels = IF state.goal = {there} THEN 1 ELSE @]

ModelShows(state) == [grid |-> state.grid, status |-> state.status, levels |-> state.levels]
=============================================================================
