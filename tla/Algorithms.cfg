SPECIFICATION Spec
CONSTANTS
    GridBounds <- MCGrids
    MaxChanges = 2
    MaxEdits = 2
    MaxPlan = 3
    MaxDetours = 2
    MaxUndo = 10
    MaxTracked = 2
    Limit = 1
    MaxLevels = 3
    MaxActions = 3
CHECK_DEADLOCK FALSE
INVARIANTS
    SceneSegmented SceneDiffExact TracksStable VerdictIsReplay CertifiedPlanStays
    SearchShortest ToyModelPredicts ScoreRewards
