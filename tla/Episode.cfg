SPECIFICATION RunSpec
CONSTANTS
    Budget = 2
    MaxPlan = 2
    Faults = {"store", "environment", "service", "shape", "close"}
INVARIANTS
    TypeOK
    SpendAccounted
    PlanGrounded
    FinishExplained
    FinishedRunPassesAudit
PROPERTIES
    SpendJustified
    ImplementsLedger
    ImplementsPhaseControl
    ImplementsTheory
    RunEnds
