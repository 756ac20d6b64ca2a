SPECIFICATION Spec
CONSTANTS
    Budget = 1
    MaxPlan = 1
    Faults = {"store", "environment"}
INVARIANT LostOutcomeReported
