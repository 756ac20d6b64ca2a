SPECIFICATION Spec
CONSTANTS
    Budget = 2
    MaxPlan = 2
    Faults = {"shape"}
INVARIANT MismatchCancelsPlan
