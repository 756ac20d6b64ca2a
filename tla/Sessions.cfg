SPECIFICATION FairSpec
CONSTANTS
    long = s1
    Session = {s1, s2}
    Client = {c1}
    Official = {s1, s2}
    MaxWorkers = 1
    MaxLong = 4
    MaxOther = 1
    MaxVersion <- MCMaxVersion
CHECK_DEADLOCK FALSE
INVARIANTS
    OneFuture
    ViewNamesPhase
PROPERTIES
    GrantedPhaseRuns
    AutoRunAsks
    CommandEnds
