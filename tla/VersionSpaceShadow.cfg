SPECIFICATION Spec
CONSTANTS
    p1 = p1
    p2 = p2
    p3 = p3
    o1 = o1
    o2 = o2
    Program = {p1, p2, p3}
    NoProgram = NoProgram
    Ontology = {o1, o2}
    Size <- MCSize
    Rank <- MCRank
    Candidates = 2
    Budget = 2
    Faults = {}
INVARIANTS
    OnlyCommittedModelControls
