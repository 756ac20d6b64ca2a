SPECIFICATION FairSpec
CONSTANTS
    Proc = {p1, p2}
    Poller = {c1}
    Run = {r1, r2}
    Data = {d1}
    Followed = r1
    Legacy = {r1, r2}
    PageSize = 1
    MaxEvents = 2
INVARIANTS
    ServedChainValid EvidenceKept
PROPERTIES
    ImplementsRunLog LockFreed
