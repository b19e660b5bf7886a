SPECIFICATION Spec
CONSTANTS
    p = p
    q = q
    Process = {p, q}
    Medium = {"file", "memory"}
    Setting <- ThreeKeys
    Uint32 = {0, 1, 2, 3}
    Lazy = {q}
    Edited <- ByHand
    Written <- WrittenLines
    LoadValueMap <- Loaded
    UintRange = 4
    UlongRange = 16
INVARIANTS
    TypeOK
    CommittedIsReadBack
    
    CommitLosesNothing
