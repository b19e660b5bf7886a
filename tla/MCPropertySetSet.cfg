SPECIFICATION Spec
CONSTANTS
    p = p
    Process = {p}
    Medium = {"file"}
    Setting <- OneKey
    Uint32 = {0, 1, 2, 3}
    Lazy = {}
    Edited <- Nothing
    Written <- WrittenLines
    LoadValueMap <- Loaded
    UintRange = 4
    UlongRange = 16
PROPERTIES
    SetTakesEffect
