SPECIFICATION Spec
CONSTANTS
    Tries <- TriesToBuild
    Factors = {1000}
    Vacant = 4
    TopByte = 4
    Highest = 4
    BaseHalf = 64
    KeyWidth = 1
    Asked <- AskedKeys
    Iterated = {"memory"}
    ValueWords <- Words
    MaxLength = 1
    MaxKeys = 2
CHECK_DEADLOCK FALSE
INVARIANTS
    FindsExactlyTheKeys
