SPECIFICATION Spec
CONSTANTS
    Tries <- TriesToBuild
    Factors = {1, 1000}
    Vacant = 4
    TopByte = 4
    Highest = 3
    BaseHalf = 64
    KeyWidth = 1
    Asked <- AskedKeys
    Iterated = {"memory"}
    ValueWords <- Words
    MaxLength = 2
    MaxKeys = 4
CHECK_DEADLOCK FALSE
INVARIANTS
    TypeOK
    EveryCellHasOneParent
    NoKeyIsLost
    FindsExactlyTheKeys
    IteratesInOrder
