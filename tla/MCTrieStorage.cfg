SPECIFICATION Spec
CONSTANTS
    TopByte = 4
    BaseHalf = 8
    MaxCell = 1
    MaxValue = 2
    CellIndex <- CellIndexes
    ValueIndex <- ValueIndexes
    Bases <- SomeBases
    Checks = {1}
    Codecs <- ValueCodecs
    Capacities = {1, 2}
    ContentOffsets = {0, 1}
    MaxStorages = 2
    MaxWrites = 2
CHECK_DEADLOCK FALSE
INVARIANTS
    TypeOK
    MappedAnswersAsWritten
    RecentValuesStay
PROPERTIES
    ImplementsStorageContract
