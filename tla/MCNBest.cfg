SPECIFICATION Spec
CONSTANTS
    Chunk <- Chunks
    Entries <- Vocabulary
    Connections <- CostsOfEdges
    MaxCost = 99
    MaxLength = 3
    MaxSteps = 4
CHECK_DEADLOCK FALSE
INVARIANTS
    PathCostIsOptimal
    PathsComeInOrder
    NothingIsSkipped
    CapsPartitionTheRest
