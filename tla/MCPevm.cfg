SPECIFICATION PevmSpec
CONSTANTS
    BlockSize = 3
    Workers = {w1, w2}
    Locations <- AllLocations
    NoLoc = NoLoc
    Coinbase = "C"
    Blocks <- AllBlocks
    Effects <- BlockEffects
SYMMETRY WorkerSymmetry
INVARIANTS
    NoTaskLost
    JoinedMeansValidated
    CompletedWritesAreData
    MatchesSequential
PROPERTIES
    LifeCycle
