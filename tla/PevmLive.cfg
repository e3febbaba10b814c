SPECIFICATION FairSpec
CONSTANTS
    BlockSize = 3
    Workers = {w1, w2}
    Locations <- AllLocations
    NoLoc = NoLoc
    Coinbase = "C"
    Blocks <- CallsOnly
    Effects <- BlockEffects
PROPERTIES
    Termination
