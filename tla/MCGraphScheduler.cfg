SPECIFICATION GraphFairSpec
CONSTANTS
    BlockSize = 3
    Workers = {w1, w2}
    MaxIncarnation = 1
    Graphs <- ShapedGraphs
INVARIANTS
    ParentsFirst
    GraphJoinedHasResults
PROPERTY
    GraphTermination
