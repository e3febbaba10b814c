SPECIFICATION FairSpec
CONSTANTS
    a = a
    b = b
    Nodes = {a, b}
    Authors = {a}
    Streams = {1, 2}
    Capacity = 2
    Rounds = 2
    BatchSize = 2
    GraceTicks = 1
    MaxRequest = 10
    Faults = 1
INVARIANTS
    ReconnectIsClean
    StreamSkipsNothing

    
