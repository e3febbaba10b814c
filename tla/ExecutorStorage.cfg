SPECIFICATION Spec
CONSTANTS
    Clusters <- TwoClusters
    ReplicaId = 0
    ReplicaNum = 2
    ContendedBatch = 3
    Value = 1
    Threads = {t1, t2}
    Concurrency = 2
    BatchRounds = 2
    Drivers = {"executor"}
    DrainSize = 3
    Contentions <- FirstContentions
    DivergeAt = 1
    FastFrom = 1
    Funds = 1
    NoTx = NoTx
    InitialBatch = 2
    MaxPending = 2
    PendingBound = 5
    PerInterval = 3
    MaxBlock = 2
    ChannelCap = 1
    BlockCap = 1
    SoftMax = 1
    DagBound = 1
    Window = 11
    Files <- SomeFiles
    Chunk = 2
    Origins <- SomeOrigins
    Senders = {"p", "q"}
    Callees = {"q", "k"}
    NewContract = "n"
    HugeBalance = 5
    MaxTxs = 3
    Machines <- SixMachines
    Region <- TwoRegions
    ActiveSets <- SomeActive
    Committee = 4
    Loads <- TwoLoads
    Monitoring = TRUE
    DedicatedClients = 0
    FaultsTypes <- SomeFaults
    MaxTicks = 5
    MaxFailures = 2
    MaxAttempts = 2
INVARIANT ExecutorStorageFollows
CHECK_DEADLOCK FALSE
