SPECIFICATION GreedySpec
CONSTANTS
    Inputs <- AllInputs
    Threads <- TwoThreads
    MaxMerged = 2
INVARIANTS
    GraphIsWellFormed
    ScheduleIsSound
    IntegrationIsSound
PROPERTY
    ImplementsSchedule
