SPECIFICATION CoreSpec
CONSTANTS
    CommitteeSize = 4
    Stake <- EqualStake
    WaveLength = 3
    NumberOfLeaders = 2
    Pipeline = TRUE
    Self = 0
    CommitPeriod = 3
    SoftMax = 2
    UsizeModulus = 100
    Settings <- MCSettings
INVARIANTS
    RestartRebuilds
    ProposalsVerify
    NothingDropped
    ManagerExact
    NoOwnFork
