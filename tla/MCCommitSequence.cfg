SPECIFICATION CommitSpec
CONSTANTS
    CommitteeSize = 4
    Stake <- EqualStake
    WaveLength = 3
    NumberOfLeaders = 2
    Pipeline = TRUE
    MaxRound = 6
    Candidates <- MCCandidates
INVARIANTS
    OneCertifiedLeader
    CommitsAgree
    DeliveredCausally
