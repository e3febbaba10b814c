SPECIFICATION Spec
CONSTANTS
    None = None
    Authorities = {a1, a2, a3}
    Me = a1
    Light = a2
    Heavy = a3
    Stake <- Stakes
    Shares <- SharesOf
    Blocks <- BlocksOf
    Clients = 1
    Crashes = 1
INVARIANTS
    CountsExact
    VotesNotLost
    CertificatesAgree
