SPECIFICATION FairSpec
CONSTANTS
    Threads = {r1, r2}
    Hosts = {"h1", "h2"}
    Call = Call
    None = None
    Bound <- SomeFaults
INVARIANTS
    TypeOK
    CheckConverges
    NotFoundJustified
    ErrorsJustified
    DiscoveryJustified
PROPERTIES
    RefinesHostTable
    EventuallyConnected
