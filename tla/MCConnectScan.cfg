SPECIFICATION FairSpec
CONSTANTS
    a1 = a1
    a2 = a2
    None = None
    Addresses <- TwoAddresses
    Ports <- TwoPorts
    Open <- FirstIsOpen
    LocalFaults <- AllEndpoints
    Concurrency = 2
    Banner = TRUE
    Cancelable = TRUE
    HasDeadline = TRUE
INVARIANTS
    TypeOK
    SocketsBounded
    NothingOutlivesTheScan
PROPERTIES
    KeepsContract
    ScanReturns
