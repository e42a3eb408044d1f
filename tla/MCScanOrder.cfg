SPECIFICATION OrderSpec
CONSTANTS
    Space4 = 8
    Space6 = 32
    Mapped = 8
    Nil = Nil
    None = None
    NetworkLists <- MCNetworkLists
    PortLists <- MCPortLists
    MaxPort = 3
    MaxHosts = 16
    U64 = 32
    maxConnectAddresses = 6
    Sizes <- MCSizes
    Seeds <- MCSeeds
    Round <- MCRound
    W = 32
    Route <- MCRoute
    maxSourceIpCacheSize = 2
INVARIANTS
    OrderTypeOK
    ExactlyOnce
    FewSteps
    EachPairIsProbed
    AddressesAreTheHosts
    RefusedIfTooMany
