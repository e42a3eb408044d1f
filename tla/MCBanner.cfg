SPECIFICATION BannerSpec
CONSTANTS
    None = None
    Options <- MCOptions
    Defaults <- MCDefaults
    Services <- MCServices
    Deadlines <- MCDeadlines
    maxTextLength = 3
    binaryRunLength = 2
    Share = 75
INVARIANTS
    TypeOK
    FreshHandshake
    GrabIsBounded
    FindsWhatIsThere
    NothingStaysOpen
    BannerTellsWhatWasSaid
