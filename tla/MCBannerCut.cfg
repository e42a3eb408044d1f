\* The banners of a SYN scan that its caller lets finish.
SPECIFICATION BannerSpec
CONSTANTS
    None = None
    Options <- MCOptions
    Defaults <- MCDefaults
    Services <- MCServices
    Deadlines <- MCDeadlines
    maxTextLength = 3
    binaryRunLength = 2
    Share = 75
INVARIANT SilentMeansSilent
