\* One scan in which everything that can fail may: an open endpoint numbered twice, two slots, two sources.
SPECIFICATION Spec
CONSTANTS
    t1 = t1 t2 = t2 t3 = t3 e1 = e1 e2 = e2 stranger = stranger a = a b = b
    None = None
    Endpoints <- MCEndpoints
    Noise <- MCNoise
    NScans = 1
    Targets <- TwoTargets
    EndpointOf <- OverlappingEndpoints
    Open = {e1}
    Sources = {a, b}
    Failing = {a, b}
    Ending = {a, b}
    Unroutable = {t1}
    SendFaults = {"transient", "permanent"}
    Cancelable = TRUE
    Concurrency = 2
    SendAttempts = 2
    SeqMod = 3
    Bases = {2}
SYMMETRY SourceSymmetry
INVARIANTS
    TypeOK
    NilMeansComplete
    LostReadersAreAllReported
    SlotPool
    ResultsAreSound
PROPERTIES
    ResultIsFinal
