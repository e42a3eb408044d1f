\* The same hazards under fair scheduling.
SPECIFICATION FairSpec
CONSTANTS
    t1 = t1 t2 = t2 t3 = t3 e1 = e1 e2 = e2 stranger = stranger a = a b = b
    None = None
    Endpoints <- MCEndpoints
    Noise <- MCNoise
    NScans = 1
    Targets <- TwoTargets
    EndpointOf <- DistinctEndpoints
    Open = {e1, e2}
    Sources = {a}
    Failing = {a}
    Ending = {}
    Unroutable = {}
    SendFaults = {"transient"}
    Cancelable = TRUE
    Concurrency = 1
    SendAttempts = 2
    SeqMod = 3
    Bases = {2}
PROPERTIES
    ScanReturns
    AnsweredIsReported
    SlotsComeBack
    ClosingFreesReaders
