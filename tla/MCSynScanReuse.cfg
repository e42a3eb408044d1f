\* Two scans by one Scanner: readers, timers and replies of the first live into the second.
SPECIFICATION Spec
CONSTANTS
    t1 = t1 t2 = t2 t3 = t3 e1 = e1 e2 = e2 stranger = stranger a = a b = b
    None = None
    Endpoints <- MCEndpoints
    Noise = {}
    NScans = 2
    Targets <- TwoTargets
    EndpointOf <- DistinctEndpoints
    Open = {e1}
    Sources = {a}
    Failing = {}
    Ending = {}
    Unroutable = {}
    SendFaults = {}
    Cancelable = FALSE
    Concurrency = 1
    SendAttempts = 1
    SeqMod = 3
    Bases = {0, 2}
INVARIANTS
    ProbeFindable
    FreeSlotIsNil
PROPERTIES
    ParkedReaderIsSilent
