\* A reader parked since the first scan, and the replies of the second.
SPECIFICATION Spec
CONSTANTS
    t1 = t1 t2 = t2 t3 = t3 e1 = e1 e2 = e2 stranger = stranger a = a b = b
    None = None
    Endpoints <- MCEndpoints
    Noise <- MCNoise
    NScans = 2
    Targets <- OneTarget
    EndpointOf <- OneEndpoint
    Open = {e1, e2}
    Sources = {a}
    Failing = {}
    Ending = {}
    Unroutable = {}
    SendFaults = {}
    Cancelable = FALSE
    Concurrency = 1
    SendAttempts = 1
    SeqMod = 3
    Bases = {0, 2}
PROPERTY NothingIsLostToParkedReaders
