\* A reader that is about to report when the grace period runs out.
SPECIFICATION Spec
CONSTANTS
    t1 = t1 t2 = t2 t3 = t3 e1 = e1 e2 = e2 stranger = stranger a = a b = b
    None = None
    Endpoints <- MCEndpoints
    Noise <- MCNoise
    NScans = 1
    Targets <- OneTarget
    EndpointOf <- OneEndpoint
    Open = {e1}
    Sources = {a}
    Failing = {}
    Ending = {}
    Unroutable = {}
    SendFaults = {}
    Cancelable = FALSE
    Concurrency = 1
    SendAttempts = 1
    SeqMod = 3
    Bases = {2}
INVARIANT CallbacksReturnBeforeScan
