SPECIFICATION Spec
CONSTANTS
    a1 = a1
    a2 = a2
    None = None
    Addresses <- OneAddress
    Ports <- OnePort
    Open <- FirstIsOpen
    LocalFaults <- NoFault
    Concurrency = 1
    Banner = FALSE
    Cancelable = FALSE
    HasDeadline = TRUE
INVARIANTS
    NilMeansUncut
