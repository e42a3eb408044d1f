SPECIFICATION ProgramSpec
CONSTANTS
    a = a
    b = b
    c = c
    r1 = r1
    r2 = r2
    None = None
    UpInterfaces <- MCUpInterfaces
    OptionLists <- MCOptionLists
    Names = {a, b, c}
    Default <- MCDefault
    MaxUint32 = 500
    Specs <- MCSpecs
    defaultPortsSpec <- MCDefaultPortsSpec
    maxPort = 4
    Results = {r1, r2}
INVARIANTS
    ProgramTypeOK
    HearsOnlyItsOwn
    ScanIsAsAsked
    StatusIsTrue
PROPERTIES
    ProgramEnds
