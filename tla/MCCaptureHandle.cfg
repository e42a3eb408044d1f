SPECIFICATION FairSpec
CONSTANTS
    r1 = r1
    r2 = r2
    None = None
    Readers = {r1, r2}
    PacketLists <- MCPacketLists
    listenPort = 32770
    maxPort = 65535
    Faulty = TRUE
    MaxInterrupts = 1
INVARIANTS
    TypeOK
    FilterKeepsReplies
    EveryReplyOnce
    CloseIsNotAFailure
PROPERTIES
    ClosingEnds
