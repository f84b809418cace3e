\* One direction of one conversation: segments in any order, repeated, cut
\* differently, with gaps, from the middle of the stream, and a reset.
SPECIFICATION FairSpec
CONSTANTS
    SeqSpace = 64
    WRAPLEN = 3
    MAXCONNECTIONDATA = 8
    TIMEOUT = 1
    A = A
    B = B
    C = C
    FirstIsn = 20
    NULL = NULL
    Addrs = {A, B}
    Packets <- StreamPackets
    InitSlots = 1
    MaxTime = 0
    Media <- StreamMedia
    HdrLen = 2
    LimitReached = {TRUE, FALSE}
INVARIANTS
    TypeOK
    SearchOnlyReceived
    BlocksSeparated
    SearchComplete
    MediaIntact
    StreamOrder
PROPERTIES
    FreshDataIsSearchable
    FindsOnlyReceived
    CaughtUp
