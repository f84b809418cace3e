\* Two directions and a third party, FIN, RST and the passing of time, through a
\* table that starts with one slot.
SPECIFICATION Spec
CONSTANTS
    SeqSpace = 64
    WRAPLEN = 2
    MAXCONNECTIONDATA = 3
    TIMEOUT = 1
    A = A
    B = B
    C = C
    FirstIsn = 20
    NULL = NULL
    Addrs = {A, B, C}
    Packets <- TalkPackets
    InitSlots = 1
    MaxTime = 2
    Media <- TalkMedia
    HdrLen = 1
    LimitReached = {FALSE}
INVARIANTS
    NothingUnsearchedAtRest
    OneConnectionPerPair
    SweptBehind
    MemoryBounded
PROPERTIES
    ResetForgetsBoth
