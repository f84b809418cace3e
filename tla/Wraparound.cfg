\* The segments of Reassembly.cfg, with sequence numbers that pass through zero.
SPECIFICATION Spec
CONSTANTS
    SeqSpace = 64
    WRAPLEN = 3
    MAXCONNECTIONDATA = 8
    TIMEOUT = 1
    A = A
    B = B
    C = C
    FirstIsn = 61
    NULL = NULL
    Addrs = {A, B}
    Packets <- StreamPackets
    InitSlots = 1
    MaxTime = 0
    Media <- StreamMedia
    HdrLen = 2
    LimitReached = {TRUE, FALSE}
INVARIANT StreamOrder
