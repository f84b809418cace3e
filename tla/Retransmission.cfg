\* The segments of Reassembly.cfg, and the claim that the blocks hold what was
\* received: a retransmission that falls into a block hides what is behind it.
SPECIFICATION Spec
CONSTANTS
    SeqSpace = 64
    WRAPLEN = 3
    MAXCONNECTIONDATA = 8
    TIMEOUT = 1
    A = A
    B = B
    C = C
    FirstIsn = 20
    NULL = NULL
    Addrs = {A, B}
    Packets <- StreamPackets
    InitSlots = 1
    MaxTime = 0
    Media <- StreamMedia
    HdrLen = 2
    LimitReached = {TRUE, FALSE}
PROPERTY RepeatHidesNothing
