\* Every list that pushes of segments within 7 offsets can build.
SPECIFICATION Spec
CONSTANTS
    SeqSpace = 64
    WRAPLEN = 6
    MAXCONNECTIONDATA = 6
    TIMEOUT = 1
    MaxEnd = 7
INVARIANTS
    LoopIsPushBlock
    ListSorted
