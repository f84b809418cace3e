\* Up to three chunks waiting, four nodes: the one last played and three more.
SPECIFICATION Spec
CONSTANTS
    Nodes = {n1, n2, n3, n4}
    Chunks <- TwoChunks
    MAX_BUFFERED = 2
    WRCHUNK = 1
    NIL = NIL
INVARIANTS
    TypeOK
    ListIntact
    CountIsWaiting
PROPERTIES
    PlaysInOrder
    EveryChunkPlayed
