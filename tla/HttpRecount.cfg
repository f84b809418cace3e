\* As HttpDisplay, with nothing assumed about when a message comes in.
SPECIFICATION Spec
CONSTANTS
    Pages = {p1, p2}
    SIZE = 3
    MaxSent = 3
    HEAD = HEAD
    NIL = NIL
INVARIANT UnreadIntact
CHECK_DEADLOCK FALSE
