\* Two pages at a time, a ring that holds two messages, four messages: a page may
\* connect to a full ring, leave with the oldest tail, and find the ring wrapped.
\* The process may end (crash), so that deadlock is not an error.
SPECIFICATION Spec
CONSTANTS
    Pages = {p1, p2}
    SIZE = 3
    MaxSent = 4
    HEAD = HEAD
    NIL = NIL
CONSTRAINT NotRaced
INVARIANTS
    UnreadIntactUnlessRaced
    RingIsTheLastMessages
    NoLostWakeup
PROPERTIES
    KeepsPromise
    EveryPageGetsIt
CHECK_DEADLOCK FALSE
