\* Three files, a pipe of one name, two names in a call, a table of one
\* rectangle that doubles.  Both processes end, so that deadlock is no error.
SPECIFICATION Spec
CONSTANTS
    Images <- MCImages
    Sizes <- MCSizes
    Points <- MCPoints
    Existing <- MCExisting
    MaxFiles = 3
    MaxNum = 0
    CAPACITY = 1
    BATCH = 2
    TABLE = 1
INVARIANTS
    TypeOK
    FileLivesWithItsImage
    ImagesApart
PROPERTIES
    BltInBounds
    SenderGoesOn
    DisplayEnds
CHECK_DEADLOCK FALSE
