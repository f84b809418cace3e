\* Eight streams of two or three small files (of the drivers' real signatures and
\* header sizes), in segments of 1 and 17 bytes or none, in eleven framings.  Two
\* MPEG frames make a stream, and 60 characters without an end are not a request.
\* A stream ends, so that deadlock is not an error.
SPECIFICATION Spec
CONSTANTS
    EXTENT = 2
    MAXREQ = 60
    Streams <- MCStreams
    Framings <- MCFramings
    Sizes = {0, 1, 17}
INVARIANTS
    FindsWholeFiles
    FoundAtOnce
CHECK_DEADLOCK FALSE
