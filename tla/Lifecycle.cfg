\* Three file names that count against a limit of two, one that does not; one other
\* instance beside this one, and two files ever made at the PID file's path; a count
\* is good for two seconds.  The program may end, so that deadlock is not an error.
SPECIFICATION Spec
CONSTANTS
    ME = me
    Instances = {me, other}
    MaxFile = 2
    NONE = NONE
    LIMIT = 2
    Images = {"i1", "i2", "i3"}
    Webps = {"w1"}
    CACHE = 2
    ArgLists <- MCArgLists
    Contents <- MCContents
INVARIANTS
    OneInstanceUnlessStolen
    NothingAsRoot
    EndsClean
    HandedToTheStarted
PROPERTIES
    LimitIsLateByCache
    EndsOnSignal
CHECK_DEADLOCK FALSE
