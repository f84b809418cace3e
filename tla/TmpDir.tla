------------------------------- MODULE TmpDir -------------------------------
(***************************************************************************)
(* The temporary directory (src/common/tmpdir.c): who owns it, what lies   *)
(* in it, and the cached count behind the limit of adjunct mode.  A file   *)
(* is its name; names are told apart by what is_tempfile makes of them.    *)
(***************************************************************************)
EXTENDS Integers, FiniteSets, FiniteSetsExt

CONSTANTS Images, \* our names with an extension is_tempfile knows
          Webps,  \* our names with another (.webp)
          CACHE   \* seconds a count is good for (5)

ASSUME TmpDirAssumption == CACHE \in Nat

VARIABLES
    tmpdir,  \* the struct of that name
    there,   \* does the directory exist?
    files,   \* names in it
    num, age,\* count_tmpfiles' num, and seconds since last_counted; CACHE + 1
             \* stands for more than CACHE, and for never
    over,    \* history: seconds it has held max_files or more that is_tempfile knows
    left,    \* history: what clean_tmpdir left in it
    unread   \* history: the last opendir of it failed

tmpvars == <<tmpdir, there, files, num, age, over, left, unread>>

Ours == Images \cup Webps
Index == "index.html"
Old == CACHE + 1

TmpInit ==
    /\ tmpdir = [path |-> FALSE, type |-> "user", max_files |-> 0, preserve_files |-> TRUE]
    /\ there = FALSE /\ files = {}
    /\ num = 0 /\ age = Old /\ over = 0 /\ left = {} /\ unread = FALSE

IsTempfile(n) == n \in Images
CountIn(fs) == Cardinality({n \in fs : IsTempfile(n)})

\* What the directory holds from now on.
Holds(fs) ==
    /\ files' = fs
    /\ over' = IF CountIn(fs) < tmpdir.max_files THEN 0 ELSE over

\* set_tmpdir, after mkdtemp made the directory or over the one of -d.
SetTmpdir(type, max, preserve, content) ==
    /\ tmpdir' = [path |-> TRUE, type |-> type, max_files |-> max, preserve_files |-> preserve]
    /\ there' = TRUE
    /\ files' = content
    /\ UNCHANGED <<num, age, over, left, unread>>

\* count_tmpfiles, for a caller whose limit is not zero: an old count is made
\* anew, and is zero, and stays old, when the directory cannot be opened.
Counted(opened) ==
    IF age <= CACHE THEN num ELSE IF opened THEN CountIn(files) ELSE 0

\* Mutant of AgeCounted: last_counted is set whether it counted or not.
AgeCounted_Always(opened) == 0

AgeCounted(opened) == IF age > CACHE /\ opened THEN 0 ELSE age

\* tmpfiles_limit_reached, and the effect of asking.
LimitReached(opened) == tmpdir.max_files # 0 /\ Counted(opened) >= tmpdir.max_files
AskedLimit(opened) ==
    IF tmpdir.max_files = 0 THEN UNCHANGED <<num, age, unread>>
    ELSE /\ num' = Counted(opened) /\ age' = AgeCounted(opened)
         /\ unread' = (age > CACHE /\ ~opened)

\* tmpfile_write_file under a new name; it does not say whether open or write
\* failed.
WriteFile(n) ==
    /\ n \notin files
    /\ Holds(files \cup {n}) \/ Holds(files)

\* clean_tmpdir's loop.
Cleaned == {n \in files : ~IsTempfile(n)}

\* clean_tmpdir: nothing is removed from a directory that cannot be opened,
\* and rmdir of one that is not empty fails.
CleanTmpdir ==
    /\ \/ tmpdir.preserve_files /\ UNCHANGED <<files, there, unread>>
       \/ /\ ~tmpdir.preserve_files
          /\ unread' \in BOOLEAN
          /\ files' = IF unread' THEN files ELSE Cleaned
          /\ there' = ~(tmpdir.type = "app" /\ files' = {})
    /\ tmpdir' = [tmpdir EXCEPT !.path = FALSE]
    /\ left' = files'
    /\ UNCHANGED <<num, age, over>>

\* A second passes; only a limit looks at the clock.
Second ==
    /\ tmpdir.max_files # 0
    /\ age' = Min({age + 1, Old})
    /\ over' = IF CountIn(files) < tmpdir.max_files THEN 0 ELSE Min({over + 1, Old})
    /\ UNCHANGED <<tmpdir, there, files, num, left, unread>>
=============================================================================
