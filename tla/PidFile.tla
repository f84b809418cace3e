------------------------------ MODULE PidFile ------------------------------
(***************************************************************************)
(* The PID file of adjunct mode (src/pid.c): create_pidfile and            *)
(* close_pidfile of several instances of driftnet over one path.  The file *)
(* system is that of fcntl locks: a name leads to a file, a lock belongs   *)
(* to a file and a process, and goes when the process closes the file or   *)
(* dies.  An unlinked file lives on for those that have it open.           *)
(***************************************************************************)
EXTENDS Integers, FiniteSets

CONSTANTS Instances, \* processes that may use the file
          MaxFile,   \* bound on the files ever created at the path
          NONE

ASSUME PidFileAssumption == MaxFile \in Nat /\ NONE \notin Nat \cup Instances

VARIABLES
    ppc,     \* for each instance its place; "in" between create and close
    fd,      \* the file each has open, or NONE
    path,    \* the file at PID_FILEPATH_UNIX, or NONE
    created, \* number of files created so far
    holder,  \* for each file, who holds the lock, or NONE
    stolen   \* history: a file was unlinked that another had open

pidvars == <<ppc, fd, path, created, holder, stolen>>

Numbers == 1 .. MaxFile

PidInit ==
    /\ ppc = [p \in Instances |-> "out"]
    /\ fd = [p \in Instances |-> NONE]
    /\ path = NONE
    /\ created = 0
    /\ holder = [f \in Numbers |-> NONE]
    /\ stolen = FALSE

\* Closing the file, or the process's end, gives the lock up.
Released(p) == [f \in Numbers |-> IF holder[f] = p THEN NONE ELSE holder[f]]

\* open(O_RDWR | O_CREAT)
OpenFile(p) ==
    /\ ppc[p] = "out"
    /\ \/ /\ path # NONE
          /\ fd' = [fd EXCEPT ![p] = path]
          /\ UNCHANGED <<path, created>>
       \/ /\ path = NONE /\ created < MaxFile
          /\ created' = created + 1
          /\ path' = created'
          /\ fd' = [fd EXCEPT ![p] = created']
    /\ ppc' = [ppc EXCEPT ![p] = "opened"]
    /\ UNCHANGED <<holder, stolen>>

\* Mutant of LockFile: the lock does not exclude (F_RDLCK).
LockFile_Shared(p) ==
    /\ ppc[p] = "opened"
    /\ holder' = [holder EXCEPT ![fd[p]] = p]
    /\ ppc' = [ppc EXCEPT ![p] = "in"]
    /\ UNCHANGED <<fd, path, created, stolen>>

\* fcntl(F_SETLK), then the pid is written.
LockFile(p) ==
    /\ ppc[p] = "opened"
    /\ holder[fd[p]] = NONE
    /\ holder' = [holder EXCEPT ![fd[p]] = p]
    /\ ppc' = [ppc EXCEPT ![p] = "in"]
    /\ UNCHANGED <<fd, path, created, stolen>>

\* "probably the program is already running": exit, and so does an instance
\* for which a call fails, or which is killed.  The file stays.
Leave(p) ==
    /\ ppc[p] \in {"opened", "in", "closed"}
    /\ ppc' = [ppc EXCEPT ![p] = "out"]
    /\ fd' = [fd EXCEPT ![p] = NONE]
    /\ holder' = Released(p)
    /\ UNCHANGED <<path, created, stolen>>

\* close_pidfile closes first and unlinks then, whatever is there by then.
CloseFile(p) ==
    /\ ppc[p] = "in"
    /\ ppc' = [ppc EXCEPT ![p] = "closed"]
    /\ fd' = [fd EXCEPT ![p] = NONE]
    /\ holder' = Released(p)
    /\ UNCHANGED <<path, created, stolen>>

UnlinkFile(p) ==
    /\ ppc[p] = "closed"
    /\ ppc' = [ppc EXCEPT ![p] = "out"]
    /\ stolen' = (stolen \/ \E q \in Instances : fd[q] # NONE /\ fd[q] = path)
    /\ path' = NONE
    /\ UNCHANGED <<fd, created, holder>>

PidStep(p) == OpenFile(p) \/ LockFile(p) \/ Leave(p) \/ CloseFile(p) \/ UnlinkFile(p)

\* Instances and nothing else.
PidNext == \E p \in Instances : PidStep(p)
PidSpec == PidInit /\ [][PidNext]_pidvars

-----------------------------------------------------------------------------

\* Two instances run only after one that ended has unlinked the file of
\* another, between whose open and whose end its close_pidfile fell.
OneInstanceUnlessStolen ==
    stolen \/ \A p, q \in Instances : ppc[p] = "in" /\ ppc[q] = "in" => p = q
=============================================================================
