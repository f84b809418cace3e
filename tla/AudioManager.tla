---------------------------- MODULE AudioManager ----------------------------
(***************************************************************************)
(* The processes that play audio (src/media/playaudio.c): driftnet itself, *)
(* the manager it forks, and the players the manager forks, one after the  *)
(* other.  driftnet holds the write end of the pipe that is the players'   *)
(* standard input; the signal handler terminate_on_signal (src/driftnet.c) *)
(* is set up before the fork, so that the manager has it too.              *)
(***************************************************************************)
EXTENDS Integers

CONSTANT MaxPlayers  \* bound on the players that run at a time

VARIABLES
    main,          \* driftnet: "running", "stopping" (foad is set), "exited"
    manager,       \* "loop", "wait" in waitpid, "sleep", "gone"
    run_player,    \* the flag, in each of the two processes
    mpeg_mgr_pid,  \* the variable, in each of them: 0 in the manager itself
    pending,       \* a SIGTERM on its way to the manager
    players,       \* players running
    mine           \* does the player the manager waits for still run?

vars == <<main, manager, run_player, mpeg_mgr_pid, pending, players, mine>>

Process == {"driftnet", "manager"}

\* do_mpeg_player: run_player is set before the fork; fork returns 0 to the child.
Init ==
    /\ main = "running"
    /\ manager = "loop"
    /\ run_player = [q \in Process |-> TRUE]
    /\ mpeg_mgr_pid = [q \in Process |-> IF q = "driftnet" THEN 1 ELSE 0]
    /\ pending = FALSE
    /\ players = 0
    /\ mine = FALSE

-----------------------------------------------------------------------------
\* run_player after terminate_on_signal in process q: only a process that knows
\* of a manager stops it.
Stopped(q) ==
    IF mpeg_mgr_pid[q] # 0 THEN [run_player EXCEPT ![q] = FALSE] ELSE run_player

\* A signal to driftnet: the handler passes it on and sets foad.
MainSignal ==
    /\ main = "running"
    /\ main' = "stopping"
    /\ run_player' = Stopped("driftnet")
    /\ pending' = (manager # "gone")
    /\ UNCHANGED <<manager, mpeg_mgr_pid, players, mine>>

\* main leaves its loop, calls stop_mpeg_player once more, and returns.
MainExit ==
    /\ main = "stopping"
    /\ main' = "exited"
    /\ run_player' = [run_player EXCEPT !["driftnet"] = FALSE]
    /\ pending' = (manager # "gone")
    /\ UNCHANGED <<manager, mpeg_mgr_pid, players, mine>>

-----------------------------------------------------------------------------
(* mpeg_player_manager *)

ManagerStart ==
    /\ manager = "loop"
    /\ run_player["manager"]
    /\ players < MaxPlayers
    /\ players' = players + 1
    /\ mine' = TRUE
    /\ manager' = "wait"
    /\ UNCHANGED <<main, run_player, mpeg_mgr_pid, pending>>

\* waitpid has returned: a player that did not last is given five seconds.
AfterWait == manager' \in {"loop"} \cup (IF run_player'["manager"] THEN {"sleep"} ELSE {})

ManagerReap ==
    /\ manager = "wait"
    /\ ~mine
    /\ UNCHANGED run_player
    /\ AfterWait
    /\ UNCHANGED <<main, mpeg_mgr_pid, pending, players, mine>>

\* The handler interrupts waitpid, which is not restarted; the player runs on.
ManagerInterrupted ==
    /\ manager = "wait"
    /\ pending
    /\ pending' = FALSE
    /\ run_player' = Stopped("manager")
    /\ AfterWait
    /\ mine' = FALSE
    /\ UNCHANGED <<main, mpeg_mgr_pid, players>>

\* The handler elsewhere: it cuts the sleep short.
ManagerSignal ==
    /\ manager \in {"loop", "sleep"}
    /\ pending
    /\ pending' = FALSE
    /\ run_player' = Stopped("manager")
    /\ manager' = "loop"
    /\ UNCHANGED <<main, mpeg_mgr_pid, players, mine>>

ManagerWake ==
    /\ manager = "sleep"
    /\ manager' = "loop"
    /\ UNCHANGED <<main, run_player, mpeg_mgr_pid, pending, players, mine>>

\* The loop is left, and do_mpeg_player aborts.
ManagerAbort ==
    /\ manager = "loop"
    /\ ~run_player["manager"]
    /\ manager' = "gone"
    /\ pending' = FALSE
    /\ UNCHANGED <<main, run_player, mpeg_mgr_pid, players, mine>>

\* A player ends, of itself or because nothing writes to the pipe any more.
PlayerEnds ==
    /\ players > 0
    /\ players' = players - 1
    /\ mine' \in (IF mine /\ players = 1 THEN {FALSE} ELSE {mine, FALSE})
    /\ UNCHANGED <<main, manager, run_player, mpeg_mgr_pid, pending>>

-----------------------------------------------------------------------------
Manager == \/ ManagerStart \/ ManagerReap \/ ManagerInterrupted \/ ManagerSignal
           \/ ManagerWake \/ ManagerAbort

Next == MainSignal \/ MainExit \/ Manager \/ PlayerEnds

\* Processes are scheduled, and a player ends once its input has.
Spec == /\ Init /\ [][Next]_vars
        /\ WF_vars(MainExit) /\ WF_vars(Manager)
        /\ WF_vars(PlayerEnds /\ main = "exited")

-----------------------------------------------------------------------------
\* "Pass on the signal to the MPEG player manager so that it can abort, since it
\* won't die when the pipe into it dies" (playaudio.c): once driftnet stops, so
\* does the manager.
ManagerStops == main = "stopping" ~> manager = "gone"
=============================================================================
