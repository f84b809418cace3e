------------------------------ MODULE Lifecycle ------------------------------
(***************************************************************************)
(* A run of driftnet from its command line to its end: main                *)
(* (src/driftnet.c) with the temporary directory, the PID file, the drop   *)
(* of privileges (src/uid.c), the parts it starts and stops, and signals   *)
(* at any time.  The parts are modelled in modules of their own; here each *)
(* is only whether it runs, and the capture thread is what it does to the  *)
(* others when it has found a file (extract_media and                      *)
(* src/media_dispatcher.c).                                                *)
(***************************************************************************)
EXTENDS Options, PidFile, TmpDir

CONSTANTS ME,       \* this process, one of Instances
          ArgLists, \* command lines
          Contents  \* what the directory of -d may hold at the start

\* A name that tmpfile_write_file makes is none of the user's, nor the link's.
ASSUME LifecycleAssumption ==
    /\ ME \in Instances
    /\ ArgLists \subseteq Seq(STRING)
    /\ \A c \in Contents : IsFiniteSet(c) /\ "notes" \in c
    /\ Ours \cap {"notes", Index} = {}

VARIABLES
    opt,     \* the options parsed
    pc,      \* place of main, one of Steps, or how the process ended
    uid,     \* "root" or "user"
    foad,    \* has the signal handler run?
    player, display, server, capture, \* "none" until started
    running, \* network: may the capture thread go on?
    reader,  \* the program that attached itself in adjunct mode
    fault,   \* why the process crashed
    asroot   \* history: something was made as root in spite of -Z

parts == <<player, display, server, capture, running>>
vars == <<opt, pc, uid, foad, parts, reader, fault, asroot, pidvars, tmpvars>>

\* Mutant of Steps: privileges are dropped when everything is set up.
Steps_DropsLate ==
    <<"start", "open", "pidfile", "tmpdir", "signals", "player", "display", "drop",
      "server", "capture", "loop", "stop_http", "join_http", "stop_player", "close",
      "join", "clean", "close_pid", "ended">>

\* main, from its first line to its last.
Steps ==
    <<"start", "open", "drop", "pidfile", "tmpdir", "signals", "player", "display",
      "server", "capture", "loop", "stop_http", "join_http", "stop_player", "close",
      "join", "clean", "close_pid", "ended">>

Place(s) == CHOOSE i \in 1 .. Len(Steps) : Steps[i] = s
Go == pc' = Steps[Place(pc) + 1]
Over == pc \in {"ended", "exited", "killed", "crashed"}
Handled == Place(pc) > Place("signals")

Init ==
    /\ \E args \in ArgLists : opt = Parse(args)
    /\ uid \in IF opt.drop THEN {"root", "user"} ELSE {"user"}
    /\ pc = "start" /\ foad = FALSE
    /\ player = "none" /\ display = "none" /\ server = "none" /\ capture = "none"
    /\ running = FALSE
    /\ reader = "reading"
    /\ fault = "none" /\ asroot = FALSE
    /\ PidInit /\ TmpInit

\* The process ends here: its lock goes with it, its files stay.
Ends(how, why) ==
    /\ pc' = how /\ fault' = why
    /\ IF ppc[ME] = "out" THEN UNCHANGED pidvars ELSE Leave(ME)

\* That is all that happens.
Die(how, why) ==
    /\ Ends(how, why)
    /\ UNCHANGED <<opt, uid, foad, parts, reader, asroot, tmpvars>>

\* Something that outlasts the step is made with the user id of now.
Made == asroot' = (asroot \/ (opt.drop /\ uid = "root"))

-----------------------------------------------------------------------------
(* main *)

\* Wrong options, or -l, end the run.
Start ==
    /\ pc = "start"
    /\ IF ~opt.ok \/ opt.list THEN Die("exited", "none")
       ELSE Go /\ UNCHANGED <<opt, uid, foad, parts, reader, fault, asroot, pidvars, tmpvars>>

\* network_open_offline or network_open_live.
Open ==
    /\ pc = "open"
    /\ \/ Die("exited", "none")
       \/ Go /\ UNCHANGED <<opt, uid, foad, parts, reader, fault, asroot, pidvars, tmpvars>>

\* drop_root: the user does not exist, or a call fails, and it aborts.
Drop ==
    /\ pc = "drop"
    /\ \/ uid = "root" /\ opt.drop /\ Die("crashed", "drop")
       \/ /\ uid' = IF opt.drop THEN "user" ELSE uid
          /\ Go
          /\ UNCHANGED <<opt, foad, parts, reader, fault, asroot, pidvars, tmpvars>>

\* create_pidfile of this process, unless it is locked or a call fails.
CreatePidfile ==
    /\ pc = "pidfile"
    /\ UNCHANGED <<opt, uid, foad, parts, reader, fault, tmpvars>>
    /\ \/ ~opt.adjunct /\ Go /\ UNCHANGED <<asroot, pidvars>>
       \/ opt.adjunct /\ OpenFile(ME) /\ Made /\ UNCHANGED pc
       \/ LockFile(ME) /\ Go /\ UNCHANGED asroot
       \/ opt.adjunct /\ ppc[ME] = "out" /\ pc' = "exited" /\ UNCHANGED <<asroot, pidvars>>
       \/ Leave(ME) /\ pc' = "exited" /\ UNCHANGED asroot

\* -d names a directory that cannot be written to, or mkdtemp fails.
MakeTmpdir ==
    /\ pc = "tmpdir"
    /\ \/ Die("exited", "none")
       \/ /\ IF opt.dir
             THEN \E c \in Contents : SetTmpdir("user", opt.max, opt.adjunct, c)
                  /\ UNCHANGED asroot
             ELSE SetTmpdir("app", opt.max, opt.adjunct, {}) /\ Made
          /\ Go
          /\ UNCHANGED <<opt, uid, foad, parts, reader, fault, pidvars>>

SetupSignals ==
    /\ pc = "signals"
    /\ Go
    /\ UNCHANGED <<opt, uid, foad, parts, reader, fault, asroot, pidvars, tmpvars>>

\* do_mpeg_player
StartPlayer ==
    /\ pc = "player"
    /\ IF ~opt.adjunct /\ "audio" \in opt.type
       THEN player' = "running" /\ Made
       ELSE UNCHANGED <<player, asroot>>
    /\ Go
    /\ UNCHANGED <<opt, uid, foad, display, server, capture, running, reader, fault,
                   pidvars, tmpvars>>

\* do_image_display
StartDisplay ==
    /\ pc = "display"
    /\ IF opt.gtk /\ ~opt.adjunct /\ "image" \in opt.type
       THEN display' = "running" /\ Made
       ELSE UNCHANGED <<display, asroot>>
    /\ Go
    /\ UNCHANGED <<opt, uid, foad, player, server, capture, running, reader, fault,
                   pidvars, tmpvars>>

\* init_http_display: the link to the page, and the thread.
StartServer ==
    /\ pc = "server"
    /\ IF opt.http /\ ~opt.adjunct
       THEN \/ Die("exited", "none")
            \/ /\ Index \notin files
               /\ Holds(files \cup {Index})
               /\ server' = "starting" /\ Made
               /\ Go
               /\ UNCHANGED <<opt, uid, foad, player, display, capture, running, reader,
                              fault, pidvars, tmpdir, there, num, age, left, unread>>
       ELSE Go /\ UNCHANGED <<opt, uid, foad, parts, reader, fault, asroot, pidvars, tmpvars>>

\* network_start
StartCapture ==
    /\ pc = "capture"
    /\ capture' = "running" /\ running' = TRUE
    /\ Go
    /\ UNCHANGED <<opt, uid, foad, player, display, server, reader, fault, asroot,
                   pidvars, tmpvars>>

\* while (!foad) sleep(1)
Loop ==
    /\ pc = "loop"
    /\ foad
    /\ Go
    /\ UNCHANGED <<opt, uid, foad, parts, reader, fault, asroot, pidvars, tmpvars>>

\* stop_http_display, whether or not a server was started: interrupted is set
\* and the thread cancelled; to cancel one that never was is undefined.
StopHttp ==
    /\ pc = "stop_http"
    /\ \/ opt.http /\ server = "none" /\ Die("crashed", "stop")
       \/ /\ Go
          /\ UNCHANGED <<opt, uid, foad, parts, reader, fault, asroot, pidvars, tmpvars>>

\* Mutant of JoinHttp: the link stays.
JoinHttp_KeepsLink ==
    /\ pc = "join_http"
    /\ server \notin {"starting", "serving"}
    /\ Go
    /\ UNCHANGED <<opt, uid, foad, parts, reader, fault, asroot, pidvars, tmpvars>>

\* The thread is waited for, and the link taken away.
JoinHttp ==
    /\ pc = "join_http"
    /\ server \notin {"starting", "serving"}
    /\ IF opt.http THEN Holds(files \ {Index}) ELSE UNCHANGED <<files, over>>
    /\ Go
    /\ UNCHANGED <<opt, uid, foad, parts, reader, fault, asroot, pidvars,
                   tmpdir, there, num, age, left, unread>>

\* stop_mpeg_player, whether or not there is a player: kill(0, SIGTERM) goes
\* to everyone in the process group, the reader in front.
StopPlayer ==
    /\ pc = "stop_player"
    /\ reader' = IF player = "none" THEN "signalled" ELSE reader
    /\ Go
    /\ UNCHANGED <<opt, uid, foad, parts, fault, asroot, pidvars, tmpvars>>

\* Mutant of Close: the thread is not told to end.
Close_NoCancel ==
    /\ pc = "close"
    /\ Go
    /\ UNCHANGED <<opt, uid, foad, parts, reader, fault, asroot, pidvars, tmpvars>>

\* network_close: running is cleared and the thread cancelled ...
Close ==
    /\ pc = "close"
    /\ running' = FALSE
    /\ Go
    /\ UNCHANGED <<opt, uid, foad, player, display, server, capture, reader, fault,
                   asroot, pidvars, tmpvars>>

\* ... and waited for.
Join ==
    /\ pc = "join"
    /\ capture # "running"
    /\ Go
    /\ UNCHANGED <<opt, uid, foad, parts, reader, fault, asroot, pidvars, tmpvars>>

Clean ==
    /\ pc = "clean"
    /\ CleanTmpdir
    /\ Go
    /\ UNCHANGED <<opt, uid, foad, parts, reader, fault, asroot, pidvars>>

\* close_pidfile
ClosePidfile ==
    /\ pc = "close_pid"
    /\ \/ ~opt.adjunct /\ UNCHANGED pidvars /\ Go
       \/ CloseFile(ME) /\ UNCHANGED pc
       \/ UnlinkFile(ME) /\ Go
    /\ UNCHANGED <<opt, uid, foad, parts, reader, fault, asroot, tmpvars>>

Main == \/ Start \/ Open \/ Drop \/ CreatePidfile \/ MakeTmpdir \/ SetupSignals
        \/ StartPlayer \/ StartDisplay \/ StartServer \/ StartCapture \/ Loop
        \/ StopHttp \/ JoinHttp \/ StopPlayer \/ Close \/ Join \/ Clean \/ ClosePidfile

-----------------------------------------------------------------------------
(* Everyone else. *)

\* SIGTERM, SIGINT, SIGBUS or SIGCHLD.
Signal ==
    /\ ~Over
    /\ IF Handled
       THEN /\ ~foad /\ foad' = TRUE
            /\ UNCHANGED <<opt, pc, uid, parts, reader, fault, asroot, pidvars, tmpvars>>
       ELSE Die("killed", "none")

\* lws_create_context has run PROTOCOL_INIT.
ServerUp ==
    /\ ~Over
    /\ server = "starting"
    /\ server' = "serving"
    /\ UNCHANGED <<opt, pc, uid, foad, player, display, capture, running, reader, fault,
                   asroot, pidvars, tmpvars>>

\* The port is taken: http_server_dispatch aborts.
ServerFails ==
    /\ ~Over
    /\ server = "starting"
    /\ Die("crashed", "server")

\* The service loop is over, by itself when lws_service fails, and the context
\* destroyed.
ServerQuits ==
    /\ ~Over
    /\ server = "serving"
    /\ server' = "destroyed"
    /\ UNCHANGED <<opt, pc, uid, foad, player, display, capture, running, reader, fault,
                   asroot, pidvars, tmpvars>>

\* The cancelled thread reaches a cancellation point, or sees interrupted: it
\* leaves its context as it is, or destroys it, or never had one.
ServerEnds ==
    /\ ~Over /\ pc = "join_http"
    /\ server \in {"starting", "serving"}
    /\ server' \in IF server = "starting" THEN {"destroyed"} ELSE {"cancelled", "destroyed"}
    /\ UNCHANGED <<opt, pc, uid, foad, player, display, capture, running, reader, fault,
                   asroot, pidvars, tmpvars>>

\* The user closes the window; main gets SIGCHLD.
DisplayEnds ==
    /\ ~Over
    /\ display = "running"
    /\ display' = "gone"
    /\ foad' = TRUE
    /\ UNCHANGED <<opt, pc, uid, player, server, capture, running, reader, fault, asroot,
                   pidvars, tmpvars>>

\* Whom a driver's dispatch_data hands a file to is there to take it.
Takes(to) ==
    CASE to = "stdout" -> TRUE
      [] to = "player" -> player # "none"
      [] to = "gtk"    -> display # "none"
      [] to = "http"   -> server \in {"serving", "cancelled"}

\* The capture thread has found a file of driver d: extract_media, unless the
\* limit is reached, lets it be dispatched; an image is written first.
Found(d) ==
    /\ ~Over /\ capture = "running"
    /\ d \in DriversFor(opt.type)
    /\ \E opened \in BOOLEAN :
        /\ AskedLimit(opened)
        /\ IF LimitReached(opened)
           THEN UNCHANGED <<pc, fault, pidvars, files, over, asroot>>
           ELSE /\ IF DriverType[d] = "image"
                   THEN Made /\ \E n \in IF d = "webp" THEN Webps ELSE Images : WriteFile(n)
                   ELSE UNCHANGED <<files, over, asroot>>
                /\ IF Takes(Dispatch(opt, d)) THEN UNCHANGED <<pc, fault, pidvars>>
                   ELSE Ends("crashed", Dispatch(opt, d))
    /\ UNCHANGED <<opt, uid, foad, parts, reader, tmpdir, there, left>>

\* The cancelled thread reaches a cancellation point, or sees running.
CaptureEnds ==
    /\ ~Over
    /\ capture = "running" /\ ~running
    /\ capture' = "ended"
    /\ UNCHANGED <<opt, pc, uid, foad, player, display, server, running, reader, fault,
                   asroot, pidvars, tmpvars>>

\* The display deletes files it was told of, in adjunct mode the reader does.
Consume(n) ==
    /\ ~Over /\ capture # "none"
    /\ n \in files \cap Ours
    /\ display = "running" \/ (opt.adjunct /\ reader = "reading")
    /\ Holds(files \ {n})
    /\ UNCHANGED <<opt, pc, uid, foad, parts, reader, fault, asroot, pidvars,
                   tmpdir, there, num, age, left, unread>>

Clock ==
    /\ ~Over
    /\ Second
    /\ UNCHANGED <<opt, pc, uid, foad, parts, reader, fault, asroot, pidvars>>

\* Other instances come to matter to one that uses the file.
OtherInstance(p) ==
    /\ p # ME /\ opt.adjunct
    /\ PidStep(p)
    /\ UNCHANGED <<opt, pc, uid, foad, parts, reader, fault, asroot, tmpvars>>

Next ==
    \/ Main
    \/ Signal \/ ServerUp \/ ServerFails \/ ServerQuits \/ ServerEnds
    \/ DisplayEnds \/ CaptureEnds \/ Clock
    \/ \E d \in DOMAIN DriverType : Found(d)
    \/ \E n \in Ours : Consume(n)
    \/ \E p \in Instances : OtherInstance(p)

\* main is scheduled, and a cancelled thread ends.
Spec == Init /\ [][Next]_vars
             /\ WF_vars(Main) /\ WF_vars(ServerEnds) /\ WF_vars(CaptureEnds)

-----------------------------------------------------------------------------
(* Properties. *)

\* With -Z, nothing driftnet makes (PID file, directory, child, link, thread,
\* image) is made while it is still root.  (the order of main's steps)
NothingAsRoot == ~asroot

\* Out of adjunct mode a run that comes to its end leaves none of its files
\* but those is_tempfile does not know, or all when the directory could not be
\* opened; it removes the directory it made unless one of these is in it, and
\* leaves what was in a directory of -d.
\* (clean_tmpdir against the capture thread, the display and the link)
EndsClean ==
    pc = "ended" /\ ~opt.adjunct =>
        /\ unread \/ files \cap Images = {}
        /\ opt.http => Index \notin files
        /\ opt.dir => "notes" \in files
        /\ ~opt.dir /\ left = {} => ~there

\* What is found is handed to a part that main started for these options.
\* The exceptions: in adjunct mode no player is started and no server
\* stopped; a server takes nothing before it is up, nor when its context is
\* destroyed, which it may be at any time (ServerQuits).  (parse_options,
\* main's start-up, dispatch_data and shutdown)
HandedToTheStarted ==
    \/ fault \in {"none", "drop", "server"}
    \/ fault = "player" /\ opt.adjunct
    \/ fault = "http" /\ server \in {"starting", "destroyed"}
    \/ fault = "stop" /\ opt.adjunct

\* With -m, no image is written into a directory that images is_tempfile knows
\* have filled for more than CACHE seconds, however old the count is, unless
\* the directory could just then not be opened to count it.  (count_tmpfiles'
\* cache; images of the WebP driver it does not know, and -m does not
\* hold for them)
LimitIsLateByCache ==
    [][tmpdir.max_files # 0 /\ (files' \ files) \cap Ours # {}
       => over <= CACHE \/ unread']_vars

\* A signal, or the end of the display, ends the program.  (foad, main's
\* loop, and the join of the capture thread)
EndsOnSignal == foad ~> Over
=============================================================================
