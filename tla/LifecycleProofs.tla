-------------------------- MODULE LifecycleProofs --------------------------
(***************************************************************************)
(* A run of driftnet (Lifecycle), for every command line, every number of  *)
(* other instances and every directory: what is made as root, what is left *)
(* behind, to whom files are handed, and when the limit of files holds.    *)
(***************************************************************************)
EXTENDS Lifecycle, FiniteSetTheorems, ProofLemmas

-----------------------------------------------------------------------------
(* Any number of instances over one PID file (PidFile): two of them run at *)
(* once only after a file was unlinked that another had open.              *)

\* Names of files, and what a descriptor or the path may be.
PidTypeOK ==
    /\ ppc \in [Instances -> {"out", "opened", "in", "closed"}]
    /\ fd \in [Instances -> Numbers \cup {NONE}]
    /\ path \in Numbers \cup {NONE}
    /\ created \in 0 .. MaxFile
    /\ holder \in [Numbers -> Instances \cup {NONE}]
    /\ stolen \in BOOLEAN

\* Who has passed open has a file open.
OpenHasFile == \A p \in Instances : ppc[p] \in {"opened", "in"} => fd[p] # NONE

\* Until a file is stolen, the one that is open is the one with the name.
OpenIsNamed == ~stolen => \A p \in Instances : fd[p] # NONE => fd[p] = path

\* Until then, who has passed the lock holds it.
RunningHolds == ~stolen => \A p \in Instances : ppc[p] = "in" => holder[fd[p]] = p

PidInv == PidTypeOK /\ OpenHasFile /\ OpenIsNamed /\ RunningHolds

\* PidInv holds at first and after every step of any instance.
THEOREM PidInvariance == PidSpec => []PidInv
<1> USE PidFileAssumption DEF PidFileAssumption, Numbers
<1>1. PidInit => PidInv
  <2> SUFFICES ASSUME PidInit PROVE PidInv
    OBVIOUS
  <2> USE DEF PidInit
  <2>1. \A p \in Instances : ppc[p] = "out" /\ fd[p] = NONE
    OBVIOUS
  <2>2. PidTypeOK
    <3>1. ppc \in [Instances -> {"out", "opened", "in", "closed"}]
      OBVIOUS
    <3>2. fd \in [Instances -> Numbers \cup {NONE}] /\ path \in Numbers \cup {NONE}
      OBVIOUS
    <3>3. holder \in [Numbers -> Instances \cup {NONE}]
      OBVIOUS
    <3>4. created \in 0 .. MaxFile
      OBVIOUS
    <3>5. stolen \in BOOLEAN
      BY Zenon
    <3> QED BY <3>1, <3>2, <3>3, <3>4, <3>5 DEF PidTypeOK
  <2>3. OpenHasFile /\ OpenIsNamed /\ RunningHolds
    BY <2>1 DEF OpenHasFile, OpenIsNamed, RunningHolds
  <2> QED BY <2>2, <2>3 DEF PidInv
<1>2. PidInv /\ [PidNext]_pidvars => PidInv'
  <2> SUFFICES ASSUME PidInv, [PidNext]_pidvars PROVE PidInv'
    OBVIOUS
  <2> USE DEF PidInv, PidTypeOK, OpenHasFile, OpenIsNamed, RunningHolds
  <2>1. ASSUME NEW p \in Instances, OpenFile(p) PROVE PidInv'
    <3>1. CASE path # NONE
      BY <2>1, <3>1 DEF OpenFile
    <3>2. CASE path = NONE
      BY <2>1, <3>2 DEF OpenFile
    <3> QED BY <3>1, <3>2
  <2>2. ASSUME NEW p \in Instances, LockFile(p) PROVE PidInv'
    BY <2>2 DEF LockFile
  <2>3. ASSUME NEW p \in Instances, Leave(p) PROVE PidInv'
    BY <2>3 DEF Leave, Released
  <2>4. ASSUME NEW p \in Instances, CloseFile(p) PROVE PidInv'
    BY <2>4 DEF CloseFile, Released
  <2>5. ASSUME NEW p \in Instances, UnlinkFile(p) PROVE PidInv'
    BY <2>5 DEF UnlinkFile
  <2>6. CASE UNCHANGED pidvars
    BY <2>6 DEF pidvars
  <2> QED BY <2>1, <2>2, <2>3, <2>4, <2>5, <2>6 DEF PidNext, PidStep
<1> QED BY <1>1, <1>2, PTL DEF PidSpec

\* Two instances run at once only after one that ended has unlinked the file
\* of another: with the lock's holder unique, and the file of all who run the
\* one at the path, they are the same. (create_pidfile, close_pidfile)
THEOREM OneInstance == PidSpec => []OneInstanceUnlessStolen
<1>1. PidInv => OneInstanceUnlessStolen
  BY PidFileAssumption DEF PidFileAssumption, PidInv, PidTypeOK, OpenHasFile, OpenIsNamed, RunningHolds,
     OneInstanceUnlessStolen
<1> QED BY <1>1, PidInvariance, PTL

-----------------------------------------------------------------------------
(* The command line. *)

Options == [ok : BOOLEAN, adjunct : BOOLEAN, dir : BOOLEAN, max : Nat,
            type : SUBSET {"image", "audio", "text"}, only : {"any", "audio", "text"},
            gtk : BOOLEAN, http : BOOLEAN, dump : BOOLEAN, interface : BOOLEAN,
            drop : BOOLEAN, list : BOOLEAN]

\* Every option leaves options behind. (parse_options' loop body)
LEMMA OptionOK == ASSUME NEW o \in Options, NEW c PROVE Option(o, c) \in Options
<1>1. CASE ~o.ok
  BY <1>1 DEF Option, Options
<1>2. CASE o.ok /\ c = "a"
  BY <1>2 DEF Option, Options
<1>3. CASE o.ok /\ c = "d"
  BY <1>3 DEF Option, Options
<1>4. CASE o.ok /\ c = "m"
  BY <1>4, OptionsAssumption DEF Option, Options, OptionsAssumption
<1>5. CASE o.ok /\ c = "s"
  BY <1>5 DEF Option, Options
<1>6. CASE o.ok /\ c = "t"
  BY <1>6 DEF Option, Options
<1>7. CASE o.ok /\ c = "S"
  BY <1>7, ZenonT(30) DEF Option, Options
<1>8. CASE o.ok /\ c = "T"
  BY <1>8 DEF Option, Options
<1>9. CASE o.ok /\ c = "f"
  BY <1>9 DEF Option, Options
<1>10. CASE o.ok /\ c = "i"
  BY <1>10 DEF Option, Options
<1>11. CASE o.ok /\ c = "g"
  BY <1>11 DEF Option, Options
<1>12. CASE o.ok /\ c = "w"
  BY <1>12 DEF Option, Options
<1>13. CASE o.ok /\ c = "Z"
  BY <1>13 DEF Option, Options
<1>14. CASE o.ok /\ c = "l"
  BY <1>14 DEF Option, Options
<1>15. CASE o.ok /\ c \notin {"a", "d", "m", "s", "t", "S", "T", "f", "i", "g", "w", "Z", "l"}
  BY <1>15 DEF Option, Options
<1> QED  BY <1>1, <1>2, <1>3, <1>4, <1>5, <1>6, <1>7, <1>8, <1>9, <1>10, <1>11, <1>12,
            <1>13, <1>14, <1>15

\* So does any number of turns of the loop.
LEMMA GetoptOK == ASSUME NEW args \in Seq(STRING) PROVE Getopt(args)[Len(args)] \in Options
<1> DEFINE L == Len(args)
           Turn(f, n) == IF n = 0 THEN Default ELSE Option(f[n - 1], args[n])
           IsLoop(f, n) == \A k \in 0 .. n : f[k] = Turn(f, k) /\ f[k] \in Options
           S == {n \in 0 .. L : \E f \in [0 .. n -> Options] : IsLoop(f, n)}
<1>1. L \in Nat
  OBVIOUS
<1>2. Default \in Options
  BY DEF Default, Options
<1>3. 0 \in S
  <2> DEFINE f == [k \in 0 .. 0 |-> Default]
  <2>1. f \in [0 .. 0 -> Options]
    BY <1>2
  <2>2. IsLoop(f, 0)
    BY <1>2
  <2> HIDE DEF f, IsLoop
  <2> QED  BY <1>1, <2>1, <2>2
<1>4. ASSUME NEW n \in 0 .. (L - 1), n \in S PROVE n + 1 \in S
  <2>1. PICK f \in [0 .. n -> Options] : IsLoop(f, n)
    BY <1>4
  <2> DEFINE g == [k \in 0 .. (n + 1) |-> IF k = n + 1 THEN Option(f[n], args[n + 1]) ELSE f[k]]
  <2>2. Option(f[n], args[n + 1]) \in Options
    BY OptionOK, <1>1, <2>1
  <2>3. g \in [0 .. (n + 1) -> Options]
    BY <2>1, <2>2
  <2>4. IsLoop(g, n + 1)
    <3> SUFFICES ASSUME NEW k \in 0 .. (n + 1) PROVE g[k] = Turn(g, k) /\ g[k] \in Options
      OBVIOUS
    <3>1. CASE k = n + 1
      BY <2>2, <3>1
    <3>2. CASE k # n + 1
      <4>1. k \in 0 .. n /\ g[k] = f[k] /\ (k # 0 => k - 1 \in 0 .. n /\ g[k - 1] = f[k - 1])
        BY <3>2
      <4> QED  BY <2>1, <4>1
    <3> QED  BY <3>1, <3>2
  <2> HIDE DEF g, IsLoop
  <2>5. n + 1 \in 0 .. L
    BY <1>1
  <2> QED  BY <2>3, <2>4, <2>5
<1>5. L \in S
  <2> HIDE DEF S
  <2>1. 0 .. L \subseteq S
    BY <1>1, <1>3, <1>4, UpTo
  <2> QED  BY <1>1, <2>1
<1>6. PICK f \in [0 .. L -> Options] : IsLoop(f, L)
  BY <1>5
<1> DEFINE G(h) == [n \in 0 .. L |-> IF n = 0 THEN Default ELSE Option(h[n - 1], args[n])]
           after == CHOOSE h : h = G(h)
<1>7. f = G(f)
  BY <1>6
<1>8. after = G(after)
  <2> HIDE DEF G
  <2> QED  BY <1>7
<1>9. \A n \in 0 .. L : after[n] = Turn(after, n)
  <2> HIDE DEF after
  <2> QED  BY <1>8
<1>10. Getopt(args) = after
  BY DEF Getopt
<1> HIDE DEF after
<1> DEFINE T == {n \in 0 .. L : after[n] \in Options}
<1>11. 0 \in T
  BY <1>1, <1>2, <1>9
<1>12. ASSUME NEW n \in 0 .. (L - 1), n \in T PROVE n + 1 \in T
  <2>1. n + 1 \in 0 .. L /\ n + 1 # 0 /\ (n + 1) - 1 = n
    BY <1>1
  <2>2. after[n + 1] = Option(after[n], args[n + 1])
    BY <1>9, <2>1
  <2> QED  BY <1>12, <2>1, <2>2, OptionOK
<1>13. L \in T
  <2> HIDE DEF T
  <2>1. 0 .. L \subseteq T
    BY <1>1, <1>11, <1>12, UpTo
  <2> QED  BY <1>1, <2>1
<1> QED  BY <1>10, <1>13

\* What validate_options lets pass: with a display to hand files to, and with no
\* limit, unless in adjunct mode. (parse_options)
Validated(o) ==
    /\ o \in Options
    /\ o.ok /\ ~o.list /\ ~o.adjunct => (o.gtk \/ o.http) /\ o.max = 0

\* What validate_options leaves of any options ...
LEMMA ValidateOK == ASSUME NEW o \in Options PROVE Validated(Validate(o))
<1>1. CASE ~o.ok \/ o.list
  BY <1>1 DEF Validate, Validated, Options
<1>2. CASE o.ok /\ ~o.list /\ o.adjunct
  BY <1>2 DEF Validate, Validated, Options
<1>3. CASE o.ok /\ ~o.list /\ ~o.adjunct
  BY <1>3, ZenonT(30) DEF Validate, Validated, Options
<1> QED  BY <1>1, <1>2, <1>3 DEF Options

\* ... and of any command line.
LEMMA ParseOK == ASSUME NEW args \in Seq(STRING) PROVE Validated(Parse(args))
BY GetoptOK, ValidateOK DEF Parse

-----------------------------------------------------------------------------
(* The places of main. *)

Live == {"start", "open", "drop", "pidfile", "tmpdir", "signals", "player", "display",
         "server", "capture", "loop", "stop_http", "join_http", "stop_player", "close",
         "join", "clean", "close_pid", "ended"}

\* The step main is at, by its number in Steps.
LEMMA Places ==
    /\ Place("start") = 1 /\ Place("open") = 2 /\ Place("drop") = 3
    /\ Place("pidfile") = 4 /\ Place("tmpdir") = 5 /\ Place("signals") = 6
    /\ Place("player") = 7 /\ Place("display") = 8 /\ Place("server") = 9
    /\ Place("capture") = 10 /\ Place("loop") = 11 /\ Place("stop_http") = 12
    /\ Place("join_http") = 13 /\ Place("stop_player") = 14 /\ Place("close") = 15
    /\ Place("join") = 16 /\ Place("clean") = 17 /\ Place("close_pid") = 18
    /\ Place("ended") = 19
BY DEF Place, Steps

\* One step further.
LEMMA GoFrom ==
    ASSUME Go, pc \in Live, pc # "ended"
    PROVE  pc' \in Live /\ Place(pc') = Place(pc) + 1
BY Places DEF Go, Live, Steps

\* Main has done step s.
Past(s) == pc \in Live /\ Place(pc) > Place(s)

Alive == ~Over \/ pc = "ended"

-----------------------------------------------------------------------------
(* Privileges and options. *)

PlaceOK == pc \in Live \cup {"exited", "killed", "crashed"}

\* Past the step that drops it, a process that was told to drop it is not root.
DroppedInv ==
    /\ PlaceOK /\ ~asroot
    /\ Past("drop") => ~opt.drop \/ uid = "user"

\* What is past the first step passed validation.
OptionsInv ==
    /\ PlaceOK /\ Validated(opt)
    /\ Past("start") => opt.ok /\ ~opt.list

\* The parts that the options ask for have been started, and what may hand
\* files to them only after that.
PartsInv ==
    /\ server \in {"none", "starting", "serving", "cancelled", "destroyed"}
    /\ Past("player") /\ ~opt.adjunct /\ "audio" \in opt.type => player # "none"
    /\ Past("display") /\ ~opt.adjunct /\ opt.gtk /\ "image" \in opt.type => display # "none"
    /\ Past("server") /\ ~opt.adjunct /\ opt.http => server # "none"
    /\ capture # "none" /\ Alive => Past("capture")
    /\ Alive => fault = "none"
    /\ HandedToTheStarted

\* The directory follows main: what main has taken out of it does not come back.
DirectoryInv ==
    /\ Past("tmpdir") => /\ tmpdir.preserve_files = opt.adjunct
                         /\ tmpdir.type = IF opt.dir THEN "user" ELSE "app"
                         /\ opt.dir => "notes" \in files
    /\ Past("join_http") /\ opt.http => Index \notin files
    /\ Past("join") => capture # "running"
    /\ Past("clean") /\ ~opt.adjunct => /\ unread \/ files \cap Images = {}
                                        /\ ~opt.dir /\ left = {} => ~there

\* The count is not older than what is known of it: a directory that has become
\* full since then has not been full for longer.
LimitInv ==
    /\ IsFiniteSet(files)
    /\ num \in Nat /\ age \in 0 .. Old /\ over \in 0 .. Old
    /\ DOMAIN tmpdir = {"path", "type", "max_files", "preserve_files"}
    /\ tmpdir.max_files \in Nat
    /\ pc \in Live /\ ~Past("tmpdir") => tmpdir.max_files = 0 /\ over = 0 /\ age = Old
    /\ Past("tmpdir") /\ tmpdir.max_files # 0 => tmpdir.preserve_files
    /\ tmpdir.max_files # 0 /\ CountIn(files) < tmpdir.max_files => over = 0
    /\ tmpdir.max_files # 0 /\ num < tmpdir.max_files /\ age <= CACHE => over <= age

LifeInv == DroppedInv /\ OptionsInv /\ PartsInv /\ DirectoryInv /\ LimitInv

\* Every step goes one step of main further, ends the process, or stays.
LEMMA PlaceStep ==
    ASSUME PlaceOK, [Next]_vars
    PROVE  /\ PlaceOK' /\ opt' = opt
           /\ \/ pc' = pc
              \/ pc \in Live /\ pc' \notin Live
              \/ pc \in Live /\ pc' \in Live /\ Place(pc') = Place(pc) + 1
<1> USE DEF PlaceOK
<1>1. ASSUME NEW how \in {"exited", "killed", "crashed"}, NEW why, Die(how, why), pc \in Live
      PROVE  pc' = how /\ how \notin Live /\ opt' = opt
  BY <1>1 DEF Die, Ends, Live
<1>2. CASE Main
  <2>1. pc \in Live /\ pc # "ended" /\ opt' = opt
    BY <1>2 DEF Live, Main, Start, Open, Drop, CreatePidfile, MakeTmpdir, SetupSignals,
       StartPlayer, StartDisplay, StartServer, StartCapture, Loop, StopHttp, JoinHttp, StopPlayer,
       Close, Join, Clean, ClosePidfile, Die, Ends
  <2>2. \/ Go \/ pc' = pc \/ pc' = "exited"
        \/ \E why : Die("exited", why) \/ Die("crashed", why)
    BY <1>2 DEF Main, Start, Open, Drop, CreatePidfile, MakeTmpdir, SetupSignals,
       StartPlayer, StartDisplay, StartServer, StartCapture, Loop, StopHttp, JoinHttp, StopPlayer,
       Close, Join, Clean, ClosePidfile
  <2> QED  BY <2>1, <2>2, <1>1, GoFrom DEF Live
<1>3. CASE Signal \/ ServerFails
  BY <1>1, <1>3 DEF Signal, ServerFails, Over
<1>4. CASE UNCHANGED <<pc, opt>>
  BY <1>4
<1>5. CASE ServerUp \/ ServerQuits \/ ServerEnds \/ DisplayEnds \/ CaptureEnds \/ Clock
  BY <1>4, <1>5 DEF ServerUp, ServerQuits, ServerEnds, DisplayEnds, CaptureEnds, Clock
<1>6. ASSUME NEW d, Found(d)
      PROVE  UNCHANGED <<pc, opt>> \/ (opt' = opt /\ pc' = "crashed" /\ pc \in Live)
  BY <1>6 DEF Found, Ends, Over
<1>7. ASSUME NEW n, Consume(n) PROVE UNCHANGED <<pc, opt>>
  BY <1>7 DEF Consume
<1>8. ASSUME NEW p, OtherInstance(p) PROVE UNCHANGED <<pc, opt>>
  BY <1>8 DEF OtherInstance
<1>9. CASE UNCHANGED vars
  BY <1>4, <1>9 DEF vars
<1> QED  BY <1>1, <1>2, <1>3, <1>4, <1>5, <1>6, <1>7, <1>8, <1>9 DEF Next, Live

\* What has been done stays done, and is known where main goes on.
LEMMA PastStep ==
    ASSUME PlaceOK, [Next]_vars, NEW s \in Live
    PROVE  /\ Past(s)' => Past(s) \/ pc = s
           /\ Past(s) /\ pc' \in Live => Past(s)'
           /\ pc' \in Live => pc \in Live
<1> QED  BY PlaceStep, Places DEF Past, PlaceOK, Live

\* What the capture thread writes: it runs behind the step that drops the privileges.
\* An end of the process that comes of it is the only step of main in it.
LEMMA FoundStep ==
    ASSUME PartsInv, NEW d, Found(d)
    PROVE  /\ Past("drop") /\ Past("capture") /\ Alive /\ capture = "running"
           /\ UNCHANGED <<opt, uid, player, display, server, capture, tmpdir, there, left>>
           /\ UNCHANGED asroot \/ Made
           /\ UNCHANGED <<pc, fault>> \/ (pc' = "crashed" /\ fault' = Dispatch(opt, d))
           /\ UNCHANGED <<files, over>> \/ \E n \in Ours : Holds(files \cup {n}) \/ Holds(files)
           /\ \E opened \in BOOLEAN : AskedLimit(opened)
<1>1. capture = "running" /\ Alive /\ Past("capture")
  BY DEF Found, Alive, PartsInv
<1>2. Past("drop")
  BY <1>1, Places DEF Past, Live
<1> QED  BY <1>1, <1>2 DEF Found, Ends, WriteFile, Ours, parts

\* The privileges are dropped once, on the way of main.
LEMMA DroppedStep == ASSUME DroppedInv, PartsInv, [Next]_vars PROVE DroppedInv'
<1> USE DEF DroppedInv
<1>1. PlaceOK' /\ opt' = opt /\ (Past("drop")' => Past("drop") \/ pc = "drop")
  BY PlaceStep, PastStep DEF Live, PlaceOK, Past
<1>2. ASSUME Made, Past("drop") PROVE ~asroot'
  BY <1>2 DEF Made
<1>3. CASE Drop
  BY <1>1, <1>3 DEF Drop, Die, Ends, Past, Live
<1>4. CASE CreatePidfile \/ MakeTmpdir \/ StartPlayer \/ StartDisplay \/ StartServer
  <2>1. Past("drop")
    BY <1>4, Places DEF CreatePidfile, MakeTmpdir, StartPlayer, StartDisplay, StartServer,
       Past, Live
  <2>2. ~asroot'
    BY <1>2, <1>4, <2>1 DEF CreatePidfile, MakeTmpdir, StartPlayer, StartDisplay,
       StartServer, Die, Ends
  <2>3. uid' = uid
    BY <1>4 DEF CreatePidfile, MakeTmpdir, StartPlayer, StartDisplay, StartServer, Die, Ends
  <2> QED  BY <1>1, <2>1, <2>2, <2>3
<1>5. CASE UNCHANGED <<uid, asroot>> /\ pc # "drop"
  BY <1>1, <1>5
<1>6. CASE Main
  BY <1>3, <1>4, <1>5, <1>6 DEF Main, Start, Open, SetupSignals, StartCapture, Loop,
     StopHttp, JoinHttp, StopPlayer, Close, Join, Clean, ClosePidfile, Die, Ends
<1>7. CASE UNCHANGED <<uid, asroot>> /\ (pc' = pc \/ pc' \notin Live)
  BY <1>1, <1>7 DEF Past
<1>8. CASE \/ Signal \/ ServerUp \/ ServerFails \/ ServerQuits \/ ServerEnds
           \/ DisplayEnds \/ CaptureEnds \/ Clock \/ UNCHANGED vars
  BY <1>7, <1>8 DEF Signal, ServerUp, ServerFails, ServerQuits, ServerEnds, DisplayEnds,
     CaptureEnds, Clock, vars, Die, Ends, Live
<1>9. ASSUME NEW d, Consume(d) \/ OtherInstance(d)
      PROVE  UNCHANGED <<uid, asroot>> /\ (pc' = pc \/ pc' \notin Live)
  BY <1>9 DEF Consume, OtherInstance
<1>10. ASSUME NEW d, Found(d) PROVE DroppedInv'
  <2>1. Past("drop") /\ uid' = uid /\ (UNCHANGED asroot \/ Made)
    BY <1>10, FoundStep
  <2> QED  BY <1>1, <1>2, <2>1
<1> QED  BY <1>6, <1>7, <1>8, <1>9, <1>10 DEF Next

\* OptionsInv: options do not change, and Start lets none pass that are wrong.
LEMMA OptionsStep == ASSUME OptionsInv, [Next]_vars PROVE OptionsInv'
<1> USE DEF OptionsInv
<1>1. /\ PlaceOK' /\ opt' = opt /\ (Past("start")' => Past("start") \/ pc = "start")
      /\ Past("start")' /\ pc = "start" => pc' # pc /\ pc' \in Live
  BY PlaceStep, PastStep, Places DEF Live, PlaceOK, Past
<1>2. CASE pc = "start" /\ pc' # pc /\ pc' \in Live
  <2>1. Start
    BY <1>2 DEF Next, Main, Open, Drop, CreatePidfile, MakeTmpdir, SetupSignals, StartPlayer,
       StartDisplay, StartServer, StartCapture, Loop, StopHttp, JoinHttp, StopPlayer, Close, Join,
       Clean, ClosePidfile, Signal, ServerUp, ServerFails, ServerQuits, ServerEnds,
       DisplayEnds, CaptureEnds, Clock, Found, Consume, OtherInstance, Die, Ends, Live, vars
  <2>2. opt.ok /\ ~opt.list
    BY <1>2, <2>1 DEF Start, Die, Ends, Live
  <2> QED  BY <1>1, <2>2 DEF Validated
<1> QED  BY <1>1, <1>2 DEF Validated

-----------------------------------------------------------------------------
(* The parts. *)

\* A capture thread that runs finds whom it hands a file to, but for a player in
\* adjunct mode and a server that is not up. (main's choice of dispatch_data)
LEMMA DispatchTakes ==
    ASSUME OptionsInv, PartsInv, Past("capture"), NEW d \in DriversFor(opt.type),
           ~Takes(Dispatch(opt, d))
    PROVE  \/ Dispatch(opt, d) = "player" /\ opt.adjunct
           \/ Dispatch(opt, d) = "http" /\ server \in {"starting", "destroyed"}
<1>1. /\ opt \in Options /\ opt.ok /\ ~opt.list
      /\ Past("start") /\ Past("player") /\ Past("display") /\ Past("server")
  BY Places DEF OptionsInv, Validated, Past, Live
<1>2. DriverType[d] \in {"image", "audio", "text"} /\ DriverType[d] \in opt.type
  BY DEF DriverType, DriversFor
<1>3. opt.adjunct \/ opt.gtk \/ opt.http
  BY <1>1 DEF OptionsInv, Validated
<1>4. CASE DriverType[d] = "audio"
  <2>1. Dispatch(opt, d) = "player"
    BY <1>4 DEF Dispatch
  <2>2. player = "none"
    BY <2>1 DEF Takes
  <2> QED  BY <1>1, <1>2, <1>4, <2>1, <2>2 DEF PartsInv
<1>5. CASE DriverType[d] = "image"
  <2>1. Dispatch(opt, d) = IF opt.adjunct THEN "stdout" ELSE IF opt.gtk THEN "gtk" ELSE "http"
    BY <1>5 DEF Dispatch
  <2> QED  BY <1>1, <1>2, <1>3, <1>5, <2>1 DEF PartsInv, Takes
<1>6. CASE DriverType[d] = "text"
  <2>1. Dispatch(opt, d) = IF opt.adjunct \/ opt.gtk THEN "stdout" ELSE "http"
    BY <1>6 DEF Dispatch
  <2> QED  BY <1>1, <1>3, <2>1 DEF PartsInv, Takes
<1> QED  BY <1>2, <1>4, <1>5, <1>6

\* A step that leaves the parts alone, and starts none of them.
LEMMA SameParts ==
    ASSUME PlaceOK, PartsInv, [Next]_vars, UNCHANGED <<player, display, server, capture, fault>>,
           pc \notin {"player", "display", "server"} \/ pc' = pc
    PROVE  PartsInv'
<1>1. PlaceOK' /\ opt' = opt
  BY PlaceStep
<1>2. \A s \in {"player", "display", "server"} : Past(s)' => Past(s)
  BY PastStep DEF Live, Past
<1>3. Alive' => Alive
  BY <1>1, PastStep DEF Alive, Over, PlaceOK, Live
<1>4. Past("capture") /\ Alive' => Past("capture")'
  BY <1>1, PastStep DEF Alive, Over, PlaceOK, Live
<1> QED  BY <1>1, <1>2, <1>3, <1>4 DEF PartsInv, HandedToTheStarted

\* An end of the process that HandedToTheStarted allows.
LEMMA DiesInOrder ==
    ASSUME PartsInv, NEW how \in {"exited", "killed", "crashed"}, NEW why, Die(how, why),
           HandedToTheStarted'
    PROVE  PartsInv'
BY DEF PartsInv, Die, Ends, Past, Alive, Over, Live, parts

\* main starts and stops its parts as the options ask.
LEMMA PartsStep == ASSUME OptionsInv, PartsInv, [Next]_vars PROVE PartsInv'
<1>0. PlaceOK /\ PlaceOK' /\ opt' = opt
  BY PlaceStep DEF OptionsInv
<1>1. ASSUME NEW how \in {"exited", "killed", "crashed"}, Die(how, "none") PROVE PartsInv'
  BY <1>1, DiesInOrder DEF Die, Ends, HandedToTheStarted
<1>2. CASE Drop \/ ServerFails
  <2>1. CASE UNCHANGED <<player, display, server, capture, fault>> /\ pc = "drop"
    BY <1>0, <2>1, SameParts
  <2>2. ASSUME NEW why \in {"drop", "server"}, Die("crashed", why) PROVE PartsInv'
    BY <2>2, DiesInOrder DEF Die, Ends, HandedToTheStarted
  <2> QED  BY <1>2, <2>1, <2>2 DEF Drop, ServerFails, parts
<1>3. CASE StartPlayer
  <2>1. pc = "player" /\ pc' = "display"
    BY <1>3, GoFrom, Places DEF StartPlayer, Live
  <2>2. Alive /\ ~Past("display")' /\ ~Past("server")' /\ ~Past("capture")
    BY <2>1, Places DEF Alive, Over, Past, Live
  <2> QED  BY <1>0, <1>3, <2>1, <2>2 DEF StartPlayer, PartsInv, HandedToTheStarted
<1>4. CASE StartDisplay
  <2>1. pc = "display" /\ pc' = "server"
    BY <1>4, GoFrom, Places DEF StartDisplay, Live
  <2>2. Alive /\ Past("player") /\ ~Past("server")' /\ ~Past("capture")
    BY <2>1, Places DEF Alive, Over, Past, Live
  <2> QED  BY <1>0, <1>4, <2>1, <2>2 DEF StartDisplay, PartsInv, HandedToTheStarted
<1>5. CASE StartServer /\ Go
  <2>1. pc = "server" /\ pc' = "capture"
    BY <1>5, GoFrom, Places DEF StartServer, Live
  <2>2. Alive /\ Past("player") /\ Past("display") /\ ~Past("capture")
    BY <2>1, Places DEF Alive, Over, Past, Live
  <2>3. server' = "starting" \/ (server' = server /\ ~(opt.http /\ ~opt.adjunct))
    BY <1>5, <2>1 DEF StartServer, Die, Ends, parts
  <2>4. UNCHANGED <<player, display, capture, fault>>
    BY <1>5, <2>1 DEF StartServer, Die, Ends, parts
  <2> QED  BY <1>0, <2>1, <2>2, <2>3, <2>4 DEF PartsInv, HandedToTheStarted
<1>6. CASE StartCapture
  <2>1. pc = "capture" /\ pc' = "loop"
    BY <1>6, GoFrom, Places DEF StartCapture, Live
  <2>2. Alive /\ Past("player") /\ Past("display") /\ Past("server") /\ Past("capture")'
    BY <2>1, Places DEF Alive, Over, Past, Live
  <2> QED  BY <1>0, <1>6, <2>1, <2>2 DEF StartCapture, PartsInv, HandedToTheStarted
<1>7. CASE StopHttp
  <2>1. pc = "stop_http" /\ Alive /\ Past("server") /\ Past("player") /\ Past("display")
    BY <1>7, Places DEF StopHttp, Alive, Over, Past, Live
  <2>2. CASE Die("crashed", "stop") /\ opt.http /\ server = "none"
    <3>1. opt.adjunct
      BY <2>1, <2>2 DEF PartsInv
    <3> QED  BY <1>0, <2>2, <3>1, DiesInOrder DEF Die, Ends, HandedToTheStarted
  <2>3. CASE UNCHANGED <<player, display, server, capture, fault>>
    BY <1>0, <2>1, <2>3, SameParts
  <2> QED  BY <1>7, <2>2, <2>3 DEF StopHttp, parts
<1>8. CASE Main
  <2>1. CASE CreatePidfile /\ pc' = "exited"
    BY <1>0, <2>1 DEF CreatePidfile, PartsInv, HandedToTheStarted, Past, Alive, Over, Live, parts
  <2>2. CASE \/ Start \/ Open \/ (CreatePidfile /\ pc' # "exited") \/ MakeTmpdir \/ SetupSignals
             \/ Loop \/ JoinHttp \/ StopPlayer \/ Close \/ Join \/ Clean \/ ClosePidfile
    <3>1. CASE Die("exited", "none")
      BY <1>1, <3>1
    <3>2. CASE ~Die("exited", "none")
      <4>1. pc \notin {"player", "display", "server"}
        BY <2>2 DEF Start, Open, CreatePidfile, MakeTmpdir, SetupSignals, Loop, JoinHttp,
           StopPlayer, Close, Join, Clean, ClosePidfile
      <4>2. UNCHANGED <<player, display, server, capture, fault>>
        BY <2>2, <3>2 DEF Start, Open, CreatePidfile, MakeTmpdir, SetupSignals, Loop, JoinHttp,
           StopPlayer, Close, Join, Clean, ClosePidfile, parts
      <4> QED  BY <1>0, <4>1, <4>2, SameParts
    <3> QED  BY <3>1, <3>2
  <2>3. CASE StartServer /\ ~Go
    <3>1. Die("exited", "none")
      BY <2>3 DEF StartServer
    <3> QED  BY <1>1, <3>1
  <2> QED  BY <1>2, <1>3, <1>4, <1>5, <1>6, <1>7, <1>8, <2>1, <2>2, <2>3 DEF Main
<1>9. CASE ServerUp \/ ServerQuits \/ ServerEnds
  <2>1. pc' = pc /\ Alive /\ UNCHANGED <<player, display, capture, fault>>
    BY <1>9 DEF ServerUp, ServerQuits, ServerEnds, Alive
  <2>2. fault = "none" /\ server' \in {"serving", "cancelled", "destroyed"}
    BY <1>9, <2>1 DEF ServerUp, ServerQuits, ServerEnds, PartsInv
  <2>3. Past("capture")' = Past("capture") /\ Past("player")' = Past("player")
        /\ Past("display")' = Past("display") /\ Past("server")' = Past("server")
        /\ Alive' = Alive
    BY <2>1 DEF Past, Alive, Over
  <2> QED  BY <1>0, <2>1, <2>2, <2>3 DEF PartsInv, HandedToTheStarted
<1>10. CASE DisplayEnds \/ CaptureEnds
  <2>1. pc' = pc /\ Alive /\ UNCHANGED <<player, server, fault>>
        /\ (display' = display \/ display' = "gone")
        /\ (capture' = capture \/ (capture' = "ended" /\ capture = "running"))
    BY <1>10 DEF DisplayEnds, CaptureEnds, Alive
  <2>2. Past("capture")' = Past("capture") /\ Past("player")' = Past("player")
        /\ Past("display")' = Past("display") /\ Past("server")' = Past("server")
        /\ Alive' = Alive
    BY <2>1 DEF Past, Alive, Over
  <2> QED  BY <1>0, <2>1, <2>2 DEF PartsInv, HandedToTheStarted
<1>11. ASSUME NEW d, Found(d) PROVE PartsInv'
  <2>1. d \in DriversFor(opt.type) /\ Past("capture")
    BY <1>11, FoundStep DEF Found
  <2>2. UNCHANGED <<opt, player, display, server, capture>>
    BY <1>11, FoundStep
  <2>3. CASE UNCHANGED <<pc, fault>>
    BY <1>0, <2>2, <2>3, SameParts
  <2>4. CASE ~UNCHANGED <<pc, fault>>
    <3>1. pc' = "crashed" /\ fault' = Dispatch(opt, d) /\ ~Takes(Dispatch(opt, d))
      BY <1>11, <2>4 DEF Found, Ends
    <3>2. \/ Dispatch(opt, d) = "player" /\ opt.adjunct
          \/ Dispatch(opt, d) = "http" /\ server \in {"starting", "destroyed"}
      BY <2>1, <3>1, DispatchTakes
    <3>3. HandedToTheStarted'
      BY <2>2, <3>1, <3>2 DEF HandedToTheStarted
    <3> QED  BY <2>2, <3>1, <3>3 DEF PartsInv, Past, Alive, Over, Live
  <2> QED  BY <2>3, <2>4
<1>12. CASE Signal
  <2>1. CASE Die("killed", "none")
    BY <1>1, <2>1
  <2>2. CASE UNCHANGED <<pc, parts, fault>>
    BY <1>0, <2>2, SameParts DEF parts
  <2> QED  BY <1>12, <2>1, <2>2 DEF Signal
<1>13. CASE Clock \/ UNCHANGED vars
  BY <1>0, <1>13, SameParts DEF Clock, vars, parts
<1>14. ASSUME NEW n, Consume(n) \/ OtherInstance(n) PROVE PartsInv'
  BY <1>0, <1>14, SameParts DEF Consume, OtherInstance, parts
<1> QED  BY <1>2, <1>8, <1>9, <1>10, <1>11, <1>12, <1>13, <1>14 DEF Next

-----------------------------------------------------------------------------
(* The directory. *)

\* A step that leaves the files alone, and main before or behind what it does
\* with them.
LEMMA SameDirectory ==
    ASSUME PlaceOK, DirectoryInv, [Next]_vars, UNCHANGED <<tmpdir, there, files, left, unread>>,
           capture' = capture \/ capture' = "ended",
           pc \notin {"tmpdir", "join_http", "join", "clean"} \/ pc' = pc \/ pc' \notin Live
    PROVE  DirectoryInv'
<1>1. opt' = opt
  BY PlaceStep
<1>2. \A s \in {"tmpdir", "join_http", "join", "clean"} : Past(s)' => Past(s)
  BY PastStep DEF Live, Past
<1> QED  BY <1>1, <1>2 DEF DirectoryInv

\* Names of files that come and go while main is between two steps.
LEMMA OtherFiles ==
    ASSUME PlaceOK, DirectoryInv, [Next]_vars, pc' = pc,
           UNCHANGED <<tmpdir, there, left, capture>>,
           files' \cup Ours = files \cup Ours,
           ~Past("join") \/ (files' \subseteq files /\ unread' = unread)
    PROVE  DirectoryInv'
<1>1. opt' = opt
  BY PlaceStep
<1>2. \A s \in Live : Past(s)' = Past(s)
  BY DEF Past
<1>3. ("notes" \in files => "notes" \in files') /\ (Index \in files' => Index \in files)
  BY LifecycleAssumption DEF LifecycleAssumption
<1>4. Past("clean") => files' \subseteq files /\ unread' = unread
  BY Places DEF Past, Live
<1> QED  BY <1>1, <1>2, <1>3, <1>4 DEF DirectoryInv, Live

\* The files of the temporary directory, whatever the threads write and the other
\* instances do.
LEMMA DirectoryStep ==
    ASSUME PlaceOK, PartsInv, DirectoryInv, [Next]_vars
    PROVE  DirectoryInv'
<1>0. PlaceOK' /\ opt' = opt
  BY PlaceStep
<1>1. ASSUME NEW how \in {"exited", "killed", "crashed"}, NEW why, Die(how, why)
      PROVE  DirectoryInv'
  BY <1>1 DEF Die, Ends, Past, Live, DirectoryInv
<1>2. CASE MakeTmpdir /\ Go
  <2>1. pc = "tmpdir" /\ pc' = "signals"
    BY <1>2, GoFrom, Places DEF MakeTmpdir, Live
  <2>2. ~Past("join_http")' /\ ~Past("join")' /\ ~Past("clean")'
    BY <2>1, Places DEF Past, Live
  <2>3. /\ tmpdir'.preserve_files = opt.adjunct
        /\ tmpdir'.type = IF opt.dir THEN "user" ELSE "app"
        /\ opt.dir => files' \in Contents
    BY <1>2, <2>1 DEF MakeTmpdir, Die, Ends, SetTmpdir
  <2> QED  BY <1>0, <2>2, <2>3, LifecycleAssumption DEF DirectoryInv, LifecycleAssumption
<1>3. CASE StartServer /\ Go
  <2>1. pc = "server" /\ pc' = "capture"
    BY <1>3, GoFrom, Places DEF StartServer, Live
  <2>2. Past("tmpdir") /\ ~Past("join_http")' /\ ~Past("join")' /\ ~Past("clean")'
    BY <2>1, Places DEF Past, Live
  <2>3. tmpdir' = tmpdir /\ files \subseteq files'
    BY <1>3, <2>1 DEF StartServer, Die, Ends, Holds, tmpvars
  <2> QED  BY <1>0, <2>2, <2>3 DEF DirectoryInv
<1>4. CASE StartCapture
  <2>1. pc = "capture" /\ pc' = "loop"
    BY <1>4, GoFrom, Places DEF StartCapture, Live
  <2>2. Past("tmpdir") /\ ~Past("join_http")' /\ ~Past("join")' /\ ~Past("clean")'
    BY <2>1, Places DEF Past, Live
  <2> QED  BY <1>0, <1>4, <2>2 DEF DirectoryInv, StartCapture, tmpvars
<1>5. CASE JoinHttp
  <2>1. pc = "join_http" /\ pc' = "stop_player"
    BY <1>5, GoFrom, Places DEF JoinHttp, Live
  <2>2. Past("tmpdir") /\ ~Past("join")' /\ ~Past("clean")'
    BY <2>1, Places DEF Past, Live
  <2>3. tmpdir' = tmpdir /\ files' = IF opt.http THEN files \ {Index} ELSE files
    BY <1>5 DEF JoinHttp, Holds
  <2> QED  BY <1>0, <2>2, <2>3 DEF DirectoryInv, Index
<1>6. CASE Join
  <2>1. pc = "join" /\ pc' = "clean"
    BY <1>6, GoFrom, Places DEF Join, Live
  <2>2. Past("tmpdir") /\ Past("join_http") /\ ~Past("clean")'
    BY <2>1, Places DEF Past, Live
  <2> QED  BY <1>0, <1>6, <2>2 DEF DirectoryInv, Join, tmpvars, parts
<1>7. CASE Clean
  <2>1. pc = "clean" /\ pc' = "close_pid"
    BY <1>7, GoFrom, Places DEF Clean, Live
  <2>2. Past("tmpdir") /\ Past("join_http") /\ Past("join")
    BY <2>1, Places DEF Past, Live
  <2>3. /\ opt.adjunct => UNCHANGED <<files, there>>
        /\ ~opt.adjunct => /\ files' = IF unread' THEN files ELSE Cleaned
                           /\ there' = ~(~opt.dir /\ files' = {})
        /\ unread' \in BOOLEAN \/ unread' = unread
        /\ left' = files'
        /\ tmpdir'.preserve_files = tmpdir.preserve_files /\ tmpdir'.type = tmpdir.type
        /\ capture' = capture
    BY <1>7, <2>2 DEF Clean, CleanTmpdir, DirectoryInv, parts
  <2>4. Cleaned \subseteq files /\ Cleaned \cap Images = {} /\ ("notes" \in files => "notes" \in Cleaned)
    BY LifecycleAssumption DEF Cleaned, IsTempfile, LifecycleAssumption, Ours
  <2> QED  BY <1>0, <2>2, <2>3, <2>4 DEF DirectoryInv
<1>8. CASE Main
  <2>1. CASE CreatePidfile /\ pc' = "exited"
    BY <2>1 DEF CreatePidfile, DirectoryInv, Past, Live
  <2>2. CASE \/ Start \/ Open \/ Drop \/ (CreatePidfile /\ pc' # "exited") \/ SetupSignals
             \/ StartPlayer \/ StartDisplay \/ Loop \/ StopHttp \/ StopPlayer \/ Close
             \/ ClosePidfile
    <3>1. CASE Die("exited", "none")
      BY <1>1, <3>1
    <3>2. CASE \E why : Die("crashed", why)
      BY <1>1, <3>2
    <3>3. CASE ~Die("exited", "none") /\ ~\E why : Die("crashed", why)
      <4>1. pc \notin {"tmpdir", "join_http", "join", "clean"}
        BY <2>2 DEF Start, Open, Drop, CreatePidfile, SetupSignals, StartPlayer, StartDisplay,
           Loop, StopHttp, StopPlayer, Close, ClosePidfile
      <4>2. UNCHANGED <<tmpdir, there, files, left, unread, capture>>
        BY <2>2, <3>3 DEF Start, Open, Drop, CreatePidfile, SetupSignals, StartPlayer,
           StartDisplay, Loop, StopHttp, StopPlayer, Close, ClosePidfile, parts, tmpvars
      <4> QED  BY <1>0, <4>1, <4>2, SameDirectory
    <3> QED  BY <3>1, <3>2, <3>3
  <2>3. CASE (MakeTmpdir \/ StartServer) /\ ~Go
    <3>1. Die("exited", "none")
      BY <2>3 DEF MakeTmpdir, StartServer
    <3> QED  BY <1>1, <3>1
  <2>4. MakeTmpdir \/ StartServer => DirectoryInv'
    BY <1>2, <1>3, <2>3
  <2> QED  BY <1>4, <1>5, <1>6, <1>7, <1>8, <2>1, <2>2, <2>4 DEF Main
<1>9. CASE \/ ServerUp \/ ServerQuits \/ ServerEnds \/ DisplayEnds \/ CaptureEnds \/ Clock
           \/ UNCHANGED vars
  <2>1. /\ pc' = pc /\ UNCHANGED <<tmpdir, there, files, left, unread>>
        /\ capture' = capture \/ capture' = "ended"
    BY <1>9 DEF ServerUp, ServerQuits, ServerEnds, DisplayEnds, CaptureEnds, Clock, Second, vars, tmpvars, parts
  <2> QED  BY <2>1, SameDirectory
<1>10. ASSUME NEW d, Found(d) PROVE DirectoryInv'
  <2>1. /\ capture = "running" /\ UNCHANGED <<tmpdir, there, left, capture>>
        /\ pc' = pc \/ pc' = "crashed"
        /\ files' = files \/ \E n \in Ours : files' = files \cup {n}
    BY <1>10, FoundStep DEF Holds
  <2>2. CASE pc' = "crashed"
    BY <2>2 DEF DirectoryInv, Past, Live
  <2>3. CASE pc' = pc
    <3>1. ~Past("join")
      BY <2>1 DEF DirectoryInv
    <3> QED  BY <2>1, <2>3, <3>1, OtherFiles
  <2> QED  BY <2>1, <2>2, <2>3
<1>11. ASSUME NEW n, Consume(n) PROVE DirectoryInv'
  <2>1. /\ pc' = pc /\ UNCHANGED <<tmpdir, there, left, unread, capture>>
        /\ n \in Ours /\ files' = files \ {n}
    BY <1>11 DEF Consume, Holds, parts
  <2> QED  BY <2>1, OtherFiles
<1>12. CASE Signal \/ ServerFails
  <2>1. CASE \E how \in {"killed", "crashed"} : \E why : Die(how, why)
    BY <1>1, <2>1
  <2>2. CASE Signal /\ UNCHANGED <<pc, parts, tmpvars>>
    BY <2>2, SameDirectory DEF parts, tmpvars
  <2> QED  BY <1>12, <2>1, <2>2 DEF Signal, ServerFails
<1>13. ASSUME NEW p, OtherInstance(p) PROVE DirectoryInv'
  BY <1>13, SameDirectory DEF OtherInstance, parts, tmpvars
<1> QED  BY <1>8, <1>9, <1>10, <1>11, <1>12, <1>13 DEF Next

-----------------------------------------------------------------------------
(* The limit. *)

\* count_tmpfiles counts.
LEMMA CountIsNat == ASSUME NEW fs, IsFiniteSet(fs) PROVE CountIn(fs) \in Nat
BY FS_Subset, FS_CardinalityType DEF CountIn

\* The smaller of two.
LEMMA MinOfTwo == ASSUME NEW a \in Nat, NEW b \in Nat PROVE Min({a, b}) = IF a <= b THEN a ELSE b
BY DEF Min

\* Main has made the directory, or has not, as before.
SamePlace ==
    /\ Past("tmpdir")' => Past("tmpdir")
    /\ pc' \in Live /\ ~Past("tmpdir")' => pc \in Live /\ ~Past("tmpdir")

\* The directory holds other files, and the count is as it was or made anew.
LEMMA HoldsKeepsLimit ==
    ASSUME LimitInv, SamePlace, NEW fs, IsFiniteSet(fs), files' = fs,
           (fs = files /\ over' = over) \/ Holds(fs),
           (\E opened \in BOOLEAN : AskedLimit(opened)) \/ UNCHANGED <<num, age>>,
           UNCHANGED tmpdir
    PROVE  LimitInv'
<1> USE TmpDirAssumption DEF TmpDirAssumption, LimitInv
<1>1. CountIn(files) \in Nat /\ CountIn(fs) \in Nat
  BY CountIsNat
<1>2. /\ num' \in Nat /\ age' \in 0 .. Old
      /\ tmpdir.max_files # 0 /\ num' < tmpdir.max_files /\ age' <= CACHE => over <= age'
      /\ tmpdir.max_files = 0 => UNCHANGED <<num, age>>
  <2>1. CASE UNCHANGED <<num, age>>
    BY <2>1
  <2>2. ASSUME NEW opened \in BOOLEAN, tmpdir.max_files # 0,
               num' = Counted(opened), age' = AgeCounted(opened)
        PROVE  /\ num' \in Nat /\ age' \in 0 .. Old
               /\ num' < tmpdir.max_files /\ age' <= CACHE => over <= age'
    <3>1. CASE age > CACHE /\ opened
      BY <1>1, <2>2, <3>1 DEF Counted, AgeCounted, Old
    <3>2. CASE age > CACHE /\ ~opened
      BY <1>1, <2>2, <3>2 DEF Counted, AgeCounted, Old
    <3>3. CASE ~(age > CACHE)
      BY <1>1, <2>2, <3>3 DEF Counted, AgeCounted, Old
    <3> QED  BY <3>1, <3>2, <3>3
  <2> QED  BY <2>1, <2>2 DEF AskedLimit
<1>3. /\ over' \in 0 .. Old /\ over' <= over
      /\ tmpdir.max_files # 0 /\ CountIn(fs) < tmpdir.max_files => over' = 0
  BY <1>1 DEF Holds, Old
<1>4. pc' \in Live /\ ~Past("tmpdir")' => UNCHANGED <<num, age, over>>
  BY <1>2, <1>3 DEF SamePlace, Old
<1>5. CountIn(files)' = CountIn(fs)
  BY DEF CountIn
<1> QED  BY <1>2, <1>3, <1>4, <1>5 DEF SamePlace, Old

\* The count of files and its age, at each step of the clock and of the writers.
LEMMA LimitStep == ASSUME OptionsInv, PartsInv, LimitInv, [Next]_vars PROVE LimitInv'
<1> USE TmpDirAssumption DEF TmpDirAssumption
<1>0. PlaceOK /\ PlaceOK' /\ opt' = opt
  BY PlaceStep DEF OptionsInv
<1>1. pc # "tmpdir" \/ pc' = pc \/ pc' \notin Live => SamePlace
  BY <1>0, PastStep DEF SamePlace, Past, Live
<1>2. SamePlace /\ UNCHANGED <<tmpdir, files, num, age, over>> => LimitInv'
  BY HoldsKeepsLimit DEF LimitInv
<1>3. ASSUME NEW how \in {"exited", "killed", "crashed"}, NEW why, Die(how, why)
      PROVE  LimitInv'
  BY <1>1, <1>2, <1>3 DEF Die, Ends, Live, tmpvars
<1>4. CASE MakeTmpdir /\ Go
  <2>1. pc = "tmpdir" /\ pc' = "signals"
    BY <1>4, GoFrom, Places DEF MakeTmpdir, Live
  <2>2. Past("start") /\ ~Past("tmpdir") /\ Past("tmpdir")'
    BY <2>1, Places DEF Past, Live
  <2>3. opt.max \in Nat /\ (opt.max # 0 => opt.adjunct)
    BY <2>2 DEF OptionsInv, Validated, Options
  <2>4. /\ DOMAIN tmpdir' = {"path", "type", "max_files", "preserve_files"}
        /\ tmpdir'.max_files = opt.max /\ tmpdir'.preserve_files = opt.adjunct
        /\ UNCHANGED <<num, age, over>>
        /\ files' \in Contents \/ files' = {}
    BY <1>4, <2>1 DEF MakeTmpdir, Die, Ends, SetTmpdir
  <2>5. IsFiniteSet(files')
    BY <2>4, LifecycleAssumption, FS_EmptySet DEF LifecycleAssumption
  <2>6. over = 0 /\ age = Old
    BY <2>1, <2>2 DEF LimitInv, Live
  <2> QED  BY <2>2, <2>3, <2>4, <2>5, <2>6 DEF LimitInv, Old
<1>5. CASE (StartServer \/ JoinHttp) /\ Go
  <2>1. pc # "tmpdir" /\ UNCHANGED <<tmpdir, num, age>>
        /\ (UNCHANGED <<files, over>> \/ \E fs \in {files \cup {Index}, files \ {Index}} : Holds(fs))
    BY <1>5, GoFrom DEF StartServer, JoinHttp, Die, Ends, tmpvars, Live
  <2>2. IsFiniteSet(files \cup {Index}) /\ IsFiniteSet(files \ {Index})
    BY FS_AddElement, FS_Subset DEF LimitInv
  <2> QED  BY <1>1, <1>2, <2>1, <2>2, HoldsKeepsLimit DEF Holds
<1>6. CASE Clean
  <2>1. /\ pc = "clean" /\ UNCHANGED <<num, age, over>>
        /\ DOMAIN tmpdir' = DOMAIN tmpdir /\ tmpdir'.max_files = tmpdir.max_files
        /\ tmpdir'.preserve_files = tmpdir.preserve_files
        /\ files' = files \/ (files' = Cleaned /\ ~tmpdir.preserve_files)
    <3>1. pc = "clean" /\ UNCHANGED <<num, age, over>>
          /\ tmpdir' = [tmpdir EXCEPT !.path = FALSE]
      BY <1>6 DEF Clean, CleanTmpdir
    <3>2. files' = files \/ (files' = Cleaned /\ ~tmpdir.preserve_files)
      BY <1>6 DEF Clean, CleanTmpdir
    <3> QED  BY <3>1, <3>2 DEF LimitInv
  <2>2. Past("tmpdir") /\ SamePlace
    BY <2>1, <1>1, Places DEF Past, Live
  <2>3. IsFiniteSet(files')
    BY <2>1, FS_Subset DEF LimitInv, Cleaned
  <2>4. tmpdir.max_files # 0 => files' = files
    BY <2>1, <2>2 DEF LimitInv
  <2>5. tmpdir.max_files # 0 => CountIn(files)' = CountIn(files)
    BY <2>4 DEF CountIn
  <2> QED  BY <2>1, <2>2, <2>3, <2>5 DEF LimitInv, SamePlace
<1>7. CASE Main
  <2>1. CASE CreatePidfile /\ pc' = "exited"
    BY <1>1, <1>2, <2>1 DEF CreatePidfile, tmpvars, Live
  <2>2. CASE \/ Start \/ Open \/ Drop \/ (CreatePidfile /\ pc' # "exited") \/ SetupSignals
             \/ StartPlayer \/ StartDisplay \/ StartCapture \/ Loop \/ StopHttp \/ StopPlayer
             \/ Close \/ Join \/ ClosePidfile
    <3>1. pc # "tmpdir" /\ UNCHANGED <<tmpdir, files, num, age, over>>
      BY <2>2 DEF Start, Open, Drop, CreatePidfile, SetupSignals, StartPlayer, StartDisplay,
         StartCapture, Loop, StopHttp, StopPlayer, Close, Join, ClosePidfile, Die, Ends,
         tmpvars
    <3> QED  BY <1>1, <1>2, <3>1
  <2>3. CASE (MakeTmpdir \/ StartServer \/ JoinHttp) /\ ~Go
    <3>1. Die("exited", "none")
      BY <2>3 DEF MakeTmpdir, StartServer, JoinHttp
    <3> QED  BY <1>3, <3>1
  <2>4. MakeTmpdir \/ StartServer \/ JoinHttp => LimitInv'
    BY <1>4, <1>5, <2>3
  <2> QED  BY <1>6, <1>7, <2>1, <2>2, <2>4 DEF Main
<1>8. CASE Signal \/ ServerFails
  <2>1. CASE \E how \in {"killed", "crashed"} : \E why : Die(how, why)
    BY <1>3, <2>1
  <2>2. CASE Signal /\ UNCHANGED <<pc, tmpvars>>
    BY <2>2, <1>1, <1>2 DEF tmpvars
  <2> QED  BY <1>8, <2>1, <2>2 DEF Signal, ServerFails
<1>9. CASE \/ ServerUp \/ ServerQuits \/ ServerEnds \/ DisplayEnds \/ CaptureEnds
           \/ UNCHANGED vars
  BY <1>1, <1>2, <1>9 DEF ServerUp, ServerQuits, ServerEnds, DisplayEnds, CaptureEnds, vars,
     tmpvars
<1>10. CASE Clock
  <2>1. pc' = pc /\ Second
    BY <1>10 DEF Clock
  <2>2. SamePlace
    BY <1>1, <2>1
  <2>3. /\ age' = Min({age + 1, Old}) /\ tmpdir.max_files # 0
        /\ over' = IF CountIn(files) < tmpdir.max_files THEN 0 ELSE Min({over + 1, Old})
        /\ UNCHANGED <<tmpdir, files, num>>
    BY <2>1 DEF Second
  <2>4. age \in 0 .. Old /\ over \in 0 .. Old /\ Old \in Nat
    BY DEF LimitInv, Old
  <2>5. Min({age + 1, Old}) = (IF age + 1 <= Old THEN age + 1 ELSE Old)
        /\ Min({over + 1, Old}) = (IF over + 1 <= Old THEN over + 1 ELSE Old)
    BY <2>4, MinOfTwo
  <2>6. CountIn(files)' = CountIn(files)
    BY <2>3 DEF CountIn
  <2>7. pc' \in Live => Past("tmpdir")'
    BY <2>2, <2>3 DEF LimitInv, SamePlace
  <2> QED  BY <2>2, <2>3, <2>4, <2>5, <2>6, <2>7 DEF LimitInv, SamePlace, Old
<1>11. ASSUME NEW d, Found(d) PROVE LimitInv'
  <2>1. /\ pc' = pc \/ pc' = "crashed"
        /\ tmpdir' = tmpdir /\ \E opened \in BOOLEAN : AskedLimit(opened)
        /\ UNCHANGED <<files, over>> \/ \E n : Holds(files \cup {n}) \/ Holds(files)
    BY <1>11, FoundStep
  <2>2. IsFiniteSet(files) /\ \A n : IsFiniteSet(files \cup {n})
    BY FS_AddElement DEF LimitInv
  <2>3. SamePlace
    BY <2>1, <1>1 DEF Live
  <2> QED  BY <2>1, <2>2, <2>3, HoldsKeepsLimit DEF Holds
<1>12. ASSUME NEW n, Consume(n) PROVE LimitInv'
  <2>1. pc' = pc /\ UNCHANGED <<tmpdir, num, age>> /\ Holds(files \ {n})
    BY <1>12 DEF Consume
  <2>2. IsFiniteSet(files \ {n})
    BY FS_Subset DEF LimitInv
  <2> QED  BY <1>1, <2>1, <2>2, HoldsKeepsLimit DEF Holds
<1>13. ASSUME NEW p, OtherInstance(p) PROVE LimitInv'
  BY <1>1, <1>2, <1>13 DEF OtherInstance, tmpvars
<1> QED  BY <1>7, <1>8, <1>9, <1>10, <1>11, <1>12, <1>13 DEF Next

-----------------------------------------------------------------------------
(* The theorems. *)

\* The invariant in the state a run begins in.
LEMMA LifeStart == Init => LifeInv
<1> SUFFICES ASSUME Init PROVE LifeInv
  OBVIOUS
<1> USE TmpDirAssumption DEF TmpDirAssumption
<1>1. pc = "start" /\ pc \in Live /\ \A s \in Live : ~Past(s)
  BY Places DEF Init, Live, Past
<1>2. Validated(opt)
  BY ParseOK, LifecycleAssumption DEF Init, LifecycleAssumption
<1>3. DroppedInv /\ OptionsInv
  BY <1>1, <1>2 DEF DroppedInv, OptionsInv, PlaceOK, Live, Init
<1>4. PartsInv
  BY <1>1 DEF PartsInv, Init, HandedToTheStarted, Live
<1>5. DirectoryInv
  BY <1>1 DEF DirectoryInv, Live
<1>6. LimitInv
  BY <1>1, FS_EmptySet DEF LimitInv, Init, TmpInit, Live, Old
<1> QED  BY <1>3, <1>4, <1>5, <1>6 DEF LifeInv

\* LifeInv holds at first and after every step of main, of its parts, of signals
\* and of other instances.
THEOREM LifeInvariance == Spec => []LifeInv
<1>1. LifeInv /\ [Next]_vars => LifeInv'
  <2> SUFFICES ASSUME LifeInv, [Next]_vars PROVE LifeInv'
    OBVIOUS
  <2>1. DroppedInv /\ OptionsInv /\ PartsInv /\ DirectoryInv /\ LimitInv /\ PlaceOK
    BY DEF LifeInv, OptionsInv
  <2>2. DroppedInv' /\ OptionsInv' /\ PartsInv' /\ DirectoryInv' /\ LimitInv'
    BY <2>1, DroppedStep, OptionsStep, PartsStep, DirectoryStep, LimitStep
  <2> QED  BY <2>2 DEF LifeInv
<1> QED  BY LifeStart, <1>1, PTL DEF Spec

\* With -Z, nothing is made as root: what main makes it makes behind the step
\* that drops the privileges. (main, drop_root)
THEOREM MakesNothingAsRoot == Spec => []NothingAsRoot
<1>1. LifeInv => NothingAsRoot
  BY DEF LifeInv, DroppedInv, NothingAsRoot
<1> QED  BY LifeInvariance, <1>1, PTL

\* A run that comes to its end leaves none of its images, nor the link, nor the
\* directory it made, and leaves the user's files: from the join of the capture
\* thread on nobody writes. (clean_tmpdir, stop_http_display, network_close)
THEOREM LeavesNothing == Spec => []EndsClean
<1>1. LifeInv => EndsClean
  <2> SUFFICES ASSUME LifeInv, pc = "ended", ~opt.adjunct PROVE EndsClean
    BY DEF EndsClean
  <2>1. Past("tmpdir") /\ Past("join_http") /\ Past("clean")
    BY Places DEF Past, Live
  <2> QED  BY <2>1 DEF LifeInv, DirectoryInv, EndsClean
<1> QED  BY LifeInvariance, <1>1, PTL

\* For every command line, what is found is handed to a part that main started,
\* but for a player in adjunct mode and a server that is not up. (parse_options,
\* main, dispatch_data)
THEOREM HandsToTheStarted == Spec => []HandedToTheStarted
<1>1. LifeInv => HandedToTheStarted
  BY DEF LifeInv, PartsInv
<1> QED  BY LifeInvariance, <1>1, PTL

\* With a limit, no image is written into a directory that the images which count
\* have filled for more than CACHE seconds, unless it could not be opened at that
\* moment: the count that let the image through is not older, and was below the
\* limit when it was made. (tmpfiles_limit_reached, count_tmpfiles)
THEOREM LimitLateByCache == Spec => LimitIsLateByCache
<1>1. LifeInv /\ [Next]_vars
      => [tmpdir.max_files # 0 /\ (files' \ files) \cap Ours # {}
          => over <= CACHE \/ unread']_vars
  <2> SUFFICES ASSUME LifeInv, Next, tmpdir.max_files # 0, (files' \ files) \cap Ours # {}
               PROVE  over <= CACHE \/ unread'
    OBVIOUS
  <2> USE TmpDirAssumption DEF TmpDirAssumption
  <2>1. OptionsInv /\ LimitInv /\ Index \notin Ours
    BY LifecycleAssumption DEF LifeInv, LifecycleAssumption
  <2>2. CASE Main
    <3>1. CASE MakeTmpdir
      <4>1. ~Past("tmpdir") /\ pc \in Live
        BY <3>1, Places DEF MakeTmpdir, Past, Live
      <4> QED  BY <2>1, <4>1 DEF LimitInv
    <3>2. CASE ~MakeTmpdir
      <4>1. files' \subseteq files \cup {Index}
        BY <2>2, <3>2 DEF Main, Start, Open, Drop, CreatePidfile, SetupSignals, StartPlayer,
           StartDisplay, StartServer, StartCapture, Loop, StopHttp, JoinHttp, StopPlayer, Close, Join,
           Clean, CleanTmpdir, Cleaned, ClosePidfile, Die, Ends, tmpvars, Holds
      <4> QED  BY <2>1, <4>1
    <3> QED  BY <3>1, <3>2
  <2>3. ASSUME NEW d, Found(d) PROVE over <= CACHE \/ unread'
    <3>1. PICK opened \in BOOLEAN : AskedLimit(opened) /\ ~LimitReached(opened)
      BY <2>3 DEF Found
    <3>2. CountIn(files) \in Nat
      BY <2>1, CountIsNat DEF LimitInv
    <3>3. CASE age > CACHE /\ opened
      BY <2>1, <3>1, <3>2, <3>3 DEF LimitReached, Counted, LimitInv
    <3>4. CASE age > CACHE /\ ~opened
      BY <3>1, <3>4 DEF AskedLimit
    <3>5. CASE ~(age > CACHE)
      BY <2>1, <3>1, <3>5 DEF LimitReached, Counted, LimitInv
    <3> QED  BY <3>3, <3>4, <3>5
  <2>4. CASE \/ Signal \/ ServerUp \/ ServerFails \/ ServerQuits \/ ServerEnds
             \/ DisplayEnds \/ CaptureEnds \/ Clock
    BY <2>4 DEF Signal, ServerUp, ServerFails, ServerQuits, ServerEnds, DisplayEnds, CaptureEnds, Clock, Second, Die, Ends,
       tmpvars
  <2>5. ASSUME NEW n, Consume(n) \/ OtherInstance(n) PROVE FALSE
    BY <2>5 DEF Consume, OtherInstance, tmpvars, Holds
  <2> QED  BY <2>2, <2>3, <2>4, <2>5 DEF Next
<1> QED  BY LifeInvariance, <1>1, PTL DEF Spec, LimitIsLateByCache

\* A run of driftnet beside others over one PID file (driftnet.c, pid.c) is, seen from the file,
\* a run of PidFile: each of its steps is one of PidFile's or leaves the file and its locks alone.
THEOREM LifecycleUsesPidFile == Spec => PidSpec
<1>1. Init => PidInit
  BY DEF Init
<1>2. [Next]_vars => [PidNext]_pidvars
  <2> SUFFICES ASSUME [Next]_vars PROVE [PidNext]_pidvars
    OBVIOUS
  <2> USE LifecycleAssumption DEF LifecycleAssumption
  <2>1. ASSUME NEW how, NEW why, Die(how, why) PROVE [PidNext]_pidvars
    BY <2>1 DEF Die, Ends, PidNext, PidStep
  <2>2. CASE CreatePidfile \/ ClosePidfile
    BY <2>2 DEF CreatePidfile, ClosePidfile, PidNext, PidStep
  <2>3. CASE Start \/ Open \/ Drop \/ MakeTmpdir \/ StartServer \/ StopHttp
    BY <2>1, <2>3 DEF Start, Open, Drop, MakeTmpdir, StartServer, StopHttp
  <2>4. CASE \/ SetupSignals \/ StartPlayer \/ StartDisplay \/ StartCapture \/ Loop
             \/ JoinHttp \/ StopPlayer \/ Close \/ Join \/ Clean
    BY <2>4 DEF SetupSignals, StartPlayer, StartDisplay, StartCapture, Loop, JoinHttp,
       StopPlayer, Close, Join, Clean
  <2>5. CASE \/ Signal \/ ServerUp \/ ServerFails \/ ServerQuits \/ ServerEnds
             \/ DisplayEnds \/ CaptureEnds \/ Clock \/ UNCHANGED vars
    BY <2>1, <2>5 DEF Signal, ServerUp, ServerFails, ServerQuits, ServerEnds, DisplayEnds, CaptureEnds, Clock, vars
  <2>6. ASSUME NEW d, Found(d) \/ Consume(d) PROVE [PidNext]_pidvars
    BY <2>6 DEF Found, Ends, Consume, PidNext, PidStep
  <2>7. ASSUME NEW p \in Instances, OtherInstance(p) PROVE [PidNext]_pidvars
    BY <2>7 DEF OtherInstance, PidNext
  <2> QED  BY <2>2, <2>3, <2>4, <2>5, <2>6, <2>7 DEF Next, Main
<1> QED  BY <1>1, <1>2, PTL DEF Spec, PidSpec

\* So what holds of any instances over one PID file holds of this one beside them: until a file
\* is stolen, no two of them run.
THEOREM OneInstanceOfMany == Spec => []OneInstanceUnlessStolen
  BY LifecycleUsesPidFile, OneInstance, PTL
=============================================================================
