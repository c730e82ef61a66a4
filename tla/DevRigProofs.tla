----------------------------- MODULE DevRigProofs ------------------------------
(***************************************************************************)
(* Theorems about DevRig, for any number of commands, crashes and Ctrl-Cs: *)
(* every process can be found through its PID file, a stop leaves none, and *)
(* a calm start that says the rig is up is right.                           *)
(***************************************************************************)
EXTENDS DevRig, TLAPS

\* Where a command may be; it comes back to an ordinary place from the
\* writing of a PID file and the reaping of a process.
Ordinary == {"idle", "secrets", "broker", "broker.wait", "probe", "capture", "capture.wait",
             "api", "api.wait", "login", "list", "create", "rules", "worker", "rig is up",
             "worker.stop", "api.stop", "capture.stop", "mediamtx.stop", "torn down",
             "look", "camera", "checked"}
Places == Ordinary \union {"write", "reap"}
Cmd == [op : Ops \union {"none"}, pc : Places, pid : Pid \union {0}, then : Ordinary, calm : BOOLEAN]

RigTypes ==
    /\ name \in [Pid -> Name \union {"none"}]
    /\ alive \subseteq Pid /\ up \subseteq alive
    /\ \A p \in alive : name[p] # "none"
    /\ pidfile \in [Name -> Pid \union {0}]
    /\ cmd \in Cmd
    /\ crashes \in Nat /\ interrupts \in Nat

\* PID files name what their processes are, and a running process that has
\* none is the only one of its name and about to get it.
Files ==
    /\ \A p \in alive : pidfile[name[p]] = p \/ (At("write") /\ cmd.pid = p)
    /\ \A n \in Name : pidfile[n] # 0 => name[pidfile[n]] = n
    /\ At("write") => /\ cmd.pid \in Pid /\ name[cmd.pid] \in Name
                      /\ \A p \in alive : name[p] = name[cmd.pid] => p = cmd.pid
    /\ At("reap") => /\ cmd.pid \in Pid /\ name[cmd.pid] \in Name
                     /\ pidfile[name[cmd.pid]] = cmd.pid

FilesInv == RigTypes /\ (interrupts = 0 => Files)

LEMMA Pids == MaxCmds \in Nat /\ 0 \notin Pid
BY RigAssumption DEF Pid

\* What a step of a command does to its record.
LEMMA GoFacts ==
    ASSUME cmd \in Cmd, NEW pc \in Places, Go(pc)
    PROVE  /\ cmd' \in Cmd /\ cmd'.pc = pc
           /\ cmd'.op = cmd.op /\ cmd'.pid = cmd.pid /\ cmd'.then = cmd.then
           /\ cmd'.calm = cmd.calm
BY DEF Go, Cmd

LEMMA EndFacts == End => cmd' \in Cmd /\ cmd'.pc = "idle" /\ cmd'.op = "none"
BY DEF End, NoCmd, Cmd, Places, Ordinary, Ops

LEMMA PidFacts ==
    cmd \in Cmd =>
        \A pc \in Places, p \in Pid \union {0}, then \in Ordinary :
            cmd' = [cmd EXCEPT !.pc = pc, !.pid = p, !.then = then] =>
                /\ cmd' \in Cmd /\ cmd'.pc = pc
                /\ cmd'.op = cmd.op /\ cmd'.pid = p /\ cmd'.then = then
<1> SUFFICES ASSUME cmd \in Cmd, NEW pc \in Places, NEW p \in Pid \union {0}, NEW then \in Ordinary,
                    cmd' = [cmd EXCEPT !.pc = pc, !.pid = p, !.then = then]
             PROVE  /\ cmd' \in Cmd /\ cmd'.pc = pc
                    /\ cmd'.op = cmd.op /\ cmd'.pid = p /\ cmd'.then = then
    OBVIOUS
<1>1. cmd' = [op |-> cmd.op, pc |-> pc, pid |-> p, then |-> then, calm |-> cmd.calm]
    BY DEF Cmd
<1>2. cmd.op \in Ops \union {"none"} /\ cmd.calm \in BOOLEAN
    BY DEF Cmd
<1> QED BY <1>1, <1>2 DEF Cmd

LEMMA InitFiles == Init => FilesInv
<1> SUFFICES ASSUME Init PROVE FilesInv  OBVIOUS
<1>1. NoCmd \in Cmd /\ NoCmd.pc = "idle"  BY DEF NoCmd, Cmd, Places, Ordinary
<1> QED BY <1>1 DEF Init, FilesInv, RigTypes, Files, At

\* A step to an ordinary place, without a process or a PID file.
LEMMA OrdinaryKeeps ==
    ASSUME FilesInv, ~At("write"), cmd' \in Cmd, cmd'.pc \in Ordinary,
           up' \subseteq alive', UNCHANGED <<name, alive, pidfile, crashes, interrupts>>
    PROVE  FilesInv'
BY DEF FilesInv, RigTypes, Files, At, Ordinary

\* Some PID files of processes that do not run go.
LEMMA ForgettingKeeps ==
    ASSUME FilesInv, ~At("write"), cmd' \in Cmd, cmd'.pc \in Ordinary,
           UNCHANGED <<name, alive, up, crashes, interrupts>>,
           pidfile' \in [Name -> Pid \union {0}],
           \A n \in Name : pidfile'[n] = pidfile[n] \/ (pidfile'[n] = 0 /\ ~Tracked(n))
    PROVE  FilesInv'
<1>1. ASSUME Files PROVE \A p \in alive : pidfile'[name[p]] = p
    BY <1>1, Pids DEF FilesInv, RigTypes, Files, Tracked
<1> QED BY <1>1, Pids DEF FilesInv, RigTypes, Files, At, Ordinary

\* A process is started, where none of its name had a PID file and ran.
LEMMA PopenKeeps ==
    ASSUME FilesInv, NEW n \in Name, NEW next \in Ordinary, ~At("write"), ~Tracked(n),
           is_running(n), Popen(n, next), UNCHANGED budget
    PROVE  FilesInv'
<1>1. PICK p \in Pid :
        /\ name[p] = "none" /\ name' = [name EXCEPT ![p] = n] /\ alive' = alive \union {p}
        /\ cmd' = [cmd EXCEPT !.pc = "write", !.pid = p, !.then = next]
        /\ UNCHANGED <<up, crashes, interrupts>>
    BY DEF Popen, budget
<1>2. cmd' \in Cmd /\ cmd'.pc = "write" /\ cmd'.pid = p
    <2>1. cmd \in Cmd /\ "write" \in Places  BY DEF FilesInv, RigTypes, Places
    <2> QED BY <1>1, <2>1, PidFacts
<1>3. /\ name' \in [Pid -> Name \union {"none"}] /\ name'[p] = n
      /\ \A q \in Pid \ {p} : name'[q] = name[q]
    BY <1>1 DEF FilesInv, RigTypes
<1>4. /\ pidfile' \in [Name -> Pid \union {0}]
      /\ \A m \in Name : pidfile'[m] = pidfile[m] \/ (m = n /\ pidfile'[m] = 0)
    BY DEF is_running, FilesInv, RigTypes
<1>5. p \notin alive /\ n # "none"  BY <1>1 DEF FilesInv, RigTypes, Name
<1>6. RigTypes'  BY <1>1, <1>2, <1>3, <1>4, <1>5 DEF FilesInv, RigTypes
<1>7. ASSUME Files PROVE Files'
    <2>1. \A q \in alive : name[q] # n /\ pidfile[name[q]] = q /\ q # p
        BY <1>5, <1>7, Pids DEF FilesInv, RigTypes, Files, Tracked
    <2>2. \A q \in alive : pidfile'[name'[q]] = q
        BY <1>3, <1>4, <2>1 DEF FilesInv, RigTypes
    <2>3. \A m \in Name : pidfile[m] # 0 => pidfile[m] # p
        BY <1>1, <1>7 DEF Files, Name
    <2>4. \A m \in Name : pidfile'[m] # 0 => name'[pidfile'[m]] = m
        BY <1>3, <1>4, <1>7, <2>3 DEF Files, FilesInv, RigTypes
    <2> QED BY <1>1, <1>2, <1>3, <2>1, <2>2, <2>4 DEF Files, At, FilesInv, RigTypes
<1> QED BY <1>1, <1>6, <1>7 DEF FilesInv

\* A process ends; so may the streams it carried.
LEMMA GoneKeeps ==
    ASSUME FilesInv, NEW p, Gone(p), UNCHANGED <<name, pidfile, interrupts>>, crashes' \in Nat,
           cmd' \in Cmd, cmd'.pc = cmd.pc, cmd'.pid = cmd.pid
    PROVE  FilesInv'
<1>1. alive' \subseteq alive /\ up' \subseteq alive'
    BY DEF Gone, FilesInv, RigTypes
<1> QED BY <1>1 DEF FilesInv, RigTypes, Files, At

-----------------------------------------------------------------------------
(* The steps of a command *)

\* is_running of a process: only a file that names a dead one goes.
LEMMA LookFacts ==
    ASSUME RigTypes, NEW n \in Name, is_running(n)
    PROVE  /\ pidfile' \in [Name -> Pid \union {0}]
           /\ \A m \in Name : pidfile'[m] = pidfile[m] \/ (pidfile'[m] = 0 /\ ~Tracked(m))
BY DEF RigTypes, is_running

\* StartBroker, StartCapture, StartApi and StartWorker.
LEMMA StartsKeep ==
    ASSUME FilesInv, NEW n \in Name, ~At("write"), is_running(n), UNCHANGED budget,
           \/ ~Tracked(n) /\ \E next \in Ordinary : Popen(n, next)
           \/ UNCHANGED processes /\ cmd' \in Cmd /\ cmd'.pc \in Ordinary
    PROVE  FilesInv'
<1>1. ASSUME ~Tracked(n), NEW next \in Ordinary, Popen(n, next) PROVE FilesInv'
    BY <1>1, PopenKeeps
<1>2. CASE UNCHANGED processes /\ cmd' \in Cmd /\ cmd'.pc \in Ordinary
    BY <1>2, LookFacts, ForgettingKeeps DEF FilesInv, processes, budget
<1> QED BY <1>1, <1>2

LEMMA StartSteps == FilesInv /\ (StartBroker \/ StartCapture \/ StartApi \/ StartWorker) => FilesInv'
<1> SUFFICES ASSUME FilesInv, StartBroker \/ StartCapture \/ StartApi \/ StartWorker
             PROVE  FilesInv'
    OBVIOUS
<1>0. cmd \in Cmd  BY DEF FilesInv, RigTypes
<1>1. \A pc \in Ordinary : pc \in Places /\ (Go(pc) => cmd' \in Cmd /\ cmd'.pc = pc)
    BY <1>0, GoFacts DEF Places
<1>2. /\ {"broker.wait", "capture.wait", "api.wait", "rig is up"} \subseteq Ordinary
      /\ {"probe", "api", "login", "rig is up", "idle"} \subseteq Ordinary
      /\ {"mediamtx", "capture", "api", "worker"} = Name
    BY DEF Ordinary, Name
<1>3. End => cmd' \in Cmd /\ cmd'.pc \in Ordinary  BY EndFacts, <1>2
<1>4. CASE StartBroker
    <2>1. ~At("write") /\ is_running("mediamtx") /\ UNCHANGED budget
        BY <1>4 DEF StartBroker, At
    <2>2. \/ ~Tracked("mediamtx") /\ \E next \in Ordinary : Popen("mediamtx", next)
          \/ UNCHANGED processes /\ cmd' \in Cmd /\ cmd'.pc \in Ordinary
        BY <1>1, <1>2, <1>4 DEF StartBroker
    <2> QED BY <1>2, <2>1, <2>2, StartsKeep
<1>5. CASE StartCapture
    <2>1. ~At("write") /\ is_running("capture") /\ UNCHANGED budget
        BY <1>5 DEF StartCapture, At
    <2>2. \/ ~Tracked("capture") /\ \E next \in Ordinary : Popen("capture", next)
          \/ UNCHANGED processes /\ cmd' \in Cmd /\ cmd'.pc \in Ordinary
        BY <1>1, <1>2, <1>5 DEF StartCapture
    <2> QED BY <1>2, <2>1, <2>2, StartsKeep
<1>6. CASE StartApi
    <2>1. ~At("write") /\ is_running("api") /\ UNCHANGED budget
        BY <1>6 DEF StartApi, At
    <2>2. \/ ~Tracked("api") /\ \E next \in Ordinary : Popen("api", next)
          \/ UNCHANGED processes /\ cmd' \in Cmd /\ cmd'.pc \in Ordinary
        BY <1>1, <1>2, <1>3, <1>6 DEF StartApi
    <2> QED BY <1>2, <2>1, <2>2, StartsKeep
<1>7. CASE StartWorker
    <2>1. ~At("write") /\ is_running("worker") /\ UNCHANGED budget
        BY <1>7 DEF StartWorker, At
    <2>2. \/ ~Tracked("worker") /\ \E next \in Ordinary : Popen("worker", next)
          \/ UNCHANGED processes /\ cmd' \in Cmd /\ cmd'.pc \in Ordinary
        BY <1>1, <1>2, <1>7 DEF StartWorker
    <2> QED BY <1>2, <2>1, <2>2, StartsKeep
<1> QED BY <1>4, <1>5, <1>6, <1>7

\* The file is written.
LEMMA WriteKeeps == FilesInv /\ WritePid => FilesInv'
<1> SUFFICES ASSUME FilesInv, WritePid PROVE FilesInv'  OBVIOUS
<1>1. cmd \in Cmd /\ cmd.then \in Ordinary /\ cmd.then \in Places
    BY DEF FilesInv, RigTypes, Cmd, Places
<1>2. /\ At("write") /\ pidfile' = [pidfile EXCEPT ![name[cmd.pid]] = cmd.pid]
      /\ cmd' = [cmd EXCEPT !.pc = cmd.then, !.pid = 0]
      /\ UNCHANGED <<name, alive, up, crashes, interrupts>>
    BY DEF WritePid, processes, budget
<1>3. cmd' \in Cmd /\ cmd'.pc = cmd.then  BY <1>1, <1>2 DEF Cmd
<1>4. pidfile' \in [Name -> Pid \union {0}]
    BY <1>1, <1>2 DEF FilesInv, RigTypes, Cmd
<1>5. RigTypes'  BY <1>2, <1>3, <1>4 DEF FilesInv, RigTypes
<1>6. ASSUME Files PROVE Files'
    <2>1. cmd.pid \in Pid /\ name[cmd.pid] \in Name
        BY <1>2, <1>6 DEF Files
    <2>2. /\ pidfile'[name[cmd.pid]] = cmd.pid
          /\ \A n \in Name \ {name[cmd.pid]} : pidfile'[n] = pidfile[n]
        BY <1>2, <2>1 DEF FilesInv, RigTypes
    <2>3. \A p \in alive : name[p] \in Name  BY DEF FilesInv, RigTypes
    <2>4. \A p \in alive : pidfile'[name[p]] = p
        BY <1>2, <1>6, <2>2, <2>3 DEF Files, At
    <2>5. \A n \in Name : pidfile'[n] # 0 => name[pidfile'[n]] = n
        BY <1>6, <2>2 DEF Files
    <2>6. ~At("write")' /\ ~At("reap")'  BY <1>1, <1>3 DEF At, Ordinary
    <2> QED BY <1>2, <2>4, <2>5, <2>6 DEF Files
<1> QED BY <1>2, <1>5, <1>6 DEF FilesInv

\* A stop looks for the file, signals the process, and waits for it.
LEMMA TerminateKeeps == ASSUME FilesInv, NEW n \in Name, Terminate(n) PROVE FilesInv'
<1>1. Following(n) \in Ordinary  BY DEF Following, StopNext, Ordinary, Name
<1>2. ~At("write") /\ cmd \in Cmd
    BY DEF FilesInv, RigTypes, Terminate, Stopping, At
<1>3. /\ UNCHANGED <<name, alive, up, pidfile, crashes, interrupts>>
      /\ \/ Go(Following(n))
         \/ /\ pidfile[n] # 0
            /\ cmd' = [cmd EXCEPT !.pc = "reap", !.pid = pidfile[n], !.then = Following(n)]
    BY DEF Terminate, budget
<1>4. CASE Go(Following(n))
    <2>1. cmd' \in Cmd /\ cmd'.pc = Following(n)
        BY <1>1, <1>2, <1>4 DEF Go, Cmd, Places
    <2> QED BY <1>1, <1>2, <1>3, <2>1, OrdinaryKeeps DEF FilesInv, RigTypes
<1>5. CASE /\ pidfile[n] # 0
           /\ cmd' = [cmd EXCEPT !.pc = "reap", !.pid = pidfile[n], !.then = Following(n)]
    <2>1. pidfile[n] \in Pid \union {0} /\ "reap" \in Places
        BY DEF FilesInv, RigTypes, Places
    <2>2. cmd' \in Cmd /\ cmd'.pc = "reap" /\ cmd'.pid = pidfile[n]
        BY <1>1, <1>2, <1>5, <2>1, PidFacts
    <2>3. RigTypes'  BY <1>3, <2>2 DEF FilesInv, RigTypes
    <2>4. ASSUME Files PROVE Files'
        <3>1. \A p \in alive : pidfile[name[p]] = p  BY <1>2, <2>4 DEF Files
        <3>2. name[pidfile[n]] = n /\ pidfile[n] \in Pid
            BY <1>5, <2>1, <2>4 DEF Files
        <3> QED BY <1>3, <2>2, <2>4, <3>1, <3>2 DEF Files, At
    <2> QED BY <1>3, <2>3, <2>4 DEF FilesInv
<1> QED BY <1>3, <1>4, <1>5

\* The process is gone, and its file.
LEMMA ReapKeeps == FilesInv /\ Reap => FilesInv'
<1> SUFFICES ASSUME FilesInv, Reap PROVE FilesInv'  OBVIOUS
<1>1. cmd \in Cmd /\ cmd.then \in Ordinary /\ cmd.then \in Places
    BY DEF FilesInv, RigTypes, Cmd, Places
<1>2. /\ At("reap") /\ pidfile' = [pidfile EXCEPT ![name[cmd.pid]] = 0]
      /\ cmd' = [cmd EXCEPT !.pc = cmd.then, !.pid = 0]
      /\ UNCHANGED <<name, crashes, interrupts>>
    BY DEF Reap, budget
<1>3. alive' = alive \ {cmd.pid} /\ up' \subseteq alive'
    BY DEF Reap, Kill, Gone, FilesInv, RigTypes
<1>4. cmd' \in Cmd /\ cmd'.pc = cmd.then  BY <1>1, <1>2 DEF Cmd
<1>5. pidfile' \in [Name -> Pid \union {0}]
    BY <1>1, <1>2 DEF FilesInv, RigTypes
<1>6. RigTypes'  BY <1>2, <1>3, <1>4, <1>5 DEF FilesInv, RigTypes
<1>7. ASSUME Files PROVE Files'
    <2>1. cmd.pid \in Pid /\ name[cmd.pid] \in Name /\ pidfile[name[cmd.pid]] = cmd.pid
        BY <1>2, <1>7 DEF Files
    <2>2. /\ pidfile'[name[cmd.pid]] = 0
          /\ \A n \in Name \ {name[cmd.pid]} : pidfile'[n] = pidfile[n]
        BY <1>2, <2>1 DEF FilesInv, RigTypes
    <2>3. \A p \in alive : name[p] \in Name /\ pidfile[name[p]] = p
        BY <1>2, <1>7 DEF Files, At, FilesInv, RigTypes
    <2>4. \A p \in alive' : pidfile'[name[p]] = p  BY <1>3, <2>1, <2>2, <2>3
    <2>5. \A n \in Name : pidfile'[n] # 0 => name[pidfile'[n]] = n
        BY <1>7, <2>2 DEF Files
    <2>6. ~At("write")' /\ ~At("reap")'  BY <1>1, <1>4 DEF At, Ordinary
    <2> QED BY <1>2, <2>4, <2>5, <2>6 DEF Files
<1> QED BY <1>2, <1>6, <1>7 DEF FilesInv

LEMMA LookSteps == FilesInv /\ (Probe \/ Look) => FilesInv'
<1> SUFFICES ASSUME FilesInv, Probe \/ Look PROVE FilesInv'  OBVIOUS
<1>1. cmd \in Cmd /\ {"capture.stop", "capture", "login", "checked"} \subseteq Ordinary
    BY DEF FilesInv, RigTypes, Ordinary
<1>2. \A pc \in Ordinary : Go(pc) => cmd' \in Cmd /\ cmd'.pc = pc
    BY <1>1, GoFacts DEF Places
<1>3. /\ ~At("write") /\ UNCHANGED <<name, alive, up, crashes, interrupts>>
      /\ cmd' \in Cmd /\ cmd'.pc \in Ordinary
    BY <1>1, <1>2 DEF Probe, Look, At, processes, budget
<1>4. CASE Probe  BY <1>3, <1>4, LookFacts, ForgettingKeeps DEF Probe, FilesInv, Name
<1>5. CASE Look
    <2>1. /\ pidfile' \in [Name -> Pid \union {0}]
          /\ \A n \in Name : pidfile'[n] = pidfile[n] \/ (pidfile'[n] = 0 /\ ~Tracked(n))
        BY <1>5 DEF Look, FilesInv, RigTypes
    <2> QED BY <1>3, <2>1, ForgettingKeeps
<1> QED BY <1>4, <1>5

LEMMA OtherSteps ==
    FilesInv /\ ( \/ EnsureSecrets \/ Waits \/ Login(FALSE) \/ Login(TRUE) \/ ListCameras
                  \/ CreateCamera \/ InstallRules \/ Returns \/ CheckCamera )
        => FilesInv'
<1> SUFFICES ASSUME FilesInv,
                    \/ EnsureSecrets \/ Waits \/ Login(FALSE) \/ Login(TRUE) \/ ListCameras
                    \/ CreateCamera \/ InstallRules \/ Returns \/ CheckCamera
             PROVE  FilesInv'
    OBVIOUS
<1>1. cmd \in Cmd /\ {"broker", "probe", "api", "login", "list", "camera", "worker", "create",
                       "rules", "checked", "idle"} \subseteq Ordinary
    BY DEF FilesInv, RigTypes, Ordinary
<1>2. \A pc \in Ordinary : Go(pc) => cmd' \in Cmd /\ cmd'.pc \in Ordinary
    BY <1>1, GoFacts DEF Places
<1>3. End => cmd' \in Cmd /\ cmd'.pc \in Ordinary  BY <1>1, EndFacts
<1>4. /\ ~At("write") /\ UNCHANGED <<name, alive, up, pidfile, crashes, interrupts>>
      /\ cmd' \in Cmd /\ cmd'.pc \in Ordinary
    <2>1. CASE EnsureSecrets  BY <1>1, <1>2, <2>1 DEF EnsureSecrets, At, processes, budget
    <2>2. CASE Waits
        <3>1. cmd.pc \in {"broker.wait", "capture.wait", "api.wait"} /\ After[cmd.pc] \in Ordinary
            BY <1>1, <2>2 DEF Waits, Awaited, After
        <3> QED BY <1>2, <1>3, <2>2, <3>1 DEF Waits, At, processes, budget
    <2>3. CASE Login(FALSE) \/ Login(TRUE)
        BY <1>1, <1>2, <1>3, <2>3 DEF Login, At, processes, budget
    <2>4. CASE ListCameras  BY <1>1, <1>2, <1>3, <2>4 DEF ListCameras, At, processes, budget
    <2>5. CASE CreateCamera  BY <1>1, <1>2, <1>3, <2>5 DEF CreateCamera, At, processes, budget
    <2>6. CASE InstallRules  BY <1>1, <1>2, <1>3, <2>6 DEF InstallRules, At, processes, budget
    <2>7. CASE Returns  BY <1>3, <2>7 DEF Returns, At, processes, budget
    <2>8. CASE CheckCamera  BY <1>1, <1>2, <2>8 DEF CheckCamera, At, budget
    <2> QED BY <2>1, <2>2, <2>3, <2>4, <2>5, <2>6, <2>7, <2>8
<1> QED BY <1>4, OrdinaryKeeps DEF FilesInv, RigTypes

\* A command begins, and Ctrl-C ends one.
LEMMA CommandsKeep == FilesInv /\ (Interrupted \/ \E op \in Ops : Begins(op)) => FilesInv'
<1> SUFFICES ASSUME FilesInv, Interrupted \/ \E op \in Ops : Begins(op) PROVE FilesInv'
    OBVIOUS
<1>1. CASE Interrupted
    BY <1>1, EndFacts DEF Interrupted, FilesInv, RigTypes, processes
<1>2. ASSUME NEW op \in Ops, Begins(op) PROVE FilesInv'
    <2> DEFINE pc == CASE op = "start" -> "secrets" [] op = "stop" -> "worker.stop" [] OTHER -> "look"
    <2>1. /\ cmd = NoCmd /\ NoCmd \in Cmd /\ NoCmd.pc = "idle"
          /\ cmd' = [NoCmd EXCEPT !.op = op, !.calm = (alive \cap terming = {}), !.pc = pc]
          /\ UNCHANGED <<name, alive, up, pidfile, crashes, interrupts>>
        BY <1>2 DEF Begins, processes, NoCmd, Cmd, Places, Ordinary
    <2>2. pc \in Ordinary  BY DEF Ordinary
    <2> HIDE DEF pc
    <2>3. cmd' \in Cmd /\ cmd'.pc \in Ordinary
        BY <1>2, <2>1, <2>2 DEF NoCmd, Cmd, Places
    <2>4. ~At("write")  BY <2>1 DEF At
    <2> QED BY <2>1, <2>3, <2>4, OrdinaryKeeps DEF FilesInv, RigTypes
<1> QED BY <1>1, <1>2

LEMMA ProcessesKeep ==
    ASSUME FilesInv, NEW p \in Pid,
           ComesUp(p) \/ Exits(p) \/ Crashes(p) \/ KidStarts(p) \/ KidsEnd(p)
    PROVE  FilesInv'
<1>1. CASE ComesUp(p) \/ KidStarts(p) \/ KidsEnd(p)
    <2>1. /\ UNCHANGED <<name, alive, pidfile, cmd, crashes, interrupts>> /\ up' \subseteq alive
        BY <1>1 DEF ComesUp, KidStarts, KidsEnd, budget, FilesInv, RigTypes
    <2> QED BY <2>1 DEF FilesInv, RigTypes, Files, At
<1>2. CASE Exits(p)
    BY <1>2, GoneKeeps DEF Exits, FilesInv, RigTypes, budget
<1>3. CASE Crashes(p)
    <2>1. /\ Gone(p) /\ UNCHANGED <<name, pidfile, interrupts>> /\ crashes' \in Nat
        BY <1>3 DEF Crashes, FilesInv, RigTypes
    <2>2. cmd' \in Cmd /\ cmd'.pc = cmd.pc /\ cmd'.pid = cmd.pid
        BY <1>3 DEF Crashes, FilesInv, RigTypes, Cmd
    <2> QED BY <2>1, <2>2, GoneKeeps
<1> QED BY <1>1, <1>2, <1>3

LEMMA StepFiles == FilesInv /\ [Next]_vars => FilesInv'
<1> SUFFICES ASSUME FilesInv, [Next]_vars PROVE FilesInv'  OBVIOUS
<1>1. CASE UNCHANGED vars
    BY <1>1 DEF vars, processes, budget, FilesInv, RigTypes, Files, At
<1>2. CASE Step
    BY <1>2, WriteKeeps, StartSteps, TerminateKeeps, ReapKeeps, LookSteps, OtherSteps DEF Step
<1>3. CASE Login(TRUE)  BY <1>3, OtherSteps
<1>4. CASE Interrupted \/ \E op \in Ops : Begins(op)  BY <1>4, CommandsKeep
<1>5. CASE \E p \in Pid : ComesUp(p) \/ Exits(p) \/ Crashes(p) \/ KidStarts(p) \/ KidsEnd(p)
    BY <1>5, ProcessesKeep
<1> QED BY <1>1, <1>2, <1>3, <1>4, <1>5 DEF Next

\* The inductive invariant of the rig's processes and PID files.
THEOREM RigInductive == Spec => []FilesInv
<1>1. Init => FilesInv  BY InitFiles
<1>2. FilesInv /\ [Next]_vars => FilesInv'  BY StepFiles
<1> QED BY <1>1, <1>2, PTL DEF Spec

\* While no Ctrl-C ends a command, every process has its PID file or is just
\* getting it, whatever dies.
THEOREM EveryProcessTracked == Spec => []NothingUntracked
<1>1. FilesInv => NothingUntracked  BY DEF FilesInv, Files, NothingUntracked
<1> QED BY <1>1, RigInductive, PTL

-----------------------------------------------------------------------------
(* Where a command goes *)

StartPlaces == {"secrets", "broker", "broker.wait", "probe", "capture", "capture.wait", "api",
                "api.wait", "list", "create", "rules", "worker", "rig is up", "write"}
StopPlaces == {"worker.stop", "api.stop", "capture.stop", "mediamtx.stop", "torn down"}

\* Which command can be where, and where it goes on from a PID file or a
\* process.
Route ==
    /\ cmd.pc \in StartPlaces => cmd.op = "start"
    /\ cmd.op = "stop" => cmd.pc \in StopPlaces \union {"reap"}
    /\ cmd.pc \in StopPlaces \union {"reap"} => cmd.op \in {"start", "stop"}
    /\ cmd.op = "start" => cmd.pc \in StartPlaces \union {"login", "capture.stop", "reap"}
    /\ At("write") => cmd.then \in {"broker.wait", "capture.wait", "api.wait", "rig is up"}
    /\ At("reap") => cmd.then = Following(name[cmd.pid])

\* PID files and the process in hand name what their processes are, whatever
\* Ctrl-C has cut short.
Named ==
    /\ \A n \in Name : pidfile[n] # 0 => name[pidfile[n]] = n
    /\ At("write") => cmd.pid \in Pid /\ name[cmd.pid] \in Name
    /\ At("reap") => /\ cmd.pid \in Pid /\ name[cmd.pid] \in Name
                     /\ pidfile[name[cmd.pid]] = cmd.pid
                     /\ cmd.op = "start" => name[cmd.pid] = "capture"
    /\ \A p \in terming : p \in Pid /\ name[p] # "none"

\* The process p was started as n, by a command that goes on at next when its
\* PID file is written.
Spawned(p, n, next) ==
    /\ name[p] = "none" /\ p \notin alive /\ alive' = alive \union {p}
    /\ name'[p] = n /\ \A q \in Pid \ {p} : name'[q] = name[q]
    /\ keyOf' = [keyOf EXCEPT ![p] = secret]
    /\ UNCHANGED <<up, broken, kids, terming, late>>
    /\ cmd'.pc = "write" /\ cmd'.pid = p /\ cmd'.then = next
    /\ cmd'.op = cmd.op /\ cmd'.calm = cmd.calm

LEMMA PopenFacts ==
    ASSUME RigTypes, NEW n \in Name, NEW next \in Ordinary, Popen(n, next)
    PROVE  \E p \in Pid : Spawned(p, n, next)
<1>1. PICK p \in Pid :
        /\ name[p] = "none" /\ name' = [name EXCEPT ![p] = n] /\ alive' = alive \union {p}
        /\ keyOf' = [keyOf EXCEPT ![p] = secret]
        /\ cmd' = [cmd EXCEPT !.pc = "write", !.pid = p, !.then = next]
        /\ UNCHANGED <<up, broken, kids, terming, late>>
    BY DEF Popen, rig_env
<1>2. /\ cmd'.pc = "write" /\ cmd'.pid = p /\ cmd'.then = next
      /\ cmd'.op = cmd.op /\ cmd'.calm = cmd.calm
    BY <1>1 DEF RigTypes, Cmd
<1>3. p \notin alive /\ name'[p] = n /\ \A q \in Pid \ {p} : name'[q] = name[q]
    BY <1>1 DEF RigTypes
<1> QED BY <1>1, <1>2, <1>3 DEF Spawned

\* Names are given once, and PID files only ever forgotten: but for the steps
\* that have a process in hand.
LEMMA NamesKeep ==
    ASSUME FilesInv, Named, ~At("write"), ~At("write")', ~At("reap")',
           UNCHANGED <<name, terming>>,
           \A n \in Name : pidfile'[n] = pidfile[n] \/ pidfile'[n] = 0
    PROVE  Named'
BY DEF Named

LEMMA StepNamed == FilesInv /\ Named /\ Route /\ [Next]_vars => Named'
<1> SUFFICES ASSUME FilesInv, Named, Route, [Next]_vars PROVE Named'  OBVIOUS
<1>0. RigTypes /\ cmd \in Cmd  BY DEF FilesInv, RigTypes
<1>1. \A pc \in Places : Go(pc) => cmd'.pc = pc /\ cmd'.op = cmd.op
    BY <1>0, GoFacts
<1>2. End => cmd'.pc = "idle"  BY EndFacts
<1>3. Ordinary \subseteq Places  BY DEF Places
<1>4. \A n \in Name : is_running(n) => \A m \in Name : pidfile'[m] = pidfile[m] \/ pidfile'[m] = 0
    BY <1>0 DEF is_running, RigTypes
<1>p. ASSUME NEW n \in Name, NEW next \in Ordinary, ~At("write"), is_running(n), Popen(n, next)
      PROVE  Named'
    <2>1. PICK p \in Pid : Spawned(p, n, next)  BY <1>0, <1>p, PopenFacts
    <2>2. \A m \in Name : pidfile'[m] # 0 => pidfile'[m] = pidfile[m] /\ pidfile[m] \in Pid
        BY <1>0, <1>4, <1>p DEF RigTypes
    <2>3. \A m \in Name : pidfile'[m] # 0 => pidfile'[m] # p /\ name'[pidfile'[m]] = m
        BY <2>1, <2>2 DEF Spawned, Named, Name
    <2> QED BY <2>1, <2>3 DEF Spawned, Named, At
<1>5. CASE StartBroker \/ StartCapture \/ StartApi \/ StartWorker
    <2>1. PICK n \in Name :
            /\ is_running(n) /\ ~At("write")
            /\ \/ \E next \in Ordinary : Popen(n, next)
               \/ UNCHANGED <<name, terming>> /\ ~At("write")' /\ ~At("reap")'
        BY <1>1, <1>2, <1>3, <1>5
            DEF StartBroker, StartCapture, StartApi, StartWorker, Name, Ordinary, At, processes
    <2> QED BY <1>4, <1>p, <2>1, NamesKeep
<1>6. CASE WritePid
    <2>1. /\ At("write") /\ cmd.pid \in Pid /\ name[cmd.pid] \in Name /\ UNCHANGED <<name, terming>>
          /\ pidfile' = [pidfile EXCEPT ![name[cmd.pid]] = cmd.pid]
          /\ cmd'.pc = cmd.then /\ cmd.then \in Ordinary
        BY <1>0, <1>6 DEF WritePid, Named, processes, Cmd
    <2>2. ~At("write")' /\ ~At("reap")'  BY <2>1 DEF At, Ordinary
    <2>3. \A n \in Name : pidfile'[n] = IF n = name[cmd.pid] THEN cmd.pid ELSE pidfile[n]
        BY <1>0, <2>1 DEF RigTypes
    <2> QED BY <2>1, <2>2, <2>3 DEF Named
<1>7. ASSUME NEW n \in Name, Terminate(n) PROVE Named'
    <2>1. /\ UNCHANGED <<name, pidfile>> /\ Following(n) \in Ordinary /\ ~At("write")
          /\ cmd.op \in {"start", "stop"} /\ (cmd.op = "start" => n = "capture")
        BY <1>7 DEF Terminate, Following, StopNext, Ordinary, Name, Route, StopPlaces, StartPlaces,
                    Stopping, At
    <2>2. CASE pidfile[n] = 0
        BY <1>1, <1>3, <1>7, <2>1, <2>2, NamesKeep DEF Terminate, At, Ordinary
    <2>3. CASE pidfile[n] # 0
        <3>1. /\ cmd'.pc = "reap" /\ cmd'.pid = pidfile[n] /\ cmd'.op = cmd.op
              /\ terming' \subseteq terming \union {pidfile[n]}
            BY <1>0, <1>7, <2>3 DEF Terminate, Cmd
        <3>2. name[pidfile[n]] = n /\ pidfile[n] \in Pid
            BY <1>0, <2>3 DEF Named, RigTypes
        <3> QED BY <2>1, <3>1, <3>2 DEF Named, At, Name
    <2> QED BY <2>2, <2>3
<1>8. CASE Reap
    <2>1. /\ cmd'.pc = cmd.then /\ cmd.then \in Ordinary /\ UNCHANGED <<name, terming>> /\ ~At("write")
          /\ pidfile' = [pidfile EXCEPT ![name[cmd.pid]] = 0]
        BY <1>0, <1>8 DEF Reap, Cmd, At
    <2>2. \A n \in Name : pidfile'[n] = pidfile[n] \/ pidfile'[n] = 0
        BY <1>0, <2>1 DEF RigTypes
    <2>3. ~At("write")' /\ ~At("reap")'  BY <2>1 DEF At, Ordinary
    <2> QED BY <2>1, <2>2, <2>3, NamesKeep
<1>9. CASE Probe \/ Look
    <2>1. \A n \in Name : pidfile'[n] = pidfile[n] \/ pidfile'[n] = 0
        BY <1>4, <1>9 DEF Probe, Look, Name
    <2>2. UNCHANGED <<name, terming>> /\ ~At("write") /\ ~At("write")' /\ ~At("reap")'
        BY <1>1, <1>3, <1>9 DEF Probe, Look, At, Ordinary, processes
    <2> QED BY <2>1, <2>2, NamesKeep
<1>10. CASE \/ EnsureSecrets \/ Waits \/ Login(FALSE) \/ Login(TRUE) \/ ListCameras
            \/ CreateCamera \/ InstallRules \/ Returns \/ CheckCamera
    <2>1. UNCHANGED <<name, terming, pidfile>> /\ ~At("write")
        BY <1>10 DEF EnsureSecrets, Waits, Awaited, Login, ListCameras, CreateCamera, InstallRules,
                     Returns, CheckCamera, At, processes
    <2>2. cmd.pc \in DOMAIN Awaited => After[cmd.pc] \in {"probe", "api", "login"}
        BY DEF Awaited, After
    <2>3. cmd'.pc \in Ordinary
        BY <1>1, <1>2, <1>3, <1>10, <2>2
            DEF EnsureSecrets, Waits, Login, ListCameras, CreateCamera, InstallRules,
                Returns, CheckCamera, Ordinary
    <2> QED BY <2>1, <2>3, NamesKeep DEF At, Ordinary
<1>11. CASE Interrupted \/ \E op \in Ops : Begins(op)
    <2>1. UNCHANGED <<name, terming, pidfile>> /\ cmd'.pc \notin {"write", "reap"}
        BY <1>2, <1>11 DEF Interrupted, Begins, NoCmd, processes
    <2> QED BY <2>1 DEF Named, At
<1>12. ASSUME NEW p \in Pid, ComesUp(p) \/ Exits(p) \/ Crashes(p) \/ KidStarts(p) \/ KidsEnd(p)
       PROVE  Named'
    <2>1. /\ UNCHANGED <<name, terming, pidfile>>
          /\ cmd'.pc = cmd.pc /\ cmd'.pid = cmd.pid /\ cmd'.op = cmd.op
        BY <1>0, <1>12 DEF ComesUp, Exits, Crashes, KidStarts, KidsEnd, Cmd
    <2> QED BY <2>1 DEF Named, At
<1>13. CASE UNCHANGED vars  BY <1>13 DEF vars, processes, Named, At
<1> QED BY <1>5, <1>6, <1>7, <1>8, <1>9, <1>10, <1>11, <1>12, <1>13 DEF Next, Step

LEMMA StepRoute == FilesInv /\ Named /\ Route /\ [Next]_vars => Route'
<1> SUFFICES ASSUME FilesInv, Named, Route, [Next]_vars PROVE Route'  OBVIOUS
<1>0. RigTypes /\ cmd \in Cmd  BY DEF FilesInv, RigTypes
<1>1. \A pc \in Places : Go(pc) => cmd'.pc = pc /\ cmd'.op = cmd.op
    BY <1>0, GoFacts
<1>2. End => cmd'.pc = "idle" /\ cmd'.op = "none"  BY EndFacts
<1>3. {"broker", "probe", "api", "login", "list", "camera", "worker", "create", "rules",
       "rig is up", "checked", "capture", "capture.stop"} \subseteq Places
    BY DEF Places, Ordinary
<1> USE DEF At, StartPlaces, StopPlaces
<1>p. ASSUME NEW n \in Name, NEW next \in {"broker.wait", "capture.wait", "api.wait", "rig is up"},
             Popen(n, next), cmd.op = "start"
      PROVE  Route'
    <2>1. next \in Ordinary  BY DEF Ordinary
    <2>2. PICK p \in Pid : Spawned(p, n, next)  BY <1>0, <1>p, <2>1, PopenFacts
    <2> QED BY <1>p, <2>2 DEF Spawned, Route
<1>4. CASE EnsureSecrets  BY <1>1, <1>3, <1>4 DEF EnsureSecrets, Route
<1>5. CASE StartBroker
    BY <1>1, <1>3, <1>p, <1>5 DEF StartBroker, Route, Name
<1>6. CASE StartCapture
    BY <1>1, <1>3, <1>p, <1>6 DEF StartCapture, Route, Name
<1>7. CASE StartApi
    BY <1>1, <1>2, <1>3, <1>p, <1>7 DEF StartApi, Route, Name
<1>8. CASE StartWorker
    BY <1>1, <1>3, <1>p, <1>8 DEF StartWorker, Route, Name
<1>9. CASE Waits
    <2>1. \/ cmd.pc = "broker.wait" /\ After[cmd.pc] = "probe"
          \/ cmd.pc = "capture.wait" /\ After[cmd.pc] = "api"
          \/ cmd.pc = "api.wait" /\ After[cmd.pc] = "login"
        BY <1>9 DEF Waits, Awaited, After
    <2>2. Go(After[cmd.pc]) \/ End  BY <1>9 DEF Waits
    <2> QED BY <1>1, <1>2, <1>3, <2>1, <2>2 DEF Route
<1>10. CASE Login(FALSE) \/ Login(TRUE)  BY <1>1, <1>2, <1>3, <1>10 DEF Login, Route
<1>11. CASE ListCameras \/ CreateCamera \/ InstallRules
    BY <1>1, <1>2, <1>3, <1>11 DEF ListCameras, CreateCamera, InstallRules, Route
<1>12. CASE Returns \/ CheckCamera \/ Look
    BY <1>1, <1>2, <1>3, <1>12 DEF Returns, CheckCamera, Look, Route
<1>13. CASE Probe  BY <1>1, <1>3, <1>13 DEF Probe, Route
<1>14. CASE WritePid
    <2>1. cmd'.pc = cmd.then /\ cmd'.op = cmd.op  BY <1>0, <1>14 DEF WritePid, Cmd
    <2> QED BY <1>14, <2>1 DEF WritePid, Route
<1>15. ASSUME NEW n \in Name, Terminate(n) PROVE Route'
    <2>1. /\ cmd.op \in {"start", "stop"} /\ (cmd.op = "start" => n = "capture")
          /\ cmd.op = "start" => Following(n) = "capture"
          /\ cmd.op = "stop" => Following(n) \in StopPlaces
          /\ Following(n) \in Places
        BY <1>15 DEF Terminate, Stopping, Following, StopNext, Name, Route, Places, Ordinary
    <2>2. CASE Go(Following(n))  BY <1>1, <2>1, <2>2 DEF Route
    <2>3. CASE /\ pidfile[n] # 0
               /\ cmd' = [cmd EXCEPT !.pc = "reap", !.pid = pidfile[n], !.then = Following(n)]
        <3>1. cmd'.pc = "reap" /\ cmd'.op = cmd.op /\ cmd'.then = Following(n) /\ cmd'.pid = pidfile[n]
            BY <1>0, <2>3 DEF Cmd
        <3>2. name'[cmd'.pid] = n  BY <1>15, <2>3, <3>1 DEF Terminate, Named
        <3>3. Following(n)' = Following(n)  BY <3>1 DEF Following
        <3>4. (cmd.then = Following(name[cmd.pid]))'  BY <3>1, <3>2, <3>3 DEF Following
        <3> QED BY <2>1, <3>1, <3>4 DEF Route
    <2> QED BY <1>15, <2>2, <2>3 DEF Terminate
<1>16. CASE Reap
    <2>1. cmd'.pc = cmd.then /\ cmd'.op = cmd.op  BY <1>0, <1>16 DEF Reap, Cmd
    <2>2. /\ cmd.op \in {"start", "stop"} /\ name[cmd.pid] \in Name
          /\ cmd.then = Following(name[cmd.pid])
        BY <1>16 DEF Reap, Named, Route
    <2>3. /\ cmd.op = "start" => cmd.then = "capture"
          /\ cmd.op = "stop" => cmd.then \in {"api.stop", "capture.stop", "mediamtx.stop", "torn down"}
        BY <2>2 DEF Following, StopNext, Name
    <2> QED BY <2>1, <2>2, <2>3 DEF Route
<1>17. CASE Interrupted  BY <1>2, <1>17 DEF Interrupted, Route
<1>18. ASSUME NEW op \in Ops, Begins(op) PROVE Route'
    <2>1. /\ cmd'.op = op
          /\ op = "start" => cmd'.pc = "secrets"
          /\ op = "stop" => cmd'.pc = "worker.stop"
          /\ op \notin {"start", "stop"} => cmd'.pc = "look"
        BY <1>18 DEF Begins, NoCmd
    <2> QED BY <2>1 DEF Route
<1>19. ASSUME NEW p \in Pid, ComesUp(p) \/ Exits(p) \/ Crashes(p) \/ KidStarts(p) \/ KidsEnd(p)
       PROVE  Route'
    <2>1. /\ UNCHANGED name /\ cmd'.pc = cmd.pc /\ cmd'.pid = cmd.pid /\ cmd'.op = cmd.op
          /\ cmd'.then = cmd.then
        BY <1>0, <1>19 DEF ComesUp, Exits, Crashes, KidStarts, KidsEnd, Cmd
    <2> QED BY <2>1 DEF Route, Following
<1>20. CASE UNCHANGED vars  BY <1>20 DEF vars, processes, Route, Following
<1> QED BY <1>4, <1>5, <1>6, <1>7, <1>8, <1>9, <1>10, <1>11, <1>12, <1>13, <1>14, <1>15, <1>16,
           <1>17, <1>18, <1>19, <1>20 DEF Next, Step

-----------------------------------------------------------------------------
(* Stopping *)

\* The places of a stop where the processes of a name have been dealt with.
Past == [n \in Name |->
            CASE n = "worker"  -> {"api.stop", "capture.stop", "mediamtx.stop", "torn down"}
              [] n = "api"     -> {"capture.stop", "mediamtx.stop", "torn down"}
              [] n = "capture" -> {"mediamtx.stop", "torn down"}
              [] OTHER         -> {"torn down"}]
Place == IF At("reap") THEN cmd.then ELSE cmd.pc

StoppedSoFar ==
    cmd.op = "stop" =>
        \A p \in alive : Place \in Past[name[p]] => At("reap") /\ cmd.pid = p

\* Who has been sent SIGTERM is about to be reaped; a child that nobody will
\* end with its parent was started after that.
Children ==
    /\ kids \subseteq Pid
    /\ \A p \in alive \intersect terming : At("reap") /\ cmd.pid = p
    /\ At("reap") /\ cmd.pid \in alive => cmd.pid \in terming
    /\ \A p \in kids \ late :
          /\ p \in alive \ terming
          /\ name[p] = "worker" \/ (name[p] = "api" /\ p \in up)

Orderly == StoppedSoFar /\ Children

Undisturbed == crashes = 0 /\ interrupts = 0

StopInv == FilesInv /\ Named /\ Route /\ (Undisturbed => Orderly)

LEMMA InitStop == Init => StopInv
<1> SUFFICES ASSUME Init PROVE StopInv  OBVIOUS
<1>1. FilesInv  BY InitFiles
<1>2. cmd.pc = "idle" /\ cmd.op = "none"  BY DEF Init, NoCmd
<1>3. Named /\ Route  BY <1>2 DEF Init, Named, Route, At, StartPlaces, StopPlaces
<1>4. Orderly  BY <1>2 DEF Init, Orderly, StoppedSoFar, Children, At
<1> QED BY <1>1, <1>3, <1>4 DEF StopInv

\* A step of any command but a stop leaves what is said of processes.
LEMMA ForwardKeeps ==
    ASSUME FilesInv, Named, Orderly, ~At("reap"), cmd'.op # "stop", ~At("reap")',
           UNCHANGED <<up, terming, late>>,
           alive \subseteq alive', \A p \in alive' \ alive : p \in Pid /\ name[p] = "none",
           \A p \in Pid : name[p] # "none" => name'[p] = name[p],
           kids' \subseteq kids \union {p \in up : name[p] = "api"}
    PROVE  Orderly'
<1>1. StoppedSoFar'  BY DEF StoppedSoFar
<1>2. Children'
    <2>1. alive \intersect terming = {}  BY DEF Orderly, Children
    <2>2. alive' \intersect terming = {}  BY <2>1 DEF Named
    <2>3. \A p \in alive : p \in Pid /\ name[p] # "none"  BY DEF FilesInv, RigTypes
    <2>4. up \subseteq alive  BY DEF FilesInv, RigTypes
    <2>5. ASSUME NEW p \in kids' \ late'
          PROVE  /\ p \in alive' \ terming'
                 /\ name'[p] = "worker" \/ (name'[p] = "api" /\ p \in up')
        BY <2>1, <2>3, <2>4, <2>5 DEF Orderly, Children
    <2>6. kids' \subseteq Pid  BY <2>3, <2>4 DEF Orderly, Children
    <2> QED BY <2>2, <2>5, <2>6 DEF Children
<1> QED BY <1>1, <1>2 DEF Orderly

\* Steps that neither start nor signal a process.
LEMMA QuietSteps ==
    ASSUME FilesInv, Named, Route, Orderly,
           \/ EnsureSecrets \/ Waits \/ Login(FALSE) \/ Login(TRUE) \/ ListCameras
           \/ CreateCamera \/ InstallRules \/ Returns \/ CheckCamera \/ Probe \/ Look
    PROVE  Orderly'
<1>0. cmd \in Cmd  BY DEF FilesInv, RigTypes
<1>1. \A pc \in Places : Go(pc) => cmd'.pc = pc /\ cmd'.op = cmd.op
    BY <1>0, GoFacts
<1>2. End => cmd'.pc = "idle" /\ cmd'.op = "none"  BY EndFacts
<1>3. {"broker", "probe", "api", "login", "list", "camera", "worker", "create", "rules",
       "checked", "capture", "capture.stop"} \subseteq Places
    BY DEF Places, Ordinary
<1>4. cmd.pc \in DOMAIN Awaited => After[cmd.pc] \in {"probe", "api", "login"}
    BY DEF Awaited, After
<1>5. (Returns \/ cmd.op # "stop") /\ ~At("reap")
    <2>1. DOMAIN Awaited = {"broker.wait", "capture.wait", "api.wait"}  BY DEF Awaited
    <2> QED BY <2>1 DEF EnsureSecrets, Waits, Login, ListCameras, CreateCamera, InstallRules, Returns,
                    CheckCamera, Probe, Look, Route, At, StartPlaces, StopPlaces
<1>6. cmd'.op # "stop" /\ ~At("reap")'
    BY <1>1, <1>2, <1>3, <1>4, <1>5
        DEF EnsureSecrets, Waits, Login, ListCameras, CreateCamera, InstallRules, Returns,
            CheckCamera, Probe, Look, At
<1>7. /\ UNCHANGED <<name, alive, up, terming, late>>
      /\ kids' \subseteq kids \union {p \in up : name[p] = "api"}
    BY DEF EnsureSecrets, Waits, Login, ListCameras, CreateCamera, InstallRules, Returns,
           CheckCamera, Probe, Look, processes
<1>8. alive' \ alive = {}  BY <1>7
<1> QED BY <1>5, <1>6, <1>7, <1>8, ForwardKeeps

LEMMA SpawnSteps ==
    ASSUME FilesInv, Named, Route, Orderly,
           StartBroker \/ StartCapture \/ StartApi \/ StartWorker \/ WritePid
    PROVE  Orderly'
<1>0. RigTypes /\ cmd \in Cmd  BY DEF FilesInv, RigTypes
<1>1. \A pc \in Places : Go(pc) => cmd'.pc = pc /\ cmd'.op = cmd.op
    BY <1>0, GoFacts
<1>2. End => cmd'.pc = "idle" /\ cmd'.op = "none"  BY EndFacts
<1>3. {"probe", "api", "login", "rig is up"} \subseteq Places
    BY DEF Places, Ordinary
<1>4. cmd.op # "stop" /\ ~At("reap")
    BY DEF StartBroker, StartCapture, StartApi, StartWorker, WritePid, Route, At, StartPlaces
<1>5. CASE \E n \in Name, next \in Ordinary : Popen(n, next)
    <2>1. PICK n \in Name, next \in Ordinary : Popen(n, next)  BY <1>5
    <2>2. PICK p \in Pid : Spawned(p, n, next)  BY <1>0, <2>1, PopenFacts
    <2> QED BY <1>4, <2>2, ForwardKeeps DEF Spawned, At
<1>6. CASE UNCHANGED processes /\ cmd'.pc # "reap" /\ cmd'.op # "stop"
    <2>1. alive' \ alive = {}  BY <1>6 DEF processes
    <2> QED BY <1>4, <1>6, <2>1, ForwardKeeps DEF At, processes
<1>7. CASE StartBroker \/ StartCapture \/ StartApi \/ StartWorker
    BY <1>1, <1>2, <1>3, <1>4, <1>5, <1>6, <1>7
        DEF StartBroker, StartCapture, StartApi, StartWorker, Name, Ordinary
<1>8. CASE WritePid
    <2>1. cmd'.pc = cmd.then /\ cmd.then \in Ordinary /\ cmd'.op = cmd.op /\ UNCHANGED processes
        BY <1>0, <1>8 DEF WritePid, Cmd
    <2> QED BY <1>4, <1>6, <2>1 DEF Ordinary
<1> QED BY <1>7, <1>8

\* No process of the name is left when its file is gone, and SIGTERM reaches it
\* when it is there.
LEMMA TerminateStops ==
    ASSUME FilesInv, Files, Route, Orderly, NEW n \in Name, Terminate(n) PROVE Orderly'
<1>1. cmd \in Cmd /\ ~At("write") /\ ~At("reap") /\ cmd.op \in {"start", "stop"}
    BY DEF FilesInv, RigTypes, Terminate, Stopping, At, Route, StopPlaces
<1>2. /\ UNCHANGED <<name, alive, up, late>>
      /\ \/ Go(Following(n)) /\ UNCHANGED <<kids, terming>> /\ pidfile[n] = 0
         \/ /\ pidfile[n] # 0
            /\ cmd' = [cmd EXCEPT !.pc = "reap", !.pid = pidfile[n], !.then = Following(n)]
            /\ IF pidfile[n] \in alive
               THEN terming' = terming \union {pidfile[n]} /\ kids' = kids \ {pidfile[n]}
               ELSE UNCHANGED <<kids, terming>>
    BY DEF Terminate
<1>3. \A p \in alive : name[p] \in Name /\ pidfile[name[p]] = p /\ p # 0
    BY <1>1, Pids DEF Files, FilesInv, RigTypes
<1>4. /\ cmd.op = "start" => n = "capture" /\ Following(n) = "capture"
      /\ cmd.op = "stop" => Following(n) \in {"api.stop", "capture.stop", "mediamtx.stop", "torn down"}
      /\ cmd.op = "stop" => \A m \in Name : Following(n) \in Past[m] => m = n \/ cmd.pc \in Past[m]
    BY DEF Terminate, Stopping, At, Following, StopNext, Past, Name, Route, StopPlaces, StartPlaces
<1>5. Following(n) \in Places  BY DEF Following, StopNext, Places, Ordinary, Name
<1>6. alive \intersect terming = {}  BY <1>1 DEF Orderly, Children
<1>7. \A p \in alive : cmd.op = "stop" => cmd.pc \notin Past[name[p]]
    BY <1>1 DEF Orderly, StoppedSoFar, Place
<1>8. CASE Go(Following(n)) /\ UNCHANGED <<kids, terming>> /\ pidfile[n] = 0
    <2>1. cmd'.pc = Following(n) /\ cmd'.op = cmd.op  BY <1>1, <1>5, <1>8, GoFacts
    <2>2. ~At("reap")' /\ Place' = Following(n)
        BY <1>1, <1>4, <2>1 DEF At, Place
    <2>3. StoppedSoFar'
        <3>1. Past' = Past  BY DEF Past
        <3>2. \A p \in alive : name[p] # n  BY <1>3, <1>8
        <3> QED BY <1>2, <1>3, <1>4, <1>7, <2>1, <2>2, <3>1, <3>2 DEF StoppedSoFar
    <2>4. Children'  BY <1>1, <1>2, <1>6, <1>8, <2>2 DEF Orderly, Children
    <2> QED BY <2>3, <2>4 DEF Orderly
<1>9. CASE /\ pidfile[n] # 0
           /\ cmd' = [cmd EXCEPT !.pc = "reap", !.pid = pidfile[n], !.then = Following(n)]
           /\ IF pidfile[n] \in alive
              THEN terming' = terming \union {pidfile[n]} /\ kids' = kids \ {pidfile[n]}
              ELSE UNCHANGED <<kids, terming>>
    <2>1. pidfile[n] \in Pid /\ name[pidfile[n]] = n
        BY <1>9 DEF Files, FilesInv, RigTypes
    <2>2. cmd'.pc = "reap" /\ cmd'.op = cmd.op /\ cmd'.then = Following(n) /\ cmd'.pid = pidfile[n]
        BY <1>1, <1>9 DEF Cmd
    <2>3. At("reap")' /\ Place' = Following(n)  BY <2>2 DEF At, Place
    <2>4. StoppedSoFar'
        <3>1. Past' = Past  BY DEF Past
        <3>2. \A p \in alive : name[p] = n => p = cmd'.pid  BY <1>3, <2>2
        <3> QED BY <1>2, <1>3, <1>4, <1>7, <2>2, <2>3, <3>1, <3>2 DEF StoppedSoFar
    <2>5. Children'
        <3>1. n # "none"  BY DEF Name
        <3> QED BY <1>1, <1>2, <1>6, <1>9, <2>1, <2>2, <2>3, <3>1 DEF Orderly, Children
    <2> QED BY <2>4, <2>5 DEF Orderly
<1> QED BY <1>2, <1>8, <1>9

LEMMA ReapStops == ASSUME FilesInv, Files, Route, Orderly, Reap PROVE Orderly'
<1>1. /\ At("reap") /\ cmd \in Cmd /\ cmd.pid \in Pid /\ name[cmd.pid] \in Name
      /\ cmd.op \in {"start", "stop"} /\ cmd.then = Following(name[cmd.pid])
    BY DEF FilesInv, RigTypes, Reap, At, Route, Files
<1>2. cmd'.pc = cmd.then /\ cmd'.op = cmd.op  BY <1>1 DEF Reap, Cmd
<1>3. /\ UNCHANGED <<name, kids, terming, late>> /\ alive' = alive \ {cmd.pid}
      /\ up' \subseteq up
      /\ \A p \in up \ up' : p = cmd.pid \/ name[p] = "capture"
    BY DEF Reap, Kill, Gone, FilesInv, RigTypes
<1>4. /\ cmd.op = "start" => cmd.then = "capture"
      /\ cmd.op = "stop" => cmd.then \in {"api.stop", "capture.stop", "mediamtx.stop", "torn down"}
    BY <1>1 DEF Following, StopNext, Name
<1>5. ~At("reap")' /\ Place' = Place  BY <1>1, <1>2, <1>4 DEF At, Place
<1>6. StoppedSoFar'  BY <1>2, <1>3, <1>5 DEF Orderly, StoppedSoFar, Past
<1>7. Children'
    <2>1. alive' \intersect terming' = {}  BY <1>3 DEF Orderly, Children
    <2>2. \A p \in kids' \ late' :
            /\ p \in alive' \ terming'
            /\ name'[p] = "worker" \/ (name'[p] = "api" /\ p \in up')
        BY <1>1, <1>3 DEF Orderly, Children
    <2> QED BY <1>3, <1>5, <2>1, <2>2 DEF Orderly, Children
<1> QED BY <1>6, <1>7 DEF Orderly

LEMMA BeginStops == ASSUME FilesInv, Orderly, NEW op \in Ops, Begins(op) PROVE Orderly'
<1> DEFINE pc == CASE op = "start" -> "secrets" [] op = "stop" -> "worker.stop" [] OTHER -> "look"
<1>1. /\ cmd = NoCmd /\ cmd.pc = "idle"
      /\ cmd'.op = op /\ cmd'.pc = pc
      /\ UNCHANGED <<name, alive, up, kids, terming, late>>
    BY DEF Begins, processes, NoCmd
<1>2. /\ op = "start" => pc = "secrets"
      /\ op = "stop" => pc = "worker.stop"
      /\ op \notin {"start", "stop"} => pc = "look"
    OBVIOUS
<1> HIDE DEF pc
<1>3. ~At("reap") /\ ~At("reap")'  BY <1>1, <1>2 DEF At, Ops
<1>4. op = "stop" => Place' = "worker.stop"  BY <1>1, <1>2, <1>3 DEF Place
<1>5. \A n \in Name : "worker.stop" \notin Past[n]  BY DEF Past, Name
<1>6. \A p \in alive : name[p] \in Name  BY DEF FilesInv, RigTypes
<1>7. StoppedSoFar'  BY <1>1, <1>4, <1>5, <1>6 DEF StoppedSoFar, Past
<1>8. Children'  BY <1>1, <1>3 DEF Orderly, Children
<1> QED BY <1>7, <1>8 DEF Orderly

LEMMA ProcessesStop ==
    ASSUME FilesInv, Orderly, NEW p \in Pid, ComesUp(p) \/ Exits(p) \/ KidStarts(p) \/ KidsEnd(p)
    PROVE  Orderly'
<1>1. UNCHANGED <<name, cmd, terming>> /\ alive' \subseteq alive
    BY DEF ComesUp, Exits, Gone, KidStarts, KidsEnd
<1>2. StoppedSoFar'  BY <1>1 DEF Orderly, StoppedSoFar, Place, At, Past
<1>3. Children'
    <2> USE DEF Orderly, Children, At
    <2>1. CASE ComesUp(p)  BY <1>1, <2>1 DEF ComesUp
    <2>2. CASE Exits(p)
        <3>1. p \notin kids \ late  BY <2>2 DEF Exits
        <3>2. /\ UNCHANGED <<kids, late>> /\ alive' = alive \ {p}
              /\ \A q \in up \ up' : q = p \/ name[q] = "capture"
            BY <2>2 DEF Exits, Gone
        <3> QED BY <1>1, <3>1, <3>2
    <2>3. CASE KidStarts(p)  BY <1>1, <2>3 DEF KidStarts, FilesInv, RigTypes
    <2>4. CASE KidsEnd(p)  BY <1>1, <2>4 DEF KidsEnd
    <2> QED BY <2>1, <2>2, <2>3, <2>4
<1> QED BY <1>2, <1>3 DEF Orderly

\* Crashes and Ctrl-Cs are only ever counted up.
LEMMA NoFewer ==
    ASSUME crashes \in Nat, interrupts \in Nat, [Next]_vars
    PROVE  crashes' >= crashes /\ interrupts' >= interrupts
<1>1. CASE UNCHANGED vars  BY <1>1 DEF vars, budget
<1>2. CASE Step \/ Login(TRUE)
    <2>1. UNCHANGED budget
        BY <1>2 DEF Step, WritePid, EnsureSecrets, StartBroker, Probe, StartCapture, StartApi,
                    Waits, Login, ListCameras, CreateCamera, InstallRules, StartWorker,
                    Terminate, Reap, Returns, Look, CheckCamera
    <2> QED BY <2>1 DEF budget
<1>3. CASE Interrupted  BY <1>3 DEF Interrupted
<1>4. CASE \E op \in Ops : Begins(op)  BY <1>4 DEF Begins
<1>5. ASSUME NEW p \in Pid, ComesUp(p) \/ Exits(p) \/ Crashes(p) \/ KidStarts(p) \/ KidsEnd(p)
      PROVE  crashes' >= crashes /\ interrupts' >= interrupts
    BY <1>5 DEF ComesUp, Exits, Crashes, KidStarts, KidsEnd, budget
<1> QED BY <1>1, <1>2, <1>3, <1>4, <1>5 DEF Next

LEMMA StepStop == StopInv /\ [Next]_vars => StopInv'
<1> SUFFICES ASSUME StopInv, [Next]_vars PROVE StopInv'  OBVIOUS
<1>1. FilesInv' /\ Named' /\ Route'  BY StepFiles, StepNamed, StepRoute DEF StopInv
<1>2. ASSUME Undisturbed' PROVE Orderly'
    <2>1. Undisturbed  BY <1>2, NoFewer DEF StopInv, FilesInv, RigTypes, Undisturbed
    <2>2. FilesInv /\ Named /\ Files /\ Route /\ Orderly  BY <2>1 DEF StopInv, FilesInv, Undisturbed
    <2>3. CASE UNCHANGED vars
        BY <2>2, <2>3 DEF vars, processes, budget, Orderly, StoppedSoFar, Children, At, Place, Past
    <2>4. CASE Step
        BY <2>2, <2>4, QuietSteps, SpawnSteps, TerminateStops, ReapStops DEF Step
    <2>5. CASE Login(TRUE)  BY <2>2, <2>5, QuietSteps
    <2>6. CASE Interrupted
        BY <1>2, <2>1, <2>6 DEF Interrupted, Undisturbed
    <2>7. CASE \E op \in Ops : Begins(op)  BY <2>2, <2>7, BeginStops
    <2>8. ASSUME NEW p \in Pid, ComesUp(p) \/ Exits(p) \/ KidStarts(p) \/ KidsEnd(p) PROVE Orderly'
        BY <2>2, <2>8, ProcessesStop
    <2>9. ASSUME NEW p \in Pid, Crashes(p) PROVE Orderly'
        BY <1>2, <2>1, <2>9 DEF Crashes, Undisturbed
    <2> QED BY <2>3, <2>4, <2>5, <2>6, <2>7, <2>8, <2>9 DEF Next
<1> QED BY <1>1, <1>2 DEF StopInv

\* Undisturbed, a stop ends every process, and every child but those a worker
\* started after its SIGTERM.
THEOREM StopIsThorough == Spec => []StopLeavesNothing
<1>1. StopInv => StopLeavesNothing
    <2> SUFFICES ASSUME StopInv, At("torn down"), Undisturbed PROVE alive = {} /\ kids \subseteq late
        BY DEF StopLeavesNothing, Undisturbed
    <2>1. ~At("reap") /\ Place = "torn down" /\ cmd.op = "stop"
        BY DEF At, Place, StopInv, Route, StopPlaces, StartPlaces
    <2>2. \A n \in Name : "torn down" \in Past[n]  BY DEF Past
    <2>3. \A p \in alive : name[p] \in Name  BY DEF StopInv, FilesInv, RigTypes
    <2>4. alive = {}  BY <2>1, <2>2, <2>3 DEF StopInv, Orderly, StoppedSoFar
    <2> QED BY <2>4 DEF StopInv, Orderly, Children
<1>2. Init => StopInv  BY InitStop
<1>3. StopInv /\ [Next]_vars => StopInv'  BY StepStop
<1> QED BY <1>1, <1>2, <1>3, PTL DEF Spec

-----------------------------------------------------------------------------
(* Starting *)

\* One process of a name serves at a time, and a published stream is carried.
Serving ==
    /\ \A p, q \in up : name[p] = name[q] => p = q
    /\ Ready("capture") => Ready("mediamtx")

\* The place of a start, or the one it goes on to with the PID file written.
Towards == IF At("write") THEN cmd.then ELSE cmd.pc

\* There is one key and at most one camera.
Registered ==
    /\ secret \in {0, 1} /\ keyOf \in [Pid -> {0, 1}]
    /\ cmd.op = "start" /\ ~At("secrets") => secret = 1
    /\ \A p \in Pid : name[p] # "none" => keyOf[p] = 1
    /\ cameras \in {0, 1} /\ (cameras = 1 => sealed = 1)
    /\ At("create") => cameras = 0
    /\ Towards \in {"rules", "worker", "rig is up"} => cameras = 1

\* Where a start has seen the stream published, and the API serving.
Published == {"api", "api.wait", "login", "list", "create", "rules", "worker", "rig is up"}
LoggedIn  == {"list", "create", "rules", "worker", "rig is up"}

\* What a start that nobody disturbed has seen is still so.
Seen ==
    /\ \A p \in alive \intersect terming : At("reap") /\ cmd.pid = p
    /\ At("capture") /\ Tracked("capture") => Ready("capture")
    /\ Towards \in Published => Ready("capture")
    /\ Towards \in LoggedIn => Ready("api")
    /\ At("write") /\ cmd.then = "rig is up" => cmd.pid \in alive /\ name[cmd.pid] = "worker"
    /\ At("rig is up") => Tracked("worker")
SeenStays == cmd.op = "start" /\ cmd.calm => Seen

\* Without crashes and Ctrl-Cs no start leaves a camera without its rules.
RulesFollow ==
    Undisturbed =>
        /\ cmd.op = "start" => cmd.calm
        /\ cameras = 1 => ruled \/ At("rules")

StartInv == Serving /\ Registered /\ SeenStays /\ RulesFollow

\* Names of running processes do not change.
LEMMA NamesStay ==
    ASSUME FilesInv, [Next]_vars
    PROVE  \A p \in Pid : name[p] # "none" => name'[p] = name[p]
<1>0. RigTypes  BY DEF FilesInv
<1>1. ASSUME NEW n \in Name, NEW next \in Ordinary, Popen(n, next)
      PROVE  \A p \in Pid : name[p] # "none" => name'[p] = name[p]
    <2>1. PICK q \in Pid : Spawned(q, n, next)  BY <1>0, <1>1, PopenFacts
    <2> QED BY <2>1 DEF Spawned
<1>2. \/ UNCHANGED name
      \/ \E n \in Name, next \in Ordinary : Popen(n, next)
    BY DEF Next, Step, vars, processes, WritePid, EnsureSecrets, StartBroker, Probe, StartCapture,
           StartApi, Waits, Login, ListCameras, CreateCamera, InstallRules, StartWorker, Terminate,
           Reap, Returns, Look, CheckCamera, Interrupted, Begins, ComesUp, Exits, Crashes,
           KidStarts, KidsEnd, Name, Ordinary
<1> QED BY <1>1, <1>2

\* Who serves: a process comes up, or one is gone with the streams it carried.
LEMMA ServingMoves ==
    ASSUME FilesInv, Named, [Next]_vars
    PROVE  \/ UNCHANGED up
           \/ \E p \in Pid : ComesUp(p)
           \/ (\E p \in Pid : Gone(p)) /\ UNCHANGED name
<1>1. CASE Step \/ Login(TRUE)
    <2>1. CASE Reap
        BY <1>1, <2>1 DEF Reap, Kill, Named
    <2>2. CASE ~Reap
        BY <1>1, <2>2
            DEF Step, processes, Popen, WritePid, EnsureSecrets, StartBroker, Probe, StartCapture,
                StartApi, Waits, Login, ListCameras, CreateCamera, InstallRules, StartWorker,
                Terminate, Returns, Look, CheckCamera
    <2> QED BY <2>1, <2>2
<1>2. CASE Interrupted \/ \E op \in Ops : Begins(op)
    BY <1>2 DEF Interrupted, Begins, processes
<1>3. CASE \E p \in Pid : ComesUp(p) \/ Exits(p) \/ Crashes(p) \/ KidStarts(p) \/ KidsEnd(p)
    BY <1>3 DEF Exits, Crashes, KidStarts, KidsEnd
<1>4. CASE UNCHANGED vars  BY <1>4 DEF vars, processes
<1> QED BY <1>1, <1>2, <1>3, <1>4 DEF Next

LEMMA StepServing == FilesInv /\ Named /\ Serving /\ [Next]_vars => Serving'
<1> SUFFICES ASSUME FilesInv, Named, Serving, [Next]_vars PROVE Serving'  OBVIOUS
<1>1. \A p \in up : p \in Pid /\ name[p] # "none" /\ name'[p] = name[p]
    BY NamesStay DEF FilesInv, RigTypes
<1>2. CASE UNCHANGED up  BY <1>1, <1>2 DEF Serving, Ready
<1>3. ASSUME NEW p \in Pid, ComesUp(p) PROVE Serving'
    BY <1>1, <1>3 DEF ComesUp, Rivals, Serving, Ready
<1>4. ASSUME NEW p \in Pid, Gone(p), UNCHANGED name PROVE Serving'
    <2>1. up' \subseteq up  BY <1>4 DEF Gone
    <2>2. Ready("capture")' => Ready("capture")  BY <1>4, <2>1 DEF Ready
    <2>3. CASE name[p] = "mediamtx" /\ p \in up
        <3>1. ~Ready("capture")'  BY <1>4, <2>3 DEF Gone, Ready
        <3> QED BY <1>4, <2>1, <3>1 DEF Serving
    <2>4. CASE ~(name[p] = "mediamtx" /\ p \in up)
        <3>1. Ready("mediamtx") => Ready("mediamtx")'  BY <1>4, <2>4 DEF Gone, Ready
        <3> QED BY <1>4, <2>1, <2>2, <3>1 DEF Serving
    <2> QED BY <2>3, <2>4
<1> QED BY <1>2, <1>3, <1>4, ServingMoves

\* A step that touches neither keys nor cameras.
LEMMA RegisteredKeeps ==
    ASSUME Registered, UNCHANGED <<name, keyOf, secret, cameras, sealed>>,
           cmd'.op = "start" => At("secrets")' \/ (cmd.op = "start" /\ ~At("secrets")),
           At("create")' => cameras = 0,
           Towards' \in {"rules", "worker", "rig is up"} => cameras = 1
    PROVE  Registered'
BY DEF Registered

LEMMA StepRegistered == FilesInv /\ Named /\ Route /\ Registered /\ [Next]_vars => Registered'
<1> SUFFICES ASSUME FilesInv, Named, Route, Registered, [Next]_vars PROVE Registered'  OBVIOUS
<1>0. RigTypes /\ cmd \in Cmd  BY DEF FilesInv, RigTypes
<1>1. \A pc \in Places : Go(pc) => cmd'.pc = pc /\ cmd'.op = cmd.op
    BY <1>0, GoFacts
<1>2. End => cmd'.pc = "idle" /\ cmd'.op = "none"  BY EndFacts
<1>3. {"broker", "probe", "api", "login", "list", "camera", "worker", "create", "rules",
       "rig is up", "checked", "capture", "capture.stop"} \subseteq Places
    BY DEF Places, Ordinary
<1>4. At("worker") \/ At("rules") \/ At("rig is up") => cameras = 1
    BY DEF Registered, Towards, At
<1>5. cmd.pc \in StartPlaces /\ ~At("secrets") => cmd.op = "start" /\ secret = 1
    BY DEF Route, Registered
<1>p. ASSUME NEW n \in Name, NEW next \in Ordinary, Popen(n, next), UNCHANGED site,
             cmd.pc \in StartPlaces, ~At("secrets"),
             next \in {"rules", "worker", "rig is up"} => cameras = 1
      PROVE  Registered'
    <2>1. PICK p \in Pid : Spawned(p, n, next)  BY <1>0, <1>p, PopenFacts
    <2>2. secret = 1 /\ UNCHANGED <<secret, cameras, sealed>>  BY <1>5, <1>p DEF site
    <2>3. keyOf' \in [Pid -> {0, 1}] /\ \A q \in Pid : name'[q] # "none" => keyOf'[q] = 1
        BY <2>1, <2>2 DEF Spawned, Registered
    <2>4. Towards' = next /\ ~At("create")'  BY <2>1 DEF Spawned, Towards, At
    <2> QED BY <1>p, <2>2, <2>3, <2>4 DEF Registered
<1>6. CASE EnsureSecrets
    <2>1. /\ cmd'.pc = "broker" /\ UNCHANGED <<name, keyOf, cameras, sealed>>
          /\ secret' = IF secret = 0 THEN 1 ELSE secret
        BY <1>1, <1>3, <1>6 DEF EnsureSecrets, processes
    <2> QED BY <2>1 DEF Registered, At, Towards
<1>7. CASE StartBroker
    <2>1. CASE Popen("mediamtx", "broker.wait")
        BY <1>p, <1>7, <2>1 DEF StartBroker, Name, Ordinary, At, StartPlaces
    <2>2. CASE Go("probe") /\ UNCHANGED processes
        BY <1>1, <1>3, <1>7, <2>2, RegisteredKeeps
            DEF StartBroker, processes, site, At, Towards
    <2> QED BY <1>7, <2>1, <2>2 DEF StartBroker
<1>8. CASE StartCapture
    <2>1. CASE Popen("capture", "capture.wait")
        BY <1>p, <1>8, <2>1 DEF StartCapture, Name, Ordinary, At, StartPlaces
    <2>2. CASE Go("api") /\ UNCHANGED processes
        BY <1>1, <1>3, <1>8, <2>2, RegisteredKeeps
            DEF StartCapture, processes, site, At, Towards
    <2> QED BY <1>8, <2>1, <2>2 DEF StartCapture
<1>9. CASE StartApi
    <2>1. CASE Popen("api", "api.wait")
        BY <1>p, <1>9, <2>1 DEF StartApi, Name, Ordinary, At, StartPlaces
    <2>2. CASE (Go("login") \/ End) /\ UNCHANGED processes
        BY <1>1, <1>2, <1>3, <1>9, <2>2, RegisteredKeeps
            DEF StartApi, processes, site, At, Towards
    <2> QED BY <1>9, <2>1, <2>2 DEF StartApi
<1>10. CASE StartWorker
    <2>1. CASE Popen("worker", "rig is up")
        BY <1>4, <1>p, <1>10, <2>1 DEF StartWorker, Name, Ordinary, At, StartPlaces
    <2>2. CASE Go("rig is up") /\ UNCHANGED processes
        BY <1>1, <1>3, <1>4, <1>10, <2>2, RegisteredKeeps
            DEF StartWorker, processes, site, At, Towards
    <2> QED BY <1>10, <2>1, <2>2 DEF StartWorker
<1>11. CASE WritePid
    <2>1. /\ cmd'.pc = cmd.then /\ cmd'.op = cmd.op /\ At("write")
          /\ cmd.then \in {"broker.wait", "capture.wait", "api.wait", "rig is up"}
          /\ UNCHANGED <<name, keyOf, secret, cameras, sealed>>
        BY <1>0, <1>11 DEF WritePid, Cmd, Route, processes, site
    <2>2. Towards = cmd.then /\ Towards' = cmd.then /\ ~At("create")' /\ ~At("secrets")
        BY <2>1 DEF Towards, At
    <2>3. cmd.then \in {"rules", "worker", "rig is up"} => cameras = 1
        BY <2>2 DEF Registered
    <2> QED BY <2>1, <2>2, <2>3, RegisteredKeeps
<1>12. CASE Waits
    <2>1. \/ cmd.pc = "broker.wait" /\ After[cmd.pc] = "probe"
          \/ cmd.pc = "capture.wait" /\ After[cmd.pc] = "api"
          \/ cmd.pc = "api.wait" /\ After[cmd.pc] = "login"
        BY <1>12 DEF Waits, Awaited, After
    <2>2. (Go(After[cmd.pc]) \/ End) /\ UNCHANGED <<name, keyOf, secret, cameras, sealed>>
        BY <1>12 DEF Waits, processes, site
    <2> QED BY <1>1, <1>2, <1>3, <2>1, <2>2, RegisteredKeeps DEF At, Towards
<1>13. CASE Login(FALSE) \/ Login(TRUE) \/ Returns \/ CheckCamera \/ Look \/ Probe
    <2>1. ~At("secrets") /\ UNCHANGED <<name, keyOf, secret, cameras, sealed>>
        BY <1>13 DEF Login, Returns, CheckCamera, Look, Probe, processes, site, At
    <2>2. /\ cmd'.pc \in {"idle", "list", "camera", "checked", "login", "capture", "capture.stop"}
          /\ cmd'.op = "start" => cmd.op = "start"
        BY <1>1, <1>2, <1>3, <1>13 DEF Login, Returns, CheckCamera, Look, Probe
    <2> QED BY <2>1, <2>2, RegisteredKeeps DEF At, Towards
<1>14. CASE ListCameras
    <2>1. ~At("secrets") /\ UNCHANGED <<name, keyOf, secret, cameras, sealed>>
        BY <1>14 DEF ListCameras, processes, site, At
    <2>2. /\ cmd'.op = "start" => cmd.op = "start"
          /\ cmd'.pc \in {"idle", "worker", "create"}
          /\ cmd'.pc = "worker" => cameras > 0
          /\ cmd'.pc = "create" => ~(cameras > 0)
        BY <1>1, <1>2, <1>3, <1>14 DEF ListCameras
    <2>3. cameras \in {0, 1}  BY DEF Registered
    <2>4. (cmd'.pc = "worker" => cameras = 1) /\ (cmd'.pc = "create" => cameras = 0)
        BY <2>2, <2>3
    <2> QED BY <2>1, <2>2, <2>4, RegisteredKeeps DEF At, Towards
<1>15. CASE CreateCamera
    <2>1. /\ UNCHANGED <<name, keyOf, secret>> /\ cameras = 0 /\ secret = 1
          /\ cmd.op = "start" /\ ~At("secrets")
        BY <1>5, <1>15 DEF CreateCamera, processes, Registered, At, StartPlaces
    <2>2. CASE End /\ UNCHANGED <<cameras, sealed>>
        BY <1>2, <2>1, <2>2, RegisteredKeeps DEF At, Towards
    <2>3. CASE \E p \in up : /\ name[p] = "api" /\ sealed' = keyOf[p]
                             /\ cameras' = cameras + 1 /\ Go("rules")
        <3>1. PICK p \in up : name[p] = "api" /\ sealed' = keyOf[p] /\ cameras' = cameras + 1 /\ Go("rules")
            BY <2>3
        <3>2. keyOf[p] = 1  BY <1>0, <3>1 DEF Registered, RigTypes
        <3>3. cameras' = 1  BY <2>1, <3>1
        <3>4. cmd'.pc = "rules" /\ sealed' = 1  BY <1>1, <1>3, <3>1, <3>2
        <3> QED BY <2>1, <3>3, <3>4 DEF Registered, At, Towards
    <2> QED BY <1>15, <2>2, <2>3 DEF CreateCamera
<1>16. CASE InstallRules
    <2>1. ~At("secrets") /\ UNCHANGED <<name, keyOf, secret, cameras, sealed>> /\ cameras = 1
        BY <1>4, <1>16 DEF InstallRules, processes, At
    <2>2. (cmd'.op = "start" => cmd.op = "start") /\ cmd'.pc \in {"idle", "worker"}
        BY <1>1, <1>2, <1>3, <1>16 DEF InstallRules
    <2> QED BY <2>1, <2>2, RegisteredKeeps DEF At
<1>17. ASSUME NEW n \in Name, Terminate(n) PROVE Registered'
    <2>1. ~At("secrets") /\ UNCHANGED <<name, keyOf, secret, cameras, sealed>>
        BY <1>17 DEF Terminate, Stopping, site, At
    <2>2. Following(n) \in Places \ {"write", "create", "rules", "worker", "rig is up"}
        BY DEF Following, StopNext, Places, Ordinary, Name
    <2>3. cmd'.op = cmd.op /\ cmd'.pc \in {Following(n), "reap"}
        BY <1>0, <1>1, <1>17, <2>2 DEF Terminate, Cmd
    <2> QED BY <2>1, <2>2, <2>3, RegisteredKeeps DEF At, Towards
<1>18. CASE Reap
    <2>1. ~At("secrets") /\ UNCHANGED <<name, keyOf, secret, cameras, sealed>>
        BY <1>18 DEF Reap, site, At
    <2>2. cmd'.op = cmd.op /\ cmd'.pc = Following(name[cmd.pid]) /\ name[cmd.pid] \in Name
        BY <1>0, <1>18 DEF Reap, Cmd, Route, Named
    <2>3. cmd'.pc \in {"capture", "api.stop", "capture.stop", "mediamtx.stop", "torn down"}
        BY <2>2 DEF Following, StopNext, Name
    <2> QED BY <2>1, <2>2, <2>3, RegisteredKeeps DEF At, Towards
<1>19. CASE Interrupted
    BY <1>2, <1>19, RegisteredKeeps DEF Interrupted, processes, site, At, Towards
<1>20. ASSUME NEW op \in Ops, Begins(op) PROVE Registered'
    <2>1. /\ cmd'.op = op
          /\ op = "start" => cmd'.pc = "secrets"
          /\ cmd'.pc \in {"secrets", "worker.stop", "look"}
          /\ UNCHANGED <<name, keyOf, secret, cameras, sealed>>
        BY <1>20 DEF Begins, NoCmd, processes, site
    <2> QED BY <2>1, RegisteredKeeps DEF At, Towards
<1>21. ASSUME NEW p \in Pid, ComesUp(p) \/ Exits(p) \/ Crashes(p) \/ KidStarts(p) \/ KidsEnd(p)
       PROVE  Registered'
    <2>1. /\ UNCHANGED <<name, keyOf, secret, cameras, sealed>>
          /\ cmd'.pc = cmd.pc /\ cmd'.op = cmd.op /\ cmd'.then = cmd.then
        BY <1>0, <1>21 DEF ComesUp, Exits, Crashes, KidStarts, KidsEnd, Cmd, site
    <2> QED BY <2>1 DEF Registered, At, Towards
<1>22. CASE UNCHANGED vars  BY <1>22 DEF vars, processes, site, Registered, At, Towards
<1> QED BY <1>6, <1>7, <1>8, <1>9, <1>10, <1>11, <1>12, <1>13, <1>14, <1>15, <1>16, <1>17, <1>18,
           <1>19, <1>20, <1>21, <1>22 DEF Next, Step

\* A step of a start that only moves on, with some PID files of dead processes
\* gone.
LEMMA SeenMoves ==
    ASSUME Seen, ~At("reap"), UNCHANGED <<name, alive, up, terming>>,
           NEW pc \in Ordinary, cmd'.pc = pc,
           \A n \in Name : Tracked(n)' = Tracked(n),
           pc = "capture" /\ Tracked("capture") => Ready("capture"),
           pc \in Published => Ready("capture"),
           pc \in LoggedIn => Ready("api"),
           pc = "rig is up" => Tracked("worker")
    PROVE  Seen'
<1>1. Ready("capture")' = Ready("capture") /\ Ready("api")' = Ready("api")
    BY DEF Ready
<1>2. Towards' = pc /\ ~At("write")'  BY DEF Towards, At, Ordinary
<1>3. Tracked("capture")' = Tracked("capture") /\ Tracked("worker")' = Tracked("worker")
    BY DEF Name
<1> QED BY <1>1, <1>2, <1>3 DEF Seen, At

\* A start starts a process.
LEMMA SeenSpawns ==
    ASSUME FilesInv, Named, Seen, ~At("reap"), NEW n \in Name, NEW next \in Ordinary, Popen(n, next),
           next \in Published => Ready("capture"),
           next \in LoggedIn => Ready("api"),
           next = "rig is up" => n = "worker"
    PROVE  Seen'
<1>1. PICK p \in Pid : Spawned(p, n, next)  BY PopenFacts DEF FilesInv
<1>2. \A q \in up : q \in Pid /\ q # p  BY <1>1 DEF Spawned, FilesInv, RigTypes
<1>3. (Ready("capture") => Ready("capture")') /\ (Ready("api") => Ready("api")')
    BY <1>1, <1>2 DEF Spawned, Ready
<1>4. p \notin terming  BY <1>1 DEF Spawned, Named
<1>5. Towards' = next /\ ~At("capture")' /\ ~At("rig is up")'  BY <1>1 DEF Spawned, Towards, At
<1> QED BY <1>1, <1>3, <1>4, <1>5 DEF Spawned, Seen, At

\* The processes of a start that nobody disturbs.
LEMMA SeenProcesses ==
    ASSUME FilesInv, Named, Route, Seen, cmd.op = "start", UNCHANGED cmd, NEW p \in Pid,
           ComesUp(p) \/ Exits(p) \/ KidStarts(p) \/ KidsEnd(p)
    PROVE  Seen'
<1>1. CASE ComesUp(p) \/ KidStarts(p) \/ KidsEnd(p)
    <2>1. UNCHANGED <<name, alive, terming, pidfile>> /\ up \subseteq up'
        BY <1>1 DEF ComesUp, KidStarts, KidsEnd
    <2>2. (Ready("capture") => Ready("capture")') /\ (Ready("api") => Ready("api")')
        BY <2>1 DEF Ready
    <2>3. Tracked("capture")' = Tracked("capture") /\ Tracked("worker")' = Tracked("worker")
        BY <2>1 DEF Tracked
    <2> QED BY <2>1, <2>2, <2>3 DEF Seen, At, Towards
<1>2. CASE Exits(p) /\ p \in terming
    <2>1. At("reap") /\ alive' \subseteq alive /\ UNCHANGED terming
        BY <1>2 DEF Exits, Gone, Seen
    <2>2. Towards' = "reap"  BY <2>1 DEF Towards, At
    <2> QED BY <2>1, <2>2 DEF Seen, At, Published, LoggedIn
<1>3. CASE Exits(p) /\ p \notin up
    <2>1. UNCHANGED <<name, up, terming, pidfile>> /\ alive' = alive \ {p} /\ name[p] # "worker"
        BY <1>3 DEF Exits, Gone
    <2>2. Ready("capture")' = Ready("capture") /\ Ready("api")' = Ready("api")
        BY <2>1 DEF Ready
    <2>3. Tracked("capture")' => Tracked("capture")  BY <2>1 DEF Tracked
    <2>4. Tracked("worker") => Tracked("worker")'  BY <2>1 DEF Tracked, Named, Name
    <2> QED BY <2>1, <2>2, <2>3, <2>4 DEF Seen, At, Towards
<1> QED BY <1>1, <1>2, <1>3 DEF Exits

LEMMA StepSeen == FilesInv /\ Named /\ Route /\ SeenStays /\ [Next]_vars => SeenStays'
<1> SUFFICES ASSUME FilesInv, Named, Route, SeenStays, [Next]_vars, cmd'.op = "start", cmd'.calm
             PROVE  Seen'
    BY DEF SeenStays
<1>0. RigTypes /\ cmd \in Cmd  BY DEF FilesInv, RigTypes
<1>1. \A pc \in Places : Go(pc) => cmd'.pc = pc /\ cmd'.op = cmd.op /\ cmd'.calm = cmd.calm
    BY <1>0, GoFacts
<1>2. ~End  BY DEF End, NoCmd
<1>3. {"broker", "probe", "api", "login", "list", "worker", "create", "rules",
       "rig is up", "capture", "capture.stop"} \subseteq Places \intersect Ordinary
    BY DEF Places, Ordinary
<1>4. \A n \in Name : is_running(n) /\ UNCHANGED alive => \A m \in Name : Tracked(m)' = Tracked(m)
    BY <1>0, Pids DEF is_running, Tracked, RigTypes
<1>5. UNCHANGED <<alive, pidfile>> => \A n \in Name : Tracked(n)' = Tracked(n)
    BY DEF Tracked
<1>6. cmd.pc \in Published /\ cmd.op = "start" /\ Seen => Ready("capture")
    BY DEF Seen, Towards, At, Published
<1>7. cmd.pc \in LoggedIn /\ cmd.op = "start" /\ Seen => Ready("api")
    BY DEF Seen, Towards, At, LoggedIn
<1>8. cmd.op = "start" /\ cmd.calm => Seen  BY DEF SeenStays
<1>p. ASSUME NEW n \in Name, NEW next \in Ordinary, Popen(n, next)
      PROVE  cmd.op = "start" /\ cmd.calm
    <2>1. PICK p \in Pid : Spawned(p, n, next)  BY <1>0, <1>p, PopenFacts
    <2> QED BY <2>1 DEF Spawned
<1>9. CASE EnsureSecrets
    <2>1. cmd'.pc = "broker" /\ Seen /\ ~At("reap") /\ UNCHANGED <<name, alive, up, terming, pidfile>>
        BY <1>1, <1>3, <1>8, <1>9 DEF EnsureSecrets, At, processes
    <2> QED BY <1>3, <1>5, <2>1, SeenMoves DEF Published, LoggedIn
<1>10. CASE StartBroker
    <2>0. ~At("reap") /\ is_running("mediamtx")  BY <1>10 DEF StartBroker, At
    <2>1. CASE Popen("mediamtx", "broker.wait")
        BY <1>8, <1>p, <2>0, <2>1, SeenSpawns DEF Name, Ordinary, Published, LoggedIn
    <2>2. CASE Go("probe") /\ UNCHANGED processes
        <3>1. cmd'.pc = "probe" /\ Seen /\ UNCHANGED <<name, alive, up, terming>>
            BY <1>1, <1>3, <1>8, <2>2 DEF processes
        <3>2. \A n \in Name : Tracked(n)' = Tracked(n)  BY <1>4, <2>0, <3>1 DEF Name
        <3> QED BY <1>3, <2>0, <3>1, <3>2, SeenMoves DEF Published, LoggedIn
    <2> QED BY <1>10, <2>1, <2>2 DEF StartBroker
<1>11. CASE Probe
    <2>1. /\ cmd'.pc = IF Tracked("capture") /\ ~Ready("capture") THEN "capture.stop" ELSE "capture"
          /\ Seen /\ ~At("reap") /\ UNCHANGED <<name, alive, up, terming>>
        BY <1>1, <1>3, <1>8, <1>11 DEF Probe, At, processes
    <2>2. \A n \in Name : Tracked(n)' = Tracked(n)  BY <1>4, <1>11, <2>1 DEF Probe, Name
    <2> QED BY <1>3, <2>1, <2>2, SeenMoves DEF Published, LoggedIn
<1>12. CASE StartCapture
    <2>0. ~At("reap") /\ At("capture") /\ is_running("capture")  BY <1>12 DEF StartCapture, At
    <2>1. CASE Popen("capture", "capture.wait")
        BY <1>8, <1>p, <2>0, <2>1, SeenSpawns DEF Name, Ordinary, Published, LoggedIn
    <2>2. CASE Tracked("capture") /\ Go("api") /\ UNCHANGED processes
        <3>1. cmd'.pc = "api" /\ Seen /\ UNCHANGED <<name, alive, up, terming>>
            BY <1>1, <1>3, <1>8, <2>2 DEF processes
        <3>2. \A n \in Name : Tracked(n)' = Tracked(n)  BY <1>4, <2>0, <3>1 DEF Name
        <3>3. Ready("capture")  BY <2>0, <2>2, <3>1 DEF Seen
        <3> QED BY <1>3, <2>0, <3>1, <3>2, <3>3, SeenMoves DEF LoggedIn
    <2> QED BY <1>12, <2>1, <2>2 DEF StartCapture
<1>13. CASE StartApi
    <2>0. ~At("reap") /\ cmd.pc \in Published /\ is_running("api")
        BY <1>13 DEF StartApi, At, Published
    <2>1. CASE Popen("api", "api.wait")
        BY <1>6, <1>8, <1>p, <2>0, <2>1, SeenSpawns DEF Name, Ordinary, LoggedIn
    <2>2. CASE Go("login") /\ UNCHANGED processes
        <3>1. /\ cmd'.pc = "login" /\ cmd.op = "start" /\ Seen
              /\ UNCHANGED <<name, alive, up, terming>>
            BY <1>1, <1>3, <1>8, <2>2 DEF processes
        <3>2. \A n \in Name : Tracked(n)' = Tracked(n)  BY <1>4, <2>0, <3>1 DEF Name
        <3> QED BY <1>3, <1>6, <2>0, <3>1, <3>2, SeenMoves DEF LoggedIn
    <2> QED BY <1>2, <1>13, <2>1, <2>2 DEF StartApi
<1>14. CASE StartWorker
    <2>0. ~At("reap") /\ cmd.pc \in Published \intersect LoggedIn /\ is_running("worker")
        BY <1>14 DEF StartWorker, At, Published, LoggedIn
    <2>1. CASE Popen("worker", "rig is up")
        BY <1>6, <1>7, <1>8, <1>p, <2>0, <2>1, SeenSpawns DEF Name, Ordinary
    <2>2. CASE Tracked("worker") /\ Go("rig is up") /\ UNCHANGED processes
        <3>1. /\ cmd'.pc = "rig is up" /\ cmd.op = "start" /\ Seen
              /\ UNCHANGED <<name, alive, up, terming>>
            BY <1>1, <1>3, <1>8, <2>2 DEF processes
        <3>2. \A n \in Name : Tracked(n)' = Tracked(n)  BY <1>4, <2>0, <3>1 DEF Name
        <3> QED BY <1>3, <1>6, <1>7, <2>0, <2>2, <3>1, <3>2, SeenMoves
    <2> QED BY <1>14, <2>1, <2>2 DEF StartWorker
<1>15. CASE Waits
    <2>1. \/ cmd.pc = "broker.wait" /\ Go("probe")
          \/ cmd.pc = "capture.wait" /\ Ready("capture") /\ Go("api")
          \/ cmd.pc = "api.wait" /\ Go("login")
        BY <1>2, <1>15 DEF Waits, Awaited, After
    <2>2. ~At("reap") /\ UNCHANGED <<name, alive, up, terming, pidfile>>
        BY <1>15, <2>1 DEF Waits, At, processes
    <2>3. /\ Seen /\ cmd'.pc \in {"probe", "api", "login"}
          /\ cmd'.pc \in {"api", "login"} => Ready("capture")
        BY <1>1, <1>3, <1>6, <1>8, <2>1 DEF Published
    <2> QED BY <1>3, <1>5, <2>2, <2>3, SeenMoves DEF Published, LoggedIn
<1>16. CASE Login(FALSE) \/ Login(TRUE)
    <2>1. /\ cmd'.pc = "list" /\ cmd.op = "start" /\ Seen /\ Ready("api") /\ Ready("capture")
          /\ ~At("reap") /\ UNCHANGED <<name, alive, up, terming, pidfile>>
        BY <1>1, <1>2, <1>3, <1>6, <1>8, <1>16 DEF Login, At, processes, Places, Ordinary, Published
    <2> QED BY <1>3, <1>5, <2>1, SeenMoves
<1>17. CASE ListCameras \/ CreateCamera \/ InstallRules
    <2>1. cmd.pc \in Published \intersect LoggedIn /\ ~At("reap")
        BY <1>17 DEF ListCameras, CreateCamera, InstallRules, At, Published, LoggedIn
    <2>2. cmd'.pc \in {"worker", "create", "rules"} /\ cmd.op = "start" /\ Seen
        BY <1>1, <1>2, <1>3, <1>8, <1>17 DEF ListCameras, CreateCamera, InstallRules
    <2>3. UNCHANGED <<name, alive, up, terming, pidfile>>
        BY <1>17 DEF ListCameras, CreateCamera, InstallRules, processes
    <2> QED BY <1>3, <1>5, <1>6, <1>7, <2>1, <2>2, <2>3, SeenMoves
<1>18. CASE Returns \/ CheckCamera \/ Look
    BY <1>1, <1>2, <1>18 DEF Returns, CheckCamera, Look, At, Route, StartPlaces, Places, Ordinary
<1>19. CASE WritePid
    <2>1. /\ At("write") /\ cmd'.pc = cmd.then /\ cmd.op = "start" /\ cmd.calm
          /\ cmd.then \in {"broker.wait", "capture.wait", "api.wait", "rig is up"}
          /\ UNCHANGED <<name, alive, up, terming>>
          /\ pidfile' = [pidfile EXCEPT ![name[cmd.pid]] = cmd.pid]
        BY <1>0, <1>19 DEF WritePid, Cmd, Route, processes
    <2>2. Towards = cmd.then /\ Towards' = cmd.then  BY <2>1 DEF Towards, At
    <2>3. Ready("capture")' = Ready("capture") /\ Ready("api")' = Ready("api")
        BY <2>1 DEF Ready
    <2>4. cmd.then = "rig is up" => Tracked("worker")'
        BY <1>0, <1>8, <2>1, Pids DEF Seen, Tracked, RigTypes, Name
    <2> QED BY <1>8, <2>1, <2>2, <2>3, <2>4 DEF Seen, At
<1>20. ASSUME NEW n \in Name, Terminate(n) PROVE Seen'
    <2>1. CASE Go(Following(n)) /\ pidfile[n] = 0 /\ UNCHANGED terming
        <3>0. Following(n) \in Places
            BY DEF Following, StopNext, Places, Ordinary, Name
        <3>1. cmd'.pc = Following(n) /\ cmd.op = "start" /\ Seen
            BY <1>1, <1>8, <2>1, <3>0
        <3>2. cmd'.pc = "capture" /\ n = "capture" /\ ~At("reap")
            BY <1>20, <3>1 DEF Following, Name, Terminate, Stopping, At, Route, StartPlaces
        <3>3. UNCHANGED <<name, alive, up, pidfile>> /\ ~Tracked("capture")
            BY <1>20, <2>1, <3>2 DEF Terminate, Tracked
        <3> QED BY <1>3, <1>5, <2>1, <3>1, <3>2, <3>3, SeenMoves DEF Published, LoggedIn
    <2>2. CASE /\ pidfile[n] # 0
               /\ cmd' = [cmd EXCEPT !.pc = "reap", !.pid = pidfile[n], !.then = Following(n)]
        <3>1. /\ cmd'.pc = "reap" /\ cmd'.pid = pidfile[n] /\ cmd.op = "start" /\ cmd.calm
              /\ ~At("reap")
            BY <1>0, <1>20, <2>2 DEF Cmd, Terminate, Stopping, At
        <3>2. alive' = alive /\ terming' \subseteq terming \union {pidfile[n]}
            BY <1>20 DEF Terminate
        <3>3. Towards' = "reap"  BY <3>1 DEF Towards, At
        <3> QED BY <1>8, <3>1, <3>2, <3>3 DEF Seen, At, Published, LoggedIn
    <2> QED BY <1>20, <2>1, <2>2 DEF Terminate
<1>21. CASE Reap
    <2>1. /\ At("reap") /\ cmd'.pc = cmd.then /\ cmd.op = "start" /\ cmd.calm
          /\ name[cmd.pid] = "capture" /\ cmd.then = "capture"
          /\ pidfile' = [pidfile EXCEPT ![name[cmd.pid]] = 0] /\ UNCHANGED terming
        BY <1>0, <1>21 DEF Reap, Cmd, Route, Named, Following
    <2>2. alive' = alive \ {cmd.pid}  BY <1>21 DEF Reap, Kill, Gone
    <2>3. ~Tracked("capture")'  BY <1>0, <2>1 DEF Tracked, RigTypes, Name
    <2>4. Towards' = "capture"  BY <2>1 DEF Towards, At
    <2> QED BY <1>8, <2>1, <2>2, <2>3, <2>4 DEF Seen, At, Published, LoggedIn
<1>22. CASE Interrupted  BY <1>2, <1>22 DEF Interrupted
<1>23. ASSUME NEW op \in Ops, Begins(op) PROVE Seen'
    <2>1. /\ cmd'.pc = "secrets" /\ alive \intersect terming = {} /\ UNCHANGED <<alive, terming>>
        BY <1>23 DEF Begins, NoCmd, processes
    <2>2. Towards' = "secrets"  BY <2>1 DEF Towards, At
    <2> QED BY <2>1, <2>2 DEF Seen, At, Published, LoggedIn
<1>24. ASSUME NEW p \in Pid, ComesUp(p) \/ Exits(p) \/ KidStarts(p) \/ KidsEnd(p) PROVE Seen'
    <2>1. UNCHANGED cmd  BY <1>24 DEF ComesUp, Exits, KidStarts, KidsEnd
    <2> QED BY <1>8, <1>24, <2>1, SeenProcesses
<1>25. ASSUME NEW p \in Pid, Crashes(p) PROVE Seen'
    BY <1>0, <1>25 DEF Crashes, NoCmd, Cmd
<1>26. CASE UNCHANGED vars
    BY <1>8, <1>26 DEF vars, processes, Seen, At, Towards, Ready, Tracked
<1> QED BY <1>9, <1>10, <1>11, <1>12, <1>13, <1>14, <1>15, <1>16, <1>17, <1>18, <1>19, <1>20, <1>21,
           <1>22, <1>23, <1>24, <1>25, <1>26 DEF Next, Step

\* A step that keeps what is known of the rules.
LEMMA RulesKeep ==
    ASSUME RulesFollow, Undisturbed, ~At("rules"), UNCHANGED <<cameras, ruled>>,
           cmd'.op = "start" => cmd'.calm
    PROVE  RulesFollow'
BY DEF RulesFollow

LEMMA StepRules ==
    StopInv /\ Registered /\ SeenStays /\ RulesFollow /\ [Next]_vars => RulesFollow'
<1> SUFFICES ASSUME StopInv, Registered, SeenStays, RulesFollow, [Next]_vars, Undisturbed'
             PROVE  RulesFollow'
    BY DEF RulesFollow
<1>0. FilesInv /\ RigTypes /\ cmd \in Cmd /\ Route  BY DEF StopInv, FilesInv, RigTypes
<1>1. Undisturbed /\ Orderly
    BY <1>0, NoFewer DEF StopInv, RigTypes, Undisturbed
<1>2. \A pc \in Places : Go(pc) => cmd'.pc = pc /\ cmd'.op = cmd.op /\ cmd'.calm = cmd.calm
    BY <1>0, GoFacts
<1>3. End => cmd'.op = "none"  BY EndFacts
<1>4. cmd.op = "start" => cmd.calm  BY <1>1 DEF RulesFollow
<1>5. ASSUME NEW n \in Name, NEW next \in Ordinary, Popen(n, next)
      PROVE  cmd'.op = cmd.op /\ cmd'.calm = cmd.calm
    <2>1. PICK p \in Pid : Spawned(p, n, next)  BY <1>0, <1>5, PopenFacts
    <2> QED BY <2>1 DEF Spawned
<1>6. CASE CreateCamera
    <2>1. "rules" \in Places  BY DEF Places, Ordinary
    <2>2. \/ End /\ UNCHANGED <<cameras, ruled>> /\ ~At("rules")
          \/ Go("rules")
        BY <1>6 DEF CreateCamera, At
    <2>3. CASE End /\ UNCHANGED <<cameras, ruled>> /\ ~At("rules")
        BY <1>1, <1>3, <2>3, RulesKeep
    <2>4. CASE Go("rules")
        BY <1>2, <1>4, <2>1, <2>4 DEF RulesFollow, At
    <2> QED BY <2>2, <2>3, <2>4
<1>7. CASE InstallRules
    <2>1. cmd.op = "start" /\ cmd.calm /\ At("rules")
        BY <1>0, <1>4, <1>7 DEF InstallRules, Route, At, StartPlaces
    <2>2. Ready("api")  BY <2>1 DEF SeenStays, Seen, Towards, At, LoggedIn
    <2>3. "worker" \in Places  BY DEF Places, Ordinary
    <2>4. ruled' = TRUE /\ cmd'.calm
        BY <1>2, <1>7, <2>1, <2>2, <2>3 DEF InstallRules
    <2> QED BY <2>4 DEF RulesFollow
<1>8. CASE \/ EnsureSecrets \/ StartBroker \/ StartCapture \/ StartApi \/ StartWorker \/ Probe
           \/ Login(FALSE) \/ Login(TRUE) \/ ListCameras \/ Returns \/ Look \/ CheckCamera
    <2>1. ~At("rules") /\ UNCHANGED <<cameras, ruled>>
        BY <1>8 DEF EnsureSecrets, StartBroker, StartCapture, StartApi, StartWorker, Probe, Login,
                    ListCameras, Returns, Look, CheckCamera, At, site
    <2>2. {"broker", "probe", "capture", "capture.stop", "api", "login", "rig is up", "list", "camera",
           "worker", "create", "checked"} \subseteq Places
        BY DEF Places, Ordinary
    <2>3. {"broker.wait", "capture.wait", "api.wait", "rig is up"} \subseteq Ordinary
          /\ Name = {"mediamtx", "capture", "api", "worker"}
        BY DEF Ordinary, Name
    <2>4. \/ cmd'.op = "none"
          \/ cmd'.op = cmd.op /\ cmd'.calm = cmd.calm
        BY <1>2, <1>3, <1>5, <1>8, <2>2, <2>3
            DEF EnsureSecrets, StartBroker, StartCapture, StartApi, StartWorker, Probe, Login,
                ListCameras, Returns, Look, CheckCamera
    <2> QED BY <1>1, <1>4, <2>1, <2>4, RulesKeep
<1>9. CASE Waits
    <2>1. /\ ~At("rules") /\ UNCHANGED <<cameras, ruled>>
          /\ Go("probe") \/ Go("api") \/ Go("login") \/ End
        BY <1>9 DEF Waits, Awaited, After, At, site
    <2>2. {"probe", "api", "login"} \subseteq Places  BY DEF Places, Ordinary
    <2>3. cmd'.op = "start" => cmd'.calm  BY <1>2, <1>3, <1>4, <2>1, <2>2
    <2> QED BY <1>1, <2>1, <2>3, RulesKeep
<1>10. CASE WritePid \/ Reap \/ \E n \in Name : Terminate(n)
    <2>1. ~At("rules") /\ UNCHANGED <<cameras, ruled>>
        BY <1>10 DEF WritePid, Reap, Terminate, Stopping, At, site
    <2>2. \A n \in Name : Following(n) \in Places
        BY DEF Following, StopNext, Places, Ordinary, Name
    <2>3. cmd'.op = cmd.op /\ cmd'.calm = cmd.calm
        BY <1>0, <1>2, <1>10, <2>2 DEF WritePid, Reap, Terminate, Cmd
    <2> QED BY <1>1, <1>4, <2>1, <2>3, RulesKeep
<1>11. CASE Interrupted
    BY <1>0, <1>1, <1>11 DEF Interrupted, Undisturbed
<1>12. ASSUME NEW op \in Ops, Begins(op) PROVE RulesFollow'
    <2>1. /\ cmd.pc = "idle" /\ UNCHANGED <<cameras, ruled>>
          /\ cmd'.calm = (alive \intersect terming = {})
        BY <1>12 DEF Begins, NoCmd, site
    <2>2. alive \intersect terming = {}  BY <1>1, <2>1 DEF Orderly, Children, At
    <2> QED BY <1>1, <2>1, <2>2, RulesKeep DEF At
<1>13. ASSUME NEW p \in Pid, ComesUp(p) \/ Exits(p) \/ KidStarts(p) \/ KidsEnd(p)
       PROVE  RulesFollow'
    BY <1>1, <1>13 DEF ComesUp, Exits, KidStarts, KidsEnd, site, RulesFollow, At
<1>14. ASSUME NEW p \in Pid, Crashes(p) PROVE RulesFollow'
    BY <1>0, <1>1, <1>14 DEF Crashes, Undisturbed
<1>15. CASE UNCHANGED vars
    BY <1>1, <1>15 DEF vars, site, RulesFollow, At
<1> QED BY <1>6, <1>7, <1>8, <1>9, <1>10, <1>11, <1>12, <1>13, <1>14, <1>15 DEF Next, Step

LEMMA InitStart == Init => StartInv
<1> SUFFICES ASSUME Init PROVE StartInv  OBVIOUS
<1>1. cmd.pc = "idle" /\ cmd.op = "none"  BY DEF Init, NoCmd
<1>2. Serving /\ RulesFollow /\ SeenStays
    BY <1>1 DEF Init, Serving, Ready, RulesFollow, SeenStays
<1>3. keyOf \in [Pid -> {0, 1}] /\ Towards = "idle"
    BY <1>1 DEF Init, Towards, At
<1>4. Registered  BY <1>1, <1>3 DEF Init, Registered, At
<1> QED BY <1>2, <1>4 DEF StartInv

LEMMA StepStarts == StopInv /\ StartInv /\ [Next]_vars => (StopInv /\ StartInv)'
<1> SUFFICES ASSUME StopInv, StartInv, [Next]_vars PROVE (StopInv /\ StartInv)'
    OBVIOUS
<1>1. StopInv'  BY StepStop
<1>2. Serving'  BY StepServing DEF StopInv, StartInv
<1>3. Registered'  BY StepRegistered DEF StopInv, StartInv
<1>4. SeenStays'  BY StepSeen DEF StopInv, StartInv
<1>5. RulesFollow'  BY StepRules DEF StartInv
<1> QED BY <1>1, <1>2, <1>3, <1>4, <1>5 DEF StartInv

LEMMA NoSum == \A i, j \in Nat : i + j = 0 => i = 0 /\ j = 0
OBVIOUS

\* A calm start that says the rig is up is right.
THEOREM UpIsUp == Spec => []UpMeansUp
<1>1. StopInv /\ StartInv => UpMeansUp
    <2> SUFFICES ASSUME StopInv, StartInv, At("rig is up"), cmd.calm
                 PROVE  /\ Ready("mediamtx") /\ Ready("capture") /\ Ready("api") /\ Tracked("worker")
                        /\ cameras = 1 /\ keyOf[pidfile["worker"]] = sealed
                        /\ interrupts = 0 => \A n \in Name : Tracked(n)
                        /\ interrupts + crashes = 0 => ruled
        BY DEF UpMeansUp
    <2>0. RigTypes /\ Serving /\ Registered /\ RulesFollow
        BY DEF StopInv, FilesInv, StartInv
    <2>1. cmd.op = "start" /\ Towards = "rig is up" /\ ~At("write")
        BY DEF StopInv, Route, Towards, At, StartPlaces
    <2>2. Seen  BY <2>1 DEF StartInv, SeenStays
    <2>3. Ready("capture") /\ Ready("api") /\ Tracked("worker")
        BY <2>1, <2>2 DEF Seen, Published, LoggedIn
    <2>4. Ready("mediamtx")  BY <2>0, <2>3 DEF Serving
    <2>5. cameras = 1 /\ sealed = 1  BY <2>0, <2>1 DEF Registered
    <2>6. keyOf[pidfile["worker"]] = 1
        BY <2>0, <2>3 DEF Registered, Tracked, RigTypes
    <2>7. ASSUME interrupts = 0 PROVE \A n \in Name : Tracked(n)
        <3>1. \A p \in alive : pidfile[name[p]] = p  BY <2>1, <2>7 DEF StopInv, FilesInv, Files
        <3>2. \A n \in Name : Ready(n) => Tracked(n)
            BY <2>0, <3>1, Pids DEF Ready, Tracked, RigTypes
        <3> QED BY <2>3, <2>4, <3>2 DEF Name
    <2>8. ASSUME interrupts + crashes = 0 PROVE ruled
        <3>1. crashes \in Nat /\ interrupts \in Nat  BY <2>0 DEF RigTypes
        <3>2. crashes = 0 /\ interrupts = 0  BY <2>8, <3>1, NoSum
        <3> QED BY <2>0, <2>5, <3>2 DEF RulesFollow, Undisturbed, At
    <2> QED BY <2>3, <2>4, <2>5, <2>6, <2>7, <2>8
<1>2. Init => StopInv /\ StartInv  BY InitStop, InitStart
<1>3. StopInv /\ StartInv /\ [Next]_vars => (StopInv /\ StartInv)'  BY StepStarts
<1> QED BY <1>1, <1>2, <1>3, PTL DEF Spec

-----------------------------------------------------------------------------
(* Types *)

\* What is left of the type invariant: nothing has a key or a camera before the
\* secrets are made, and no command runs before one has begun.
Remaining ==
    /\ broken \subseteq Pid /\ kids \subseteq Pid /\ late \subseteq terming /\ ruled \in BOOLEAN
    /\ begun \in 0..MaxCmds /\ (~At("idle") => begun # 0)
    /\ sealed \in {0, 1} /\ (secret # 0 => begun # 0)
    /\ secret = 0 => cameras = 0 /\ sealed = 0 /\ \A p \in Pid : keyOf[p] = 0

LEMMA InitRemaining == Init => Remaining
<1> SUFFICES ASSUME Init PROVE Remaining  OBVIOUS
<1>1. cmd.pc = "idle" /\ \A p \in Pid : keyOf[p] = 0  BY DEF Init, NoCmd
<1>2. /\ broken = {} /\ kids = {} /\ late = {} /\ begun = 0 /\ cameras = 0
      /\ secret = 0 /\ sealed = 0
    BY DEF Init
<1>3. ruled \in BOOLEAN  BY DEF Init
<1>4. 0 \in 0..MaxCmds  BY Pids
<1> QED BY <1>1, <1>2, <1>3, <1>4 DEF Remaining, At

\* Publishers cut off and children are processes of the rig, and only a process
\* sent SIGTERM can start a child after it.
LEMMA StepFamilies ==
    ASSUME FilesInv, Named, Remaining, [Next]_vars
    PROVE  /\ broken' \subseteq Pid /\ kids' \subseteq Pid
           /\ late' \subseteq terming' /\ ruled' \in BOOLEAN
<1>0. up \subseteq Pid /\ RigTypes  BY DEF FilesInv, RigTypes
<1>1. \A p : Gone(p) => broken' \subseteq Pid  BY <1>0 DEF Gone, Remaining
<1>2. CASE Step \/ Login(TRUE)
    <2>1. CASE Reap
        BY <1>1, <2>1 DEF Reap, Kill, site, Remaining, At
    <2>2. CASE ~Reap
        BY <1>0, <1>2, <2>2
            DEF Step, processes, site, Popen, WritePid, EnsureSecrets, StartBroker, Probe, StartCapture,
                StartApi, Waits, Login, ListCameras, CreateCamera, InstallRules, StartWorker,
                Terminate, Returns, Look, CheckCamera, Remaining
    <2> QED BY <2>1, <2>2
<1>3. CASE Interrupted \/ \E op \in Ops : Begins(op)
    BY <1>3 DEF Interrupted, Begins, processes, site, Remaining
<1>4. ASSUME NEW p \in Pid, ComesUp(p) \/ Exits(p) \/ Crashes(p) \/ KidStarts(p) \/ KidsEnd(p)
      PROVE  /\ broken' \subseteq Pid /\ kids' \subseteq Pid
             /\ late' \subseteq terming' /\ ruled' \in BOOLEAN
    BY <1>1, <1>4 DEF ComesUp, Exits, Crashes, KidStarts, KidsEnd, site, Remaining
<1>5. CASE UNCHANGED vars  BY <1>5 DEF vars, processes, site, Remaining
<1> QED BY <1>2, <1>3, <1>4, <1>5 DEF Next

\* A command is under way only when one has begun.
LEMMA StepBegun ==
    ASSUME FilesInv, Remaining, [Next]_vars
    PROVE  /\ begun' \in 0..MaxCmds /\ (begun # 0 => begun' # 0)
           /\ ~At("idle")' => begun' # 0
<1>0. begun \in Nat /\ MaxCmds \in Nat /\ begun <= MaxCmds /\ cmd \in Cmd
    BY Pids DEF Remaining, FilesInv, RigTypes
<1>1. CASE Step \/ Login(TRUE)
    <2>1. begun' = begun
        BY <1>1
            DEF Step, budget, WritePid, EnsureSecrets, StartBroker, Probe, StartCapture,
                StartApi, Waits, Login, ListCameras, CreateCamera, InstallRules, StartWorker,
                Terminate, Reap, Returns, Look, CheckCamera
    <2>2. ~At("idle")
        BY <1>1
            DEF Step, At, Awaited, WritePid, EnsureSecrets, StartBroker, Probe, StartCapture,
                StartApi, Waits, Login, ListCameras, CreateCamera, InstallRules, StartWorker,
                Terminate, Stopping, Reap, Returns, Look, CheckCamera
    <2> QED BY <1>0, <2>1, <2>2 DEF Remaining
<1>2. CASE Interrupted
    BY <1>0, <1>2, EndFacts DEF Interrupted, Remaining, At
<1>3. ASSUME NEW op \in Ops, Begins(op) PROVE begun' \in 0..MaxCmds /\ begun' # 0
    <2>1. begun < MaxCmds /\ begun' = begun + 1  BY <1>3 DEF Begins
    <2> QED BY <1>0, <2>1
<1>4. ASSUME NEW p \in Pid, ComesUp(p) \/ Exits(p) \/ Crashes(p) \/ KidStarts(p) \/ KidsEnd(p)
      PROVE  begun' = begun /\ cmd'.pc = cmd.pc
    BY <1>0, <1>4 DEF ComesUp, Exits, Crashes, KidStarts, KidsEnd, budget, Cmd
<1>5. CASE UNCHANGED vars  BY <1>0, <1>5 DEF vars, budget, Remaining, At
<1> QED BY <1>0, <1>1, <1>2, <1>3, <1>4, <1>5 DEF Next, Remaining, At

\* Keys come from the secrets, and cameras from a start that has them.
LEMMA StepSealed ==
    ASSUME FilesInv, Route, Registered, Remaining, [Next]_vars
    PROVE  /\ sealed' \in {0, 1} /\ (secret' # 0 => begun # 0)
           /\ secret' = 0 => cameras' = 0 /\ sealed' = 0 /\ \A p \in Pid : keyOf'[p] = 0
<1>0. up \subseteq Pid /\ keyOf \in [Pid -> {0, 1}] /\ RigTypes
    BY DEF FilesInv, RigTypes, Registered
<1>1. CASE EnsureSecrets
    <2>1. secret' # 0 /\ sealed' = sealed
        BY <1>1 DEF EnsureSecrets, Registered, At, Towards
    <2> QED BY <1>1, <2>1 DEF EnsureSecrets, Remaining, At
<1>2. CASE CreateCamera
    <2>1. secret = 1 /\ secret' = secret
        BY <1>2 DEF CreateCamera, Route, StartPlaces, Registered, At
    <2>2. sealed' \in {0, 1}
        BY <1>0, <1>2 DEF CreateCamera, Remaining
    <2> QED BY <2>1, <2>2 DEF Remaining
<1>3. ASSUME NEW n \in Name, NEW next \in Ordinary, Popen(n, next)
      PROVE  secret = 0 /\ (\A p \in Pid : keyOf[p] = 0) => \A p \in Pid : keyOf'[p] = 0
    <2>1. PICK q \in Pid : Spawned(q, n, next)  BY <1>0, <1>3, PopenFacts
    <2> QED BY <1>0, <2>1 DEF Spawned
<1>4. CASE UNCHANGED site
    <2>1. UNCHANGED keyOf \/ \E n \in Name, next \in Ordinary : Popen(n, next)
        BY <1>4 DEF Next, Step, vars, processes, WritePid, EnsureSecrets, StartBroker, Probe, StartCapture,
               StartApi, Waits, Login, ListCameras, CreateCamera, InstallRules, StartWorker, Terminate,
               Reap, Returns, Look, CheckCamera, Interrupted, Begins, ComesUp, Exits, Crashes,
               KidStarts, KidsEnd, Name, Ordinary
    <2> QED BY <1>3, <1>4, <2>1 DEF site, Remaining
<1>5. CASE InstallRules
    BY <1>5 DEF InstallRules, processes, Remaining
<1>6. UNCHANGED site \/ EnsureSecrets \/ CreateCamera \/ InstallRules
    BY DEF Next, Step, vars, WritePid, StartBroker, Probe, StartCapture,
           StartApi, Waits, Login, ListCameras, StartWorker, Terminate,
           Reap, Returns, Look, CheckCamera, Interrupted, Begins, ComesUp, Exits, Crashes,
           KidStarts, KidsEnd
<1> QED BY <1>1, <1>2, <1>4, <1>5, <1>6

\* Every reachable state of the rig is well typed, for any number of commands,
\* crashes and Ctrl-Cs.
THEOREM RigTypeCorrect == Spec => []TypeOK
<1>1. StopInv /\ StartInv /\ Remaining => TypeOK
    <2> SUFFICES ASSUME StopInv, StartInv, Remaining PROVE TypeOK  OBVIOUS
    <2>0. RigTypes /\ Named /\ Registered  BY DEF StopInv, FilesInv, StartInv
    <2>a. secret \in {0, 1} /\ cameras \in {0, 1} /\ keyOf \in [Pid -> {0, 1}]
        BY <2>0 DEF Registered
    <2>b. /\ sealed \in {0, 1} /\ begun \in 0..MaxCmds /\ (secret # 0 => begun # 0)
          /\ secret = 0 => cameras = 0 /\ sealed = 0 /\ \A p \in Pid : keyOf[p] = 0
        BY DEF Remaining
    <2>1. secret \in 0..MaxCmds /\ cameras \in 0..MaxCmds
        BY <2>a, <2>b, Pids
    <2>2. sealed \in 0..secret
        BY <2>a, <2>b
    <2>3. keyOf \in [Pid -> 0..secret]
        <3>1. \A p \in Pid : keyOf[p] \in 0..secret  BY <2>a, <2>b
        <3> QED BY <2>a, <3>1
    <2>4. cmd.op \in Ops \union {"none"} /\ cmd.pid \in Pid \union {0}  BY <2>0 DEF RigTypes, Cmd
    <2> QED BY <2>0, <2>1, <2>2, <2>3, <2>4 DEF TypeOK, RigTypes, Named, Remaining
<1>2. Init => StopInv /\ StartInv /\ Remaining  BY InitStop, InitStart, InitRemaining
<1>3. StopInv /\ StartInv /\ Remaining /\ [Next]_vars => (StopInv /\ StartInv /\ Remaining)'
    <2> SUFFICES ASSUME StopInv, StartInv, Remaining, [Next]_vars
                 PROVE  (StopInv /\ StartInv /\ Remaining)'
        OBVIOUS
    <2>1. StopInv' /\ StartInv'  BY StepStarts
    <2>2. Remaining'
        BY StepFamilies, StepBegun, StepSealed DEF Remaining, StopInv, StartInv
    <2> QED BY <2>1, <2>2
<1> QED BY <1>1, <1>2, <1>3, PTL DEF Spec

=============================================================================
