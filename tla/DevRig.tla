------------------------------- MODULE DevRig -------------------------------
(* scripts/local_cctv_rig.py: the commands that boot, inspect and tear down a  *)
(* whole site on one machine, a broker, a publisher, the API and the worker,   *)
(* each tracked by a PID file and running in a process group of its own.       *)
(* Commands follow each other and Ctrl-C may end one anywhere.  Processes may  *)
(* die, and a broker takes the stream of its publisher with it without ending  *)
(* the publisher.                                                              *)
(*                                                                             *)
(* A wait with a deadline is a step that goes on when the condition holds and  *)
(* gives up when it does not.  PIDs are not reused.                            *)
EXTENDS Naturals, FiniteSets

CONSTANTS MaxCmds, MaxCrashes, MaxInterrupts

ASSUME RigAssumption == {MaxCmds, MaxCrashes, MaxInterrupts} \subseteq Nat

Pid == 1..4*MaxCmds                             \* a command starts four at most
Name == {"mediamtx", "capture", "api", "worker"}

VARIABLES
  name,       \* what each process is, "none" when the PID is not given yet
  alive,      \* the group leaders that run
  up,         \* those that serve: port open, stream published, /health/live
  broken,     \* publishers whose broker went away under them
  kids,       \* groups with children: recorders, decoders, live transcodes
  terming, late,          \* sent SIGTERM; started a child after that
  pidfile,    \* .rig/pids/<name>.pid, 0 when there is none
  secret,     \* .rig/env: the number of its master key, 0 when there is none
  keyOf,      \* the key each process was started with
  cameras,    \* rows named CAM_NAME, in the API's database
  sealed,     \* the key their addresses are encrypted with
  ruled,      \* the demo rules are installed on one
  cmd,        \* the invocation: command, place in it, process in hand
  begun, crashes, interrupts

processes == <<name, keyOf, alive, up, broken, kids, terming, late>>
budget == <<begun, crashes, interrupts>>
site == <<secret, cameras, sealed, ruled>>
vars == <<processes, pidfile, site, cmd, budget>>

NoCmd == [op |-> "none", pc |-> "idle", pid |-> 0, then |-> "idle", calm |-> TRUE]
Ops == {"start", "status", "verify", "stop"}
Ready(n) == \E p \in up : name[p] = n           \* port_open, rtsp_ready, _api_alive
Tracked(n) == pidfile[n] # 0 /\ pidfile[n] \in alive

Init ==
  /\ name = [p \in Pid |-> "none"] /\ alive = {} /\ up = {} /\ broken = {} /\ kids = {}
  /\ terming = {} /\ late = {} /\ pidfile = [n \in Name |-> 0] /\ cameras = 0 /\ ruled = FALSE
  /\ secret = 0 /\ keyOf = [p \in Pid |-> 0] /\ sealed = 0
  /\ cmd = NoCmd
  /\ begun = 0 /\ crashes = 0 /\ interrupts = 0

At(pc) == cmd.pc = pc
Go(pc) == cmd' = [cmd EXCEPT !.pc = pc]
End == cmd' = NoCmd                             \* return, sys.exit or an exception

Begins(op) ==
  /\ cmd = NoCmd /\ begun < MaxCmds /\ begun' = begun + 1
  /\ cmd' = [NoCmd EXCEPT !.op = op, !.calm = (alive \cap terming = {}),
                !.pc = CASE op = "start" -> "secrets" [] op = "stop" -> "worker.stop" [] OTHER -> "look"]
  /\ UNCHANGED <<processes, pidfile, site, crashes, interrupts>>

ForgetsUnready(n) ==
  pidfile' = IF pidfile[n] # 0 /\ ~Ready(n) THEN [pidfile EXCEPT ![n] = 0] ELSE pidfile

(* is_running: the answer is Tracked(n), and a file that names a dead process  *)
(* is removed.                                                                 *)
is_running(n) ==
  pidfile' = IF pidfile[n] # 0 /\ ~Tracked(n) THEN [pidfile EXCEPT ![n] = 0] ELSE pidfile

(* What the children are given: of it, the model keeps the key.                *)
rig_env == secret

(* spawn: the process first, then its PID file.                                *)
Popen(n, next) ==
  \E p \in Pid :
    /\ name[p] = "none" /\ \A q \in Pid : name[q] = "none" => p <= q
    /\ name' = [name EXCEPT ![p] = n] /\ alive' = alive \union {p}
    /\ keyOf' = [keyOf EXCEPT ![p] = rig_env]
    /\ cmd' = [cmd EXCEPT !.pc = "write", !.pid = p, !.then = next]
    /\ UNCHANGED <<up, broken, kids, terming, late>>

WritePid ==
  /\ At("write")
  /\ pidfile' = [pidfile EXCEPT ![name[cmd.pid]] = cmd.pid]
  /\ cmd' = [cmd EXCEPT !.pc = cmd.then, !.pid = 0]
  /\ UNCHANGED <<processes, site, budget>>

-----------------------------------------------------------------------------
(* cmd_start.                                                                  *)

(* Faulty variant: the secrets are made anew.                                  *)
RenewSecrets ==
  /\ At("secrets") /\ secret' = secret + 1 /\ Go("broker")
  /\ UNCHANGED <<processes, pidfile, cameras, sealed, ruled, budget>>

(* The secrets are made once, and handed to every process that is started.     *)
EnsureSecrets ==
  /\ At("secrets") /\ secret' = (IF secret = 0 THEN 1 ELSE secret) /\ Go("broker")
  /\ UNCHANGED <<processes, pidfile, cameras, sealed, ruled, budget>>

StartBroker ==
  /\ At("broker") /\ is_running("mediamtx")
  /\ IF Tracked("mediamtx") \/ Ready("mediamtx") THEN Go("probe") /\ UNCHANGED processes
     ELSE Popen("mediamtx", "broker.wait")
  /\ UNCHANGED <<site, budget>>

(* A publisher that runs without publishing is stopped first.                  *)
ProbeRunning ==
  /\ At("probe") /\ is_running("capture") /\ Go("capture")
  /\ UNCHANGED <<processes, site, budget>>

Probe ==
  /\ At("probe") /\ is_running("capture")
  /\ Go(IF Tracked("capture") /\ ~Ready("capture") THEN "capture.stop" ELSE "capture")
  /\ UNCHANGED <<processes, site, budget>>

StartCapture ==
  /\ At("capture") /\ is_running("capture")
  /\ IF Tracked("capture") THEN Go("api") /\ UNCHANGED processes
     ELSE Popen("capture", "capture.wait")
  /\ UNCHANGED <<site, budget>>

StartApi ==
  /\ At("api") /\ is_running("api")
  /\ IF Tracked("api") THEN Go("login") /\ UNCHANGED processes
     ELSE IF Ready("api") THEN End /\ UNCHANGED processes    \* a port in use: die
     ELSE Popen("api", "api.wait")
  /\ UNCHANGED <<site, budget>>

(* wait_for and rtsp_ready, and die when the time is up.                       *)
Awaited == [pc \in {"broker.wait", "capture.wait", "api.wait"} |->
              CASE pc = "broker.wait" -> "mediamtx" [] pc = "capture.wait" -> "capture"
                [] OTHER -> "api"]
After == [pc \in {"broker.wait", "capture.wait", "api.wait"} |->
            CASE pc = "broker.wait" -> "probe" [] pc = "capture.wait" -> "api" [] OTHER -> "login"]

WaitsForever ==
  /\ cmd.pc \in DOMAIN Awaited
  /\ Ready(Awaited[cmd.pc]) /\ Go(After[cmd.pc])
  /\ UNCHANGED <<processes, pidfile, site, budget>>

Waits ==
  /\ cmd.pc \in DOMAIN Awaited
  /\ IF Ready(Awaited[cmd.pc]) THEN Go(After[cmd.pc]) ELSE End
  /\ UNCHANGED <<processes, pidfile, site, budget>>

(* login: without an API, and when it limits the rate, the command ends in an  *)
(* exception.                                                                  *)
Login(limited) ==
  /\ At("login")
  /\ IF Ready("api") /\ ~limited THEN Go(IF cmd.op = "start" THEN "list" ELSE "camera")
     ELSE End
  /\ UNCHANGED <<processes, pidfile, site, budget>>

(* register_camera: look for the name, then create.                            *)
ListCameras ==
  /\ At("list")
  /\ IF Ready("api") THEN Go(IF cameras > 0 THEN "worker" ELSE "create") ELSE End
  /\ UNCHANGED <<processes, pidfile, site, budget>>

CreateCamera ==
  /\ At("create")
  /\ IF Ready("api")
     THEN \E p \in up : /\ name[p] = "api" /\ sealed' = keyOf[p]
                       /\ cameras' = cameras + 1 /\ Go("rules")
     ELSE End /\ UNCHANGED <<cameras, sealed>>
  /\ UNCHANGED <<processes, pidfile, secret, ruled, budget>>

InstallRules ==
  /\ At("rules")
  /\ IF Ready("api") THEN ruled' = TRUE /\ Go("worker") ELSE End /\ UNCHANGED ruled
  /\ UNCHANGED <<processes, pidfile, secret, cameras, sealed, budget>>

StartWorker ==
  /\ At("worker") /\ is_running("worker")
  /\ IF Tracked("worker") THEN Go("rig is up") /\ UNCHANGED processes
     ELSE Popen("worker", "rig is up")
  /\ UNCHANGED <<site, budget>>

-----------------------------------------------------------------------------
(* stop_named, in a stop and for the publisher of a start.                     *)

StopNext == [n \in Name |-> CASE n = "worker" -> "api.stop" [] n = "api" -> "capture.stop"
                              [] n = "capture" -> "mediamtx.stop" [] OTHER -> "torn down"]
Following(n) == IF cmd.op = "start" THEN "capture" ELSE StopNext[n]
Stopping(n) == At(CASE n = "worker" -> "worker.stop" [] n = "api" -> "api.stop"
                          [] n = "capture" -> "capture.stop" [] OTHER -> "mediamtx.stop")

(* killpg of a group whose leader is gone finds no group to kill.              *)
Terminate(n) ==
  /\ Stopping(n)
  /\ IF pidfile[n] = 0 THEN Go(Following(n)) /\ UNCHANGED <<kids, terming>>
     ELSE /\ cmd' = [cmd EXCEPT !.pc = "reap", !.pid = pidfile[n],
                                !.then = Following(n)]
          /\ IF pidfile[n] \in alive
             THEN terming' = terming \union {pidfile[n]} /\ kids' = kids \ {pidfile[n]}
             ELSE UNCHANGED <<kids, terming>>
  /\ UNCHANGED <<name, keyOf, alive, up, broken, late, pidfile, site, budget>>

Gone(p) ==   \* the process p, and the streams a broker carried
  /\ alive' = alive \ {p}
  /\ LET cut == IF name[p] = "mediamtx" /\ p \in up THEN {q \in up : name[q] = "capture"} ELSE {}
     IN  up' = up \ ({p} \union cut) /\ broken' = broken \union cut

(* Reaped within 5 s, or killed: the leader only; then the file is removed.    *)
ReapUnkilled == UNCHANGED <<alive, up, broken>>

Kill == IF cmd.pid \in alive THEN Gone(cmd.pid) ELSE UNCHANGED <<alive, up, broken>>

Reap ==
  /\ At("reap")
  /\ Kill
  /\ pidfile' = [pidfile EXCEPT ![name[cmd.pid]] = 0]
  /\ cmd' = [cmd EXCEPT !.pc = cmd.then, !.pid = 0]
  /\ UNCHANGED <<name, keyOf, kids, terming, late, site, budget>>

(* The last line of a start, a stop, a status or a verify.                     *)
Returns ==
  /\ cmd.pc \in {"rig is up", "torn down", "checked"}
  /\ End
  /\ UNCHANGED <<processes, pidfile, site, budget>>

-----------------------------------------------------------------------------
(* cmd_status and cmd_verify: they look at every process, which may remove PID *)
(* files, and a verify has the API start a live transcode.                     *)
Look ==
  /\ At("look")
  /\ pidfile' = [n \in Name |-> IF Tracked(n) THEN pidfile[n] ELSE 0]
  /\ Go(IF cmd.op = "verify" \/ Ready("api") THEN "login" ELSE "checked")
  /\ UNCHANGED <<processes, site, budget>>

CheckCamera ==
  /\ At("camera")
  /\ IF cmd.op = "verify" /\ cameras > 0 /\ Ready("api")
     THEN kids' = kids \union {p \in up : name[p] = "api"} ELSE UNCHANGED kids
  /\ Go("checked")
  /\ UNCHANGED <<name, keyOf, alive, up, broken, terming, late, pidfile, site, budget>>

Interrupted ==
  /\ cmd # NoCmd /\ interrupts < MaxInterrupts /\ interrupts' = interrupts + 1
  /\ End
  /\ UNCHANGED <<processes, pidfile, site, begun, crashes>>

-----------------------------------------------------------------------------
(* The processes.                                                              *)

Rivals(p) == {q \in up \ {p} : name[q] = name[p]}

ComesUp(p) ==
  /\ p \in alive \ (up \union broken \union terming) /\ name[p] # "worker" /\ Rivals(p) = {}
  /\ name[p] = "capture" => Ready("mediamtx")
  /\ up' = up \union {p}
  /\ UNCHANGED <<name, keyOf, alive, broken, kids, terming, late, pidfile, site, cmd, budget>>

(* One that does not come up, a taken port, a broker that refuses a second     *)
(* publisher, exits; one sent SIGTERM exits too, but for the worker, whose     *)
(* main thread goes on (WorkerLifecycle).                                      *)
Exits(p) ==
  /\ p \in alive /\ name[p] # "worker" /\ (p \in terming \/ p \notin up)
  /\ Gone(p)
  /\ UNCHANGED <<name, keyOf, kids, terming, late, pidfile, site, cmd, budget>>

Crashes(p) ==
  /\ p \in alive /\ crashes < MaxCrashes /\ crashes' = crashes + 1
  /\ Gone(p) /\ cmd' = IF cmd = NoCmd THEN cmd ELSE [cmd EXCEPT !.calm = FALSE]
  /\ UNCHANGED <<name, keyOf, kids, terming, late, pidfile, site, begun, interrupts>>

KidStarts(p) ==
  /\ p \in alive \ kids /\ (name[p] = "worker" \/ (name[p] = "api" /\ p \in up \ terming))
  /\ kids' = kids \union {p} /\ late' = IF p \in terming THEN late \union {p} ELSE late
  /\ UNCHANGED <<name, keyOf, alive, up, broken, terming, pidfile, site, cmd, budget>>

KidsEnd(p) ==
  /\ p \in kids /\ kids' = kids \ {p}
  /\ UNCHANGED <<name, keyOf, alive, up, broken, terming, late, pidfile, site, cmd, budget>>

Step ==
  \/ WritePid \/ EnsureSecrets \/ StartBroker \/ Probe \/ StartCapture \/ StartApi \/ Waits
  \/ Login(FALSE) \/ ListCameras \/ CreateCamera \/ InstallRules
  \/ StartWorker
  \/ (\E n \in Name : Terminate(n)) \/ Reap \/ Returns \/ Look \/ CheckCamera

Next ==
  \/ Step \/ Login(TRUE) \/ Interrupted \/ \E op \in Ops : Begins(op)
  \/ \E p \in Pid : ComesUp(p) \/ Exits(p) \/ Crashes(p) \/ KidStarts(p) \/ KidsEnd(p)

Spec == Init /\ [][Next]_vars

-----------------------------------------------------------------------------
TypeOK ==
  /\ name \in [Pid -> Name \union {"none"}] /\ alive \subseteq Pid
  /\ up \subseteq alive /\ broken \subseteq Pid /\ kids \subseteq Pid
  /\ pidfile \in [Name -> Pid \union {0}] /\ cameras \in 0..MaxCmds /\ ruled \in BOOLEAN
  /\ cmd.op \in Ops \union {"none"} /\ cmd.pid \in Pid \union {0}
  /\ terming \subseteq Pid /\ late \subseteq terming
  /\ secret \in 0..MaxCmds /\ sealed \in 0..secret /\ keyOf \in [Pid -> 0..secret]

(* When a start that nobody disturbed, no crash and no process still on its    *)
(* way out, says that the rig is up, it is: a worker runs, the stream is       *)
(* published, which its finite reconnect budget needs, the API serves and the  *)
(* camera is registered once, under a key the worker has.  The PID files name  *)
(* all four processes, unless a Ctrl-C fell between a process and its file,    *)
(* and the rules are installed, unless an earlier start ended between the      *)
(* camera and its rules.                                                       *)
UpMeansUp ==
  At("rig is up") /\ cmd.calm =>
    /\ Ready("mediamtx") /\ Ready("capture") /\ Ready("api") /\ Tracked("worker")
    /\ cameras = 1 /\ keyOf[pidfile["worker"]] = sealed
    /\ interrupts = 0 => \A n \in Name : Tracked(n)
    /\ interrupts + crashes = 0 => ruled

(* While no Ctrl-C ends a command, every process of the rig has its PID file,  *)
(* or is just getting it: nothing the rig started is out of reach of a stop,   *)
(* whatever died in between.                                                   *)
NothingUntracked ==
  interrupts = 0 =>
    \A p \in alive : pidfile[name[p]] = p \/ (At("write") /\ cmd.pid = p)

(* Without crashes and Ctrl-C nothing runs after a stop, but for children that *)
(* the worker started while it was being stopped: in the end only its leader   *)
(* is killed.                                                                  *)
StopLeavesNothing ==
  At("torn down") /\ crashes = 0 /\ interrupts = 0 =>
    alive = {} /\ kids \subseteq late

(* "stop tears the whole tree down without orphans" (local_cctv_rig.py 17, and *)
(* 133, 173).  Does not hold: SIGTERM goes to the group, SIGKILL to the leader *)
(* alone (189), and the worker forks ffmpeg in between.                        *)
NoOrphans == At("torn down") /\ crashes = 0 /\ interrupts = 0 => kids = {}
=============================================================================
